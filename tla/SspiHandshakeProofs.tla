------------------------ MODULE SspiHandshakeProofs --------------------------
(***************************************************************************)
(* For every number of clients, every length of the conversations and      *)
(* every cut of the streams: what the server holds when it waits for a     *)
(* client, and, for a package that wants no token completed, that each     *)
(* call is given its token whole, that both sides go on to the message     *)
(* only when the conversation is over, and that the message comes out of   *)
(* the stream as it went in.                                               *)
(***************************************************************************)
EXTENDS SspiHandshake, SequenceTheorems, TLAPS

(* Where the server has a conversation, and where its context is complete.  *)
Talking == {"size", "body", "gen", "send", "session", "name", "sendData", "finish"}
Agreed  == {"session", "name", "sendData", "finish"}

Types ==
    /\ tokens \in [Clients -> Nat]
    /\ pc = [p \in Procs |-> pc[p]]
    /\ creds = [p \in Procs |-> creds[p]] /\ ctxts = [p \in Procs |-> ctxts[p]]
    /\ calls \in [Procs -> Nat] /\ fDone \in [Procs -> BOOLEAN]
    /\ DOMAIN conn = Clients /\ DOMAIN isOpen = Clients

(* What the server holds follows from where it is; that it has made a call  *)
(* of the package by the time it leaves DoAuthentication is what gives the  *)
(* context back at the end of the loop's body.                              *)
ServerInv ==
    /\ pc[Server] \in {"listen", "accept", "closeListen", "down"} \union Talking
    /\ creds[Server] = IF pc[Server] \in Talking THEN 1 ELSE 0
    /\ ctxts[Server] = IF calls[Server] = 0 THEN 0 ELSE 1
    /\ pc[Server] \notin Talking => calls[Server] = 0
    /\ pc[Server] \in Agreed \union {"send"} => calls[Server] # 0
    /\ asClient => pc[Server] = "name"
    /\ IF pc[Server] \in Talking \union {"closeListen"} THEN serving \in Clients ELSE serving = None
    /\ \A c \in Clients : conn[c] = "accepted" /\ Server \in isOpen[c] => serving = c

(* The package is done only when it has seen the last token; each side goes *)
(* on only when its last call said so.                                      *)
DoneInv ==
    /\ pc[Server] \in Talking /\ fDone[Server] => 2 * calls[Server] >= tokens[serving]
    /\ pc[Server] \in Agreed => fDone[Server]
    /\ \A c \in Clients :
          /\ fDone[c] => 2 * calls[c] >= tokens[c] + 1
          /\ pc[c] \in {"message", "decrypt", "exit"} => fDone[c]

LEMMA Apart ==
  /\ Server \in Procs /\ Server \notin Clients /\ None \notin Clients /\ Clients \subseteq Procs
  /\ Procs = Clients \union {Server} /\ MaxTokens \in Nat /\ Completes \in BOOLEAN
BY SspiAssumption DEF Procs

(* Where sending and receiving lead, and what they leave alone.             *)
Moves(p) ==
    \/ pc' = pc
    \/ pc[p] = "sendData" /\ Goto(p, "finish")
    \/ pc[p] = "send" /\ ~fDone[p] /\ Goto(p, "size")
    \/ pc[p] = "send" /\ fDone[p] /\ p = Server /\ Goto(p, "session")
    \/ pc[p] = "send" /\ fDone[p] /\ p # Server /\ Goto(p, "message")
    \/ pc[p] = "size" /\ (Goto(p, "gen") \/ Goto(p, "body"))
    \/ pc[p] = "body" /\ Goto(p, "gen")
    \/ pc[p] = "message" /\ Goto(p, "decrypt")

LEMMA IoMoves ==
  ASSUME Types, NEW p \in Procs, SendBytes(p) \/ ReceiveBytes(p)
  PROVE  /\ UNCHANGED <<tokens, calls, fDone, creds, ctxts, conn, isOpen, serving, asClient>>
         /\ Moves(p)
<1>1. UNCHANGED <<tokens, calls, fDone, creds, ctxts, conn, isOpen, serving, asClient>>
  BY DEF SendBytes, ReceiveBytes, secVars, linkVars
<1>2. pc = [pc EXCEPT ![p] = pc[p]]
  BY DEF Types
<1>3. CASE SendBytes(p)
  <2>1. pc[p] = "send" \/ pc[p] = "sendData"
    BY <1>3 DEF SendBytes, Sending
  <2>2. PICK n \in 1 .. Len(out[p]) :
           pc' = [pc EXCEPT ![p] = IF n < Len(out[p]) THEN pc[p] ELSE AfterSend(p, fDone[p])]
    BY <1>3 DEF SendBytes, Goto
  <2>3. CASE n < Len(out[p])
    BY <1>1, <1>2, <2>2, <2>3 DEF Moves
  <2>4. CASE ~(n < Len(out[p]))
    <3>1. Goto(p, AfterSend(p, fDone[p]))
      BY <2>2, <2>4 DEF Goto
    <3>2. fDone[p] \in BOOLEAN
      BY DEF Types
    <3>3. CASE pc[p] = "sendData"
      <4>1. AfterSend(p, fDone[p]) = "finish"
        BY <3>3 DEF AfterSend
      <4> QED
        BY <1>1, <3>1, <3>3, <4>1, Zenon DEF Moves, Goto
    <3>4. CASE pc[p] = "send"
      <4>1. AfterSend(p, fDone[p]) = IF ~fDone[p] THEN "size"
                                     ELSE IF p = Server THEN "session" ELSE "message"
        BY <3>2, <3>4 DEF AfterSend
      <4> QED
        BY <1>1, <3>1, <3>2, <3>4, <4>1, Zenon DEF Moves, Goto
    <3> QED
      BY <1>1, <2>1, <3>3, <3>4
  <2> QED
    BY <2>3, <2>4
<1>4. CASE ReceiveBytes(p)
  <2>1. pc[p] = "size" \/ pc[p] = "body" \/ pc[p] = "message"
    BY <1>4 DEF ReceiveBytes, Receiving
  <2>2. PICK n \in 1 .. Len(net[Peer(p)][Inward(p)]) :
           \/ Received(p, inq[p] \o SubSeq(net[Peer(p)][Inward(p)], 1, n))
           \/ pc' = pc
    BY <1>4 DEF ReceiveBytes
  <2>3. CASE Received(p, inq[p] \o SubSeq(net[Peer(p)][Inward(p)], 1, n))
    <3>1. CASE pc[p] = "size"
      <4>1. Goto(p, "gen") \/ Goto(p, "body")
        BY <2>3, <3>1 DEF Received, Goto
      <4> QED
        BY <1>1, <3>1, <4>1, Zenon DEF Moves
    <3>2. CASE pc[p] = "body"
      <4>1. Goto(p, "gen")
        BY <2>3, <3>2 DEF Received, Goto
      <4> QED
        BY <1>1, <3>2, <4>1, Zenon DEF Moves
    <3>3. CASE pc[p] = "message"
      <4>1. Goto(p, "decrypt")
        BY <2>3, <3>3 DEF Received, Goto
      <4> QED
        BY <1>1, <3>3, <4>1, Zenon DEF Moves
    <3> QED
      BY <1>1, <2>1, <3>1, <3>2, <3>3
  <2> QED
    BY <1>1, <2>2, <2>3 DEF Moves
<1> QED
  BY <1>3, <1>4

(* Nobody has started.                                                      *)
LEMMA InitInv == Init => Types /\ ServerInv /\ DoneInv
<1> SUFFICES ASSUME Init PROVE Types /\ ServerInv /\ DoneInv
  OBVIOUS
<1>1. Types
  BY Apart DEF Init, Types
<1>2. ServerInv
  BY Apart DEF Init, ServerInv, Talking, Agreed
<1>3. DoneInv
  BY Apart DEF Init, DoneInv, Talking, Agreed
<1> QED
  BY <1>1, <1>2, <1>3

(* Every step keeps the types.                                              *)
LEMMA TypesKept == Types /\ [Next]_vars => Types'
<1> SUFFICES ASSUME Types, [Next]_vars PROVE Types'
  OBVIOUS
<1> USE Apart DEF Types, Goto, secVars, ioVars, linkVars
<1>1. ASSUME NEW p \in Procs, SendBytes(p) \/ ReceiveBytes(p) PROVE Types'
  <2>1. pc' = [q \in Procs |-> pc'[q]]
    BY <1>1, IoMoves DEF Moves
  <2> QED
    BY <1>1, <2>1, IoMoves
<1>2. ASSUME NEW c \in Clients, MyHandleError(c) PROVE Types'
  BY <1>2 DEF MyHandleError, Forget
<1>3. CASE cleanup
  BY <1>3 DEF cleanup, Forget, ResetQueue
<1>4. CASE GenServerContext
  <2>1. fDone' \in [Procs -> BOOLEAN]
    BY <1>4 DEF GenServerContext, Done
  <2>2. calls' \in [Procs -> Nat]
    BY <1>4 DEF GenServerContext
  <2>3. pc' = [q \in Procs |-> pc'[q]]
    BY <1>4 DEF GenServerContext
  <2> QED
    BY <1>4, <2>1, <2>2, <2>3 DEF GenServerContext
<1>5. CASE Listen \/ Accept \/ Impersonate \/ RevertAndEncrypt
  BY <1>5 DEF Listen, Accept, Impersonate, RevertAndEncrypt
<1>6. CASE CloseListen \/ Finish
  <2>1. CASE CloseListen
    BY <2>1 DEF CloseListen, ResetQueue
  <2>2. CASE Finish
    BY <2>2 DEF Finish
  <2> QED
    BY <1>6, <2>1, <2>2
<1>7. ASSUME NEW c \in Clients, GenClientContext(c) PROVE Types'
  <2>1. fDone' \in [Procs -> BOOLEAN]
    BY <1>7 DEF GenClientContext, Done
  <2>2. calls' \in [Procs -> Nat]
    BY <1>7 DEF GenClientContext
  <2>3. pc' = [q \in Procs |-> pc'[q]]
    BY <1>7 DEF GenClientContext
  <2> QED
    BY <1>7, <2>1, <2>2, <2>3 DEF GenClientContext
<1>8. ASSUME NEW c \in Clients, ConnectAuthSocket(c) \/ ClientMain(c) \/ ConnectionBreaks(c) PROVE Types'
  BY <1>8 DEF ConnectAuthSocket, ClientMain, ConnectionBreaks
<1>9. ASSUME NEW c \in Clients, ClientStreamEnds(c) PROVE Types'
  <2>1. CASE MyHandleError(c)
    BY <1>2, <2>1
  <2>2. CASE Goto(c, "decrypt") /\ UNCHANGED <<tokens, calls, fDone, linkVars, creds, ctxts>>
    BY <2>2
  <2> QED
    BY <1>9, <2>1, <2>2, Zenon DEF ClientStreamEnds, linkVars
<1>10. CASE UNCHANGED vars
  BY <1>10 DEF vars
<1> QED
  BY <1>1, <1>2, <1>3, <1>4, <1>5, <1>6, <1>7, <1>8, <1>9, <1>10
     DEF Next, ServerStep, ClientStep, ServerFails, ClientFails, ServerStreamEnds
(* What the steps of a client leave alone of the server's.                  *)
ServersOwn ==
    /\ pc'[Server] = pc[Server] /\ creds'[Server] = creds[Server]
    /\ ctxts'[Server] = ctxts[Server] /\ calls'[Server] = calls[Server]
    /\ fDone'[Server] = fDone[Server]
    /\ asClient' = asClient /\ serving' = serving /\ tokens' = tokens
    /\ \A x \in Clients : conn'[x] = "accepted" /\ Server \in isOpen'[x]
                             => conn[x] = "accepted" /\ Server \in isOpen[x]

LEMMA ClientsKeepOff ==
  ASSUME Types, NEW c \in Clients, ClientStep(c) \/ ClientFails(c) \/ ConnectionBreaks(c)
  PROVE  ServersOwn
<1> USE Apart DEF Types, Goto, secVars, ioVars, linkVars
<1>1. CASE MyHandleError(c)
  BY <1>1 DEF MyHandleError, Forget, ServersOwn
<1>2. CASE ConnectAuthSocket(c)
  BY <1>2 DEF ConnectAuthSocket, ServersOwn
<1>3. CASE GenClientContext(c)
  BY <1>3 DEF GenClientContext, ServersOwn
<1>4. CASE ClientMain(c)
  BY <1>4 DEF ClientMain, ServersOwn
<1>5. CASE ConnectionBreaks(c)
  BY <1>5 DEF ConnectionBreaks, ServersOwn
<1>6. CASE SendBytes(c) \/ ReceiveBytes(c)
  <2> Moves(c)
    BY <1>6, IoMoves
  <2>1. pc'[Server] = pc[Server]
    BY DEF Moves
  <2> QED
    BY <1>6, <2>1, IoMoves DEF ServersOwn
<1>7. CASE Goto(c, "decrypt") /\ UNCHANGED <<tokens, calls, fDone, linkVars, creds, ctxts, asClient>>
  BY <1>7 DEF ServersOwn
<1> QED
  BY <1>1, <1>2, <1>3, <1>4, <1>5, <1>6, <1>7
     DEF ClientStep, ClientFails, ClientStreamEnds

(* What the server holds moves with it.                                     *)
LEMMA ServerKept == Types /\ ServerInv /\ [Next]_vars => ServerInv'
<1> SUFFICES ASSUME Types, ServerInv, [Next]_vars PROVE ServerInv'
  OBVIOUS
<1> USE Apart DEF Types, ServerInv, Goto, secVars, ioVars, linkVars, Talking, Agreed
<1>1. ASSUME ServersOwn PROVE ServerInv'
  BY <1>1 DEF ServersOwn
<1>2. CASE \E c \in Clients : ClientStep(c) \/ ClientFails(c) \/ ConnectionBreaks(c)
  BY <1>1, <1>2, ClientsKeepOff
<1>3. CASE SendBytes(Server) \/ ReceiveBytes(Server)
  <2>1. UNCHANGED <<tokens, calls, fDone, creds, ctxts, conn, isOpen, serving, asClient>>
    BY <1>3, IoMoves
  <2>2. Moves(Server)
    BY <1>3, IoMoves
  <2> QED
    BY <2>1, <2>2 DEF Moves
<1>4. CASE cleanup
  BY <1>4 DEF cleanup, Forget, ResetQueue
<1>5. CASE GenServerContext
  BY <1>5 DEF GenServerContext, AfterSend, Sending
<1>6. CASE Listen
  BY <1>6 DEF Listen
<1>7. CASE Accept
  BY <1>7 DEF Accept
<1>8. CASE CloseListen
  BY <1>8 DEF CloseListen, ResetQueue
<1>9. CASE Impersonate
  BY <1>9 DEF Impersonate
<1>10. CASE RevertAndEncrypt
  BY <1>10 DEF RevertAndEncrypt
<1>11. CASE Finish
  BY <1>11 DEF Finish
<1>12. CASE UNCHANGED vars
  BY <1>12 DEF vars
<1> QED
  BY <1>2, <1>3, <1>4, <1>5, <1>6, <1>7, <1>8, <1>9, <1>10, <1>11, <1>12
     DEF Next, ServerStep, ServerFails, ServerStreamEnds

(* With a package that completes no token, a call of a Gen...Context says   *)
(* done when no token is left for its side.                                 *)
LEMMA DoneMeansLast ==
  ASSUME Completes = FALSE, Types, NEW p \in Procs, Peer(p) \in Clients,
         NEW ss \in Statuses(p), Done(p, ss)
  PROVE  TokenOut(p) >= Last(p)
<1>1. TokenOut(p) \in Nat /\ Last(p) \in Nat
  BY Apart DEF Types, TokenOut, TokenIn, Last
<1>2. ~Expects(p)
  BY DEF Statuses, Done, AfterComplete
<1> QED
  BY <1>1, <1>2 DEF Expects

(* No side believes the conversation over before it is.                     *)
LEMMA DoneKept ==
  ASSUME Completes = FALSE
  PROVE  Types /\ ServerInv /\ DoneInv /\ [Next]_vars => DoneInv'
<1> SUFFICES ASSUME Types, ServerInv, DoneInv, [Next]_vars PROVE DoneInv'
  OBVIOUS
<1> USE Apart DEF Types, DoneInv, Goto, secVars, ioVars, linkVars, Talking, Agreed
<1>1. ASSUME NEW p \in Procs, SendBytes(p) \/ ReceiveBytes(p) PROVE DoneInv'
  <2>1. UNCHANGED <<tokens, calls, fDone, serving>>
    BY <1>1, IoMoves
  <2>2. Moves(p)
    BY <1>1, IoMoves
  <2> QED
    BY <2>1, <2>2 DEF Moves
<1>2. ASSUME NEW c \in Clients, MyHandleError(c) PROVE DoneInv'
  BY <1>2 DEF MyHandleError, Forget
<1>3. CASE cleanup
  BY <1>3 DEF cleanup, Forget
<1>4. CASE GenServerContext
  <2>1. PICK ss \in Statuses(Server) :
           /\ fDone' = [fDone EXCEPT ![Server] = Done(Server, ss)]
           /\ \/ pc' = [pc EXCEPT ![Server] = "send"]
              \/ pc' = [pc EXCEPT ![Server] = AfterSend(Server, fDone'[Server])]
    BY <1>4 DEF GenServerContext
  <2>2. calls' = [calls EXCEPT ![Server] = @ + 1] /\ UNCHANGED <<tokens, serving>>
    BY <1>4 DEF GenServerContext
  <2>3. pc[Server] = "gen" /\ serving \in Clients
    BY <1>4 DEF GenServerContext, ServerInv
  <2>4. Done(Server, ss) \in BOOLEAN
    BY DEF Done
  <2>5. Done(Server, ss) => 2 * calls'[Server] >= tokens[serving]
    <3>1. Done(Server, ss) => TokenOut(Server) >= Last(Server)
      BY <2>3, DoneMeansLast DEF Peer
    <3> QED
      BY <2>2, <2>3, <3>1 DEF TokenOut, TokenIn, Last, Peer
  <2>6. pc'[Server] \in Agreed => fDone'[Server]
    BY <2>1, <2>3, <2>4 DEF AfterSend
  <2> QED
    BY <2>1, <2>2, <2>3, <2>4, <2>5, <2>6
<1>5. CASE Listen \/ Accept \/ Impersonate \/ RevertAndEncrypt
  BY <1>5 DEF Listen, Accept, Impersonate, RevertAndEncrypt
<1>6. CASE CloseListen \/ Finish
  BY <1>6 DEF CloseListen, Finish
<1>7. ASSUME NEW c \in Clients, GenClientContext(c) PROVE DoneInv'
  <2>1. PICK ss \in Statuses(c) :
           /\ fDone' = [fDone EXCEPT ![c] = Done(c, ss)]
           /\ \/ pc' = [pc EXCEPT ![c] = "send"]
              \/ pc' = [pc EXCEPT ![c] = AfterSend(c, fDone'[c])]
    BY <1>7 DEF GenClientContext
  <2>2. calls' = [calls EXCEPT ![c] = @ + 1] /\ UNCHANGED <<tokens, serving>>
    BY <1>7 DEF GenClientContext
  <2>3. pc[c] = "auth" \/ pc[c] = "gen"
    BY <1>7 DEF GenClientContext
  <2>4. Done(c, ss) \in BOOLEAN
    BY DEF Done
  <2>5. Done(c, ss) => 2 * calls'[c] >= tokens[c] + 1
    <3>1. Done(c, ss) => TokenOut(c) >= Last(c)
      BY <2>3, DoneMeansLast DEF Peer
    <3> QED
      BY <2>2, <2>3, <3>1 DEF TokenOut, TokenIn, Last, Peer
  <2>6. pc'[c] \in {"message", "decrypt", "exit"} => fDone'[c]
    BY <2>1, <2>3, <2>4 DEF AfterSend
  <2> QED
    BY <2>1, <2>2, <2>3, <2>4, <2>5, <2>6
<1>8. ASSUME NEW c \in Clients, ConnectAuthSocket(c) \/ ClientMain(c) \/ ConnectionBreaks(c)
      PROVE  DoneInv'
  BY <1>8 DEF ConnectAuthSocket, ClientMain, ConnectionBreaks
<1>9. ASSUME NEW c \in Clients, ClientStreamEnds(c) PROVE DoneInv'
  <2>1. CASE MyHandleError(c)
    BY <1>2, <2>1
  <2>2. CASE pc[c] = "message" /\ Goto(c, "decrypt") /\ UNCHANGED <<tokens, calls, fDone, serving>>
    BY <2>2
  <2> QED
    BY <1>9, <2>1, <2>2, Zenon DEF ClientStreamEnds, linkVars
<1>10. CASE UNCHANGED vars
  BY <1>10 DEF vars
<1> QED
  BY <1>1, <1>2, <1>3, <1>4, <1>5, <1>6, <1>7, <1>8, <1>9, <1>10
     DEF Next, ServerStep, ClientStep, ServerFails, ClientFails, ServerStreamEnds

-----------------------------------------------------------------------------
(***************************************************************************)
(* The streams.  What a process still has to read is what it has of the    *)
(* current ReceiveBytes, what is on its way, and what its peer has not yet *)
(* handed to send; cutting a stream anywhere changes none of it.           *)
(***************************************************************************)
Up(c)     == net[c]["up"] \o out[c]
Down(c)   == net[c]["down"] \o (IF serving = c THEN out[Server] ELSE <<>>)
Behind(p) == IF p = Server THEN Up(serving) ELSE Down(p)
Stream(p) == inq[p] \o Behind(p)

Token(t) == Run("size", TokenLen(t), DWORD) \o Body(t)
Messages == {EncryptThis(a) : a \in 1..MaxTrailer}

(* A token may have the message behind it when it was the last.             *)
Tails(c) == {<<>>} \union (IF 2 * calls[c] >= tokens[c] THEN Messages ELSE {})

(* The next token of p is on its way or read, with x behind it.             *)
Awaited(p, x) ==
    \/ pc[p] = "size" /\ Stream(p) = Token(TokenIn(p)) \o x
    \/ /\ pc[p] = "body" /\ cbData[p] = TokenLen(TokenIn(p))
       /\ Stream(p) = Body(TokenIn(p)) \o x
    \/ pc[p] = "gen" /\ inq[p] = Body(TokenIn(p)) /\ Behind(p) = x

Served(c) == serving = c /\ conn[c] = "accepted"
Alive(c)  == pc[c] \notin {"start", "exit", "failed"}

StreamTypes ==
    /\ tokens \in [Clients -> 1..MaxTokens]
    /\ out \in [Procs -> Seq(Units)] /\ inq \in [Procs -> Seq(Units)]
    /\ cbData \in [Procs -> Nat]
    /\ net \in [Clients -> [{"up", "down"} -> Seq(Units)]]
    /\ conn \in [Clients -> {"none", "queued", "accepted", "reset"}]
    /\ isOpen \in [Clients -> SUBSET Procs]
    /\ DOMAIN plain = Clients
    /\ \A c \in Clients : pc[c] \in {"start", "auth", "gen", "decrypt", "exit", "failed",
                                     "send", "size", "body", "message"}

(* Each process by itself: it counts the tokens, and its buffers are empty  *)
(* where it does not use them.                                              *)
BuffersOf(p) ==
    /\ pc[p] \in {"send", "sendData"} <=> out[p] # <<>>
    /\ pc[p] \notin {"size", "body", "message", "gen", "decrypt", "exit"} => inq[p] = <<>>
    /\ pc[p] = "gen" => inq[p] = Body(TokenIn(p))

ServerCounts ==
    /\ pc[Server] \in Talking => (fDone[Server] <=> 2 * calls[Server] >= tokens[serving])
    /\ pc[Server] \in Agreed => fDone[Server]
    /\ pc[Server] \in {"size", "body", "gen"} => ~fDone[Server]

ClientCounts(c) ==
    /\ fDone[c] <=> 2 * calls[c] > tokens[c]
    /\ pc[c] \in {"start", "auth", "failed"} => calls[c] = 0
    /\ pc[c] \in {"size", "body", "gen", "send"} => calls[c] > 0
    /\ pc[c] \in {"message", "decrypt", "exit"} => fDone[c]
    /\ pc[c] \in {"size", "body", "gen"} => ~fDone[c]
    /\ pc[c] = "decrypt" => inq[c] \in Messages
    /\ plain[c] \in {None, Run("plain", 1, DataLen), Run("data", 1, DataLen)}

(* The connection of c and who holds its ends.                              *)
LinkOK(c) ==
    /\ pc[c] = "start" => conn[c] = "none"
    /\ conn[c] = "none" => pc[c] \in {"start", "failed"} /\ net[c]["up"] = <<>>
    /\ conn[c] = "queued" => Server \in isOpen[c] /\ serving # c
    /\ serving = c => conn[c] \in {"accepted", "reset"}
    /\ Served(c) => Server \in isOpen[c]
    /\ c \in isOpen[c] <=> Alive(c)
    /\ conn[c] # "accepted" => net[c]["down"] = <<>>
    /\ serving = c /\ conn[c] = "reset" => net[c]["up"] = <<>>

(* What is on its way to the client c.                                      *)
DownOK(c) == conn[c] # "reset" =>
    /\ pc[c] \in {"auth", "send", "start"} => Stream(c) = <<>>
    /\ pc[c] = "size" => Stream(c) = <<>> \/ \E x \in Tails(c) : Awaited(c, x)
    /\ pc[c] \in {"body", "gen"} => \E x \in Tails(c) : Awaited(c, x)
    /\ pc[c] = "message" => Stream(c) \in Tails(c)

(* What is on its way from it to the server.                                *)
UpOK(c) ==
    /\ conn[c] = "queued" \/ (Served(c) /\ pc[Server] = "closeListen")
          => Up(c) \in {<<>>, Token(1)}
    /\ Served(c) =>
          /\ pc[Server] = "size" => (Up(c) = <<>> /\ inq[Server] = <<>>) \/ Awaited(Server, <<>>)
          /\ pc[Server] \in {"body", "gen"} => Awaited(Server, <<>>)
          /\ pc[Server] \in Agreed \union {"send"} => Up(c) = <<>>

(* Whose turn it is, as long as both are there.  The server of a queued     *)
(* connection is one that has not begun.                                    *)
CallsOf(c) == IF serving = c THEN calls[Server] ELSE 0
PcOf(c)    == IF serving = c THEN pc[Server] ELSE "closeListen"

Begins(c) ==
    /\ pc[c] = "auth" /\ CallsOf(c) = 0
    /\ PcOf(c) \in {"closeListen", "size"} /\ Up(c) = <<>>
    /\ PcOf(c) = "size" => inq[Server] = <<>>

Asked(c) ==
    /\ pc[c] \in {"send", "size", "message"}
    /\ calls[c] = CallsOf(c) + 1
    /\ PcOf(c) \in {"closeListen", "size", "body", "gen"}
    /\ Stream(c) = <<>>
    /\ PcOf(c) = "closeListen" => Up(c) = Token(1)
    /\ PcOf(c) = "size" => Awaited(Server, <<>>)

Answered(c) ==
    /\ calls[c] = CallsOf(c)
    /\ PcOf(c) \in Agreed \union {"send", "size"}
    /\ PcOf(c) = "size" => Up(c) = <<>> /\ inq[Server] = <<>>
    /\ \E x \in IF PcOf(c) \in {"sendData", "finish"} THEN Tails(c) ELSE {<<>>} : Awaited(c, x)

Finished(c) ==
    /\ pc[c] = "message" /\ PcOf(c) \in Agreed
    /\ PcOf(c) \notin {"sendData", "finish"} => Stream(c) = <<>>

TurnOK(c) ==
    (conn[c] = "queued" \/ Served(c)) /\ Alive(c)
        => Begins(c) \/ Asked(c) \/ Answered(c) \/ Finished(c)

OfClient(c) == BuffersOf(c) /\ ClientCounts(c) /\ LinkOK(c) /\ DownOK(c) /\ UpOK(c) /\ TurnOK(c)
OfServer    == BuffersOf(Server) /\ ServerCounts
Base        == Types /\ ServerInv /\ StreamTypes
StreamInv   == Base /\ OfServer /\ \A c \in Clients : OfClient(c)

(* Joining and cutting sequences.                                           *)
LEMMA Assoc ==
  ASSUME NEW s \in Seq(Units), NEW t \in Seq(Units), NEW u \in Seq(Units)
  PROVE  (s \o t) \o u = s \o (t \o u)
OBVIOUS

(* Moving the first n units of b behind a changes nothing of a \o b.        *)
LEMMA CutMoves ==
  ASSUME NEW a \in Seq(Units), NEW b \in Seq(Units), NEW n \in 1..Len(b)
  PROVE  /\ SubSeq(b, 1, n) \in Seq(Units) /\ SubSeq(b, n + 1, Len(b)) \in Seq(Units)
         /\ Len(SubSeq(b, 1, n)) = n
         /\ Len(SubSeq(b, n + 1, Len(b))) = Len(b) - n
         /\ Len(b) \in Nat /\ (SubSeq(b, n + 1, Len(b)) = <<>> <=> n = Len(b))
         /\ (a \o SubSeq(b, 1, n)) \o SubSeq(b, n + 1, Len(b)) = a \o b
<1> DEFINE u == SubSeq(b, 1, n)
           v == SubSeq(b, n + 1, Len(b))
<1>1. u \in Seq(Units) /\ v \in Seq(Units) /\ Len(u) = n /\ Len(v) = Len(b) - n
  OBVIOUS
<1>2. u \o v = b
  BY ConcatAdjacentSubSeq, SubSeqFull
<1> HIDE DEF u, v
<1>4. Len(b) \in Nat /\ (v = <<>> <=> n = Len(b))
  BY <1>1
<1>3. (a \o u) \o v = a \o (u \o v)
  BY <1>1
<1> QED
  BY <1>1, <1>2, <1>3, <1>4 DEF u, v

(* Two joinings with a front of the same length have the same parts.        *)
LEMMA FrontIs ==
  ASSUME NEW a \in Seq(Units), NEW b \in Seq(Units), NEW f \in Seq(Units), NEW g \in Seq(Units),
         a \o b = f \o g, Len(a) = Len(f)
  PROVE  a = f /\ b = g
<1>1. \A i \in 1..Len(a) : (a \o b)[i] = a[i] /\ (f \o g)[i] = f[i]
  OBVIOUS
<1>2. a = f
  BY <1>1, SeqEqual
<1> QED
  BY <1>2, ConcatSimplifications

(* What joining two sequences gives.                                        *)
LEMMA Joined ==
  ASSUME NEW a \in Seq(Units), NEW b \in Seq(Units)
  PROVE  /\ a \o b \in Seq(Units) /\ Len(a \o b) = Len(a) + Len(b)
         /\ a \o b = <<>> <=> a = <<>> /\ b = <<>>
         /\ a \o <<>> = a /\ <<>> \o a = a
BY ConcatProperties, ConcatEmptySeq, ConcatEqualIffEmpty

(* The frames, their lengths and what the first unit says.                  *)
LEMMA TokenFrame ==
  ASSUME NEW t \in Nat
  PROVE  /\ TokenLen(t) \in 1..2
         /\ Body(t) \in Seq(Units) /\ Len(Body(t)) = TokenLen(t)
         /\ Token(t) \in Seq(Units) /\ Token(t) # <<>>
         /\ Run("size", TokenLen(t), DWORD) \in Seq(Units)
         /\ Len(Run("size", TokenLen(t), DWORD)) = DWORD
         /\ Run("size", TokenLen(t), DWORD)[1].val = TokenLen(t)
<1>1. TokenLen(t) \in 1..2
  BY DEF TokenLen
<1>2. \A v \in Nat, n \in Nat : Run("size", v, n) \in Seq(Units) /\ Run("token", v, n) \in Seq(Units)
                                 /\ Len(Run("size", v, n)) = n /\ Len(Run("token", v, n)) = n
  BY DEF Run, Unit, Units
<1>3. Run("size", TokenLen(t), DWORD)[1].val = TokenLen(t)
  BY <1>1 DEF Run, Unit, DWORD
<1>4. Body(t) \in Seq(Units) /\ Len(Body(t)) = TokenLen(t)
  BY <1>1, <1>2 DEF Body
<1>5. Run("size", TokenLen(t), DWORD) \in Seq(Units) /\ Len(Run("size", TokenLen(t), DWORD)) = DWORD
  BY <1>1 DEF Run, Unit, Units, DWORD
<1>6. Token(t) \in Seq(Units) /\ Len(Token(t)) = DWORD + TokenLen(t)
  BY <1>4, <1>5, Joined DEF Token
<1>7. Token(t) # <<>>
  BY <1>1, <1>6 DEF DWORD
<1> QED
  BY <1>1, <1>3, <1>4, <1>5, <1>6, <1>7

(* The message fits main's buffer, and DecryptThis finds the data in it.    *)
LEMMA MessageFrame ==
  ASSUME NEW a \in 1..MaxTrailer
  PROVE  /\ EncryptThis(a) \in Seq(Units) /\ EncryptThis(a) # <<>>
         /\ Len(EncryptThis(a)) < BIG_BUFF
         /\ DecryptThis(EncryptThis(a)) = Run("data", 1, DataLen)
<1> DEFINE s == Run("size", a, DWORD)
           t == Run("trailer", a, a)
           d == Run("data", 1, DataLen)
<1>0. MaxTrailer \in Nat /\ a \in Nat
  BY SspiAssumption
<1>1. /\ s \in Seq(Units) /\ t \in Seq(Units) /\ d \in Seq(Units)
      /\ Len(s) = 2 /\ Len(t) = a /\ Len(d) = 2
  BY <1>0 DEF Run, Unit, Units, DWORD, DataLen
<1>2. s[1].val = a
  BY DEF Run, Unit, DWORD
<1>3. EncryptThis(a) = (s \o t) \o d
  BY DEF EncryptThis
<1> HIDE DEF s, t, d
<1>4. s \o t \in Seq(Units) /\ Len(s \o t) = 2 + a
  <2>1. s \o t \in Seq(Units) /\ Len(s \o t) = Len(s) + Len(t)
    BY <1>1, ConcatProperties
  <2> QED
    BY <1>0, <1>1, <2>1
<1>5. EncryptThis(a) \in Seq(Units) /\ Len(EncryptThis(a)) = a + 4
  BY <1>0, <1>1, <1>3, <1>4, Joined
<1>6. EncryptThis(a)[1] = s[1]
  BY <1>0, <1>1, <1>3, <1>4
<1>7. SubSeq((s \o t) \o d, a + 3, a + 4) = d
  BY <1>0, <1>1, <1>4
<1>8. DecryptThis(EncryptThis(a)) = d
  <2> DEFINE m == EncryptThis(a)
  <2>1. m[1].val = a /\ Len(m) = a + 4 /\ m = (s \o t) \o d
    BY <1>2, <1>3, <1>5, <1>6
  <2>2. DecryptThis(m) = SubSeq(m, 2 + m[1].val + 1, Len(m))
    BY DEF DecryptThis, DWORD
  <2> HIDE DEF m
  <2>3. 2 + m[1].val + 1 = a + 3
    BY <1>0, <2>1
  <2>4. DecryptThis(m) = d
    BY <1>7, <2>1, <2>2, <2>3, Zenon
  <2> QED
    BY <2>4 DEF m
<1> QED
  BY <1>0, <1>5, <1>8 DEF BIG_BUFF, DWORD, DataLen, d

(* What sending and receiving do to the buffers.                            *)
LEMMA PeerIsClient ==
  ASSUME Types, ServerInv, NEW p \in Procs,
         pc[p] \in {"send", "sendData", "size", "body", "message", "gen"}
  PROVE  /\ Peer(p) \in Clients /\ (p # Server => Peer(p) = p)
         /\ p = Server => Peer(p) = serving
BY Apart DEF Types, ServerInv, Talking, Peer

(* Sending and receiving lead a client only where a client may be.          *)
LEMMA ClientPlaces ==
  ASSUME Types, StreamTypes, NEW p \in Procs, SendBytes(p) \/ ReceiveBytes(p), NEW c \in Clients
  PROVE  pc'[c] \in {"start", "auth", "gen", "decrypt", "exit", "failed",
                     "send", "size", "body", "message"}
<1>1. Moves(p)
  BY IoMoves
<1>2. pc[c] \in {"start", "auth", "gen", "decrypt", "exit", "failed",
                 "send", "size", "body", "message"}
  BY DEF StreamTypes
<1>3. ASSUME NEW l, Goto(p, l) PROVE pc'[c] = IF c = p THEN l ELSE pc[c]
  BY <1>3, Apart DEF Goto, Types
<1>4. c = p => p # Server
  BY Apart
<1> QED
  BY <1>1, <1>2, <1>3, <1>4 DEF Moves

(* SendBytes keeps the types of the buffers.                                *)
LEMMA TypesSend ==
  ASSUME Base, NEW p \in Procs, SendBytes(p)
  PROVE  StreamTypes'
<1> USE Apart DEF Base, StreamTypes
<1>1. Peer(p) \in Clients /\ pc[p] \in {"send", "sendData"} /\ Outward(p) \in {"up", "down"}
      /\ (p # Server => Peer(p) = p)
  BY PeerIsClient DEF SendBytes, Sending, Outward
<1>2. PICK n \in 1..Len(out[p]) :
        /\ out' = [out EXCEPT ![p] = SubSeq(@, n + 1, Len(@))]
        /\ net' = IF PeerHere(p)
                  THEN [net EXCEPT ![Peer(p)][Outward(p)] = @ \o SubSeq(out[p], 1, n)]
                  ELSE net
  BY DEF SendBytes
<1>3. out[p] \in Seq(Units) /\ net[Peer(p)][Outward(p)] \in Seq(Units)
  BY <1>1
<1>4. SubSeq(out[p], 1, n) \in Seq(Units) /\ SubSeq(out[p], n + 1, Len(out[p])) \in Seq(Units)
  BY <1>2, <1>3, CutMoves
<1>5. net[Peer(p)][Outward(p)] \o SubSeq(out[p], 1, n) \in Seq(Units)
  BY <1>3, <1>4, Joined
<1>6. out' \in [Procs -> Seq(Units)]
  BY <1>2, <1>4
<1>7. net' \in [Clients -> [{"up", "down"} -> Seq(Units)]]
  BY <1>1, <1>2, <1>5
<1>8. inq' = [inq EXCEPT ![p] = <<>>] /\ UNCHANGED <<tokens, cbData, conn, isOpen, plain>>
  BY DEF SendBytes, linkVars
<1>9. ASSUME NEW c \in Clients
      PROVE  pc'[c] \in {"start", "auth", "gen", "decrypt", "exit", "failed",
                         "send", "size", "body", "message"}
  BY ClientPlaces
<1>10. /\ tokens' \in [Clients -> 1..MaxTokens] /\ cbData' \in [Procs -> Nat]
       /\ conn' \in [Clients -> {"none", "queued", "accepted", "reset"}]
       /\ isOpen' \in [Clients -> SUBSET Procs] /\ DOMAIN plain' = Clients
  BY <1>8
<1>11. inq' \in [Procs -> Seq(Units)]
  BY <1>8
<1> QED
  BY <1>6, <1>7, <1>9, <1>10, <1>11

(* What one recv does: Received, written out for each kind of buffer.       *)
LEMMA ReceiveEffect ==
  ASSUME NEW p \in Procs, ReceiveBytes(p)
  PROVE  /\ pc[p] \in {"size", "body", "message"}
         /\ UNCHANGED <<tokens, out, secVars, linkVars, asClient, plain>>
         /\ \E n \in 1..Len(net[Peer(p)][Inward(p)]) :
              LET buf == inq[p] \o SubSeq(net[Peer(p)][Inward(p)], 1, n)
              IN  /\ Len(inq[p]) + n <= Wanted(p)
                  /\ net' = [net EXCEPT ![Peer(p)][Inward(p)] = SubSeq(@, n + 1, Len(@))]
                  /\ \/ /\ Len(buf) # Wanted(p)
                        /\ inq' = [inq EXCEPT ![p] = buf] /\ UNCHANGED <<pc, cbData>>
                     \/ /\ Len(buf) = Wanted(p) /\ pc[p] = "size"
                        /\ pc' = [pc EXCEPT ![p] = IF buf[1].val = 0 THEN "gen" ELSE "body"]
                        /\ cbData' = [cbData EXCEPT ![p] = buf[1].val]
                        /\ inq' = [inq EXCEPT ![p] = <<>>]
                     \/ /\ Len(buf) = Wanted(p) /\ pc[p] = "body"
                        /\ pc' = [pc EXCEPT ![p] = "gen"]
                        /\ inq' = [inq EXCEPT ![p] = buf] /\ cbData' = cbData
                     \/ /\ Len(buf) = Wanted(p) /\ pc[p] = "message"
                        /\ pc' = [pc EXCEPT ![p] = "decrypt"]
                        /\ inq' = [inq EXCEPT ![p] = buf] /\ cbData' = cbData
<1>1. pc[p] \in {"size", "body", "message"}
  BY DEF ReceiveBytes, Receiving
<1> DEFINE way == net[Peer(p)][Inward(p)]
           Buf(n) == inq[p] \o SubSeq(way, 1, n)
<1>2. PICK n \in 1..Len(way) :
        /\ Len(inq[p]) + n <= Wanted(p)
        /\ net' = [net EXCEPT ![Peer(p)][Inward(p)] = SubSeq(@, n + 1, Len(@))]
        /\ IF Len(Buf(n)) = Wanted(p) THEN Received(p, Buf(n))
           ELSE inq' = [inq EXCEPT ![p] = Buf(n)] /\ UNCHANGED <<pc, cbData>>
  BY DEF ReceiveBytes
<1>3. UNCHANGED <<tokens, out, secVars, linkVars, asClient, plain>>
  BY DEF ReceiveBytes
<1>4. CASE Len(Buf(n)) # Wanted(p)
  BY <1>1, <1>2, <1>3, <1>4
<1>5. CASE Len(Buf(n)) = Wanted(p)
  <2>0. Received(p, Buf(n))
    BY <1>2, <1>5
  <2> HIDE DEF Buf
  <2>1. CASE pc[p] = "size"
    <3>1. /\ pc' = [pc EXCEPT ![p] = IF Buf(n)[1].val = 0 THEN "gen" ELSE "body"]
          /\ cbData' = [cbData EXCEPT ![p] = Buf(n)[1].val]
          /\ inq' = [inq EXCEPT ![p] = <<>>]
      BY <2>0, <2>1 DEF Received, Goto
    <3> QED
      BY <1>1, <1>2, <1>3, <1>5, <2>1, <3>1 DEF Buf
  <2>2. CASE pc[p] = "body"
    <3>1. /\ pc' = [pc EXCEPT ![p] = "gen"]
          /\ inq' = [inq EXCEPT ![p] = Buf(n)] /\ cbData' = cbData
      BY <2>0, <2>2 DEF Received, Goto
    <3> QED
      BY <1>1, <1>2, <1>3, <1>5, <2>2, <3>1 DEF Buf
  <2>3. CASE pc[p] = "message"
    <3>1. /\ pc' = [pc EXCEPT ![p] = "decrypt"]
          /\ inq' = [inq EXCEPT ![p] = Buf(n)] /\ cbData' = cbData
      BY <2>0, <2>3 DEF Received, Goto
    <3> QED
      BY <1>1, <1>2, <1>3, <1>5, <2>3, <3>1 DEF Buf
  <2> QED
    BY <1>1, <2>1, <2>2, <2>3
<1> QED
  BY <1>4, <1>5

(* ReceiveBytes keeps the types of the buffers.                             *)
LEMMA TypesReceive ==
  ASSUME Base, NEW p \in Procs, ReceiveBytes(p)
  PROVE  StreamTypes'
<1> USE Apart DEF Base, StreamTypes
<1>1. Peer(p) \in Clients /\ pc[p] \in {"size", "body", "message"} /\ Inward(p) \in {"up", "down"}
      /\ (p # Server => Peer(p) = p)
  BY PeerIsClient DEF ReceiveBytes, Receiving, Inward
<1> DEFINE way == net[Peer(p)][Inward(p)]
           Buf(n) == inq[p] \o SubSeq(way, 1, n)
<1>2. PICK n \in 1..Len(way) :
        /\ net' = [net EXCEPT ![Peer(p)][Inward(p)] = SubSeq(@, n + 1, Len(@))]
        /\ \/ inq' = [inq EXCEPT ![p] = Buf(n)] /\ cbData' = cbData
           \/ inq' = [inq EXCEPT ![p] = <<>>] /\ cbData' = [cbData EXCEPT ![p] = Buf(n)[1].val]
  BY ReceiveEffect
<1>3. way \in Seq(Units) /\ inq[p] \in Seq(Units)
  BY <1>1
<1>4. SubSeq(way, 1, n) \in Seq(Units) /\ SubSeq(way, n + 1, Len(way)) \in Seq(Units)
      /\ Len(SubSeq(way, 1, n)) = n
  <2> HIDE DEF way
  <2> QED
    BY <1>2, <1>3, CutMoves
<1>5. Buf(n) \in Seq(Units) /\ Len(Buf(n)) = Len(inq[p]) + n
  BY <1>3, <1>4, Joined
<1>6. Buf(n)[1].val \in Nat
  <2>1. Buf(n)[1] \in Units
    BY <1>3, <1>5
  <2> QED
    BY <2>1 DEF Units
<1>7. net' \in [Clients -> [{"up", "down"} -> Seq(Units)]]
  BY <1>1, <1>2, <1>4
<1> HIDE DEF Buf, way
<1>8. inq' \in [Procs -> Seq(Units)] /\ cbData' \in [Procs -> Nat]
  <2> DEFINE b == Buf(n)
  <2>1. b \in Seq(Units) /\ b[1].val \in Nat
    BY <1>5, <1>6
  <2>2. \/ inq' = [inq EXCEPT ![p] = b] /\ cbData' = cbData
        \/ inq' = [inq EXCEPT ![p] = <<>>] /\ cbData' = [cbData EXCEPT ![p] = b[1].val]
    BY <1>2
  <2> DEFINE v == b[1].val
  <2>0. inq' = [inq EXCEPT ![p] = b] \/ inq' = [inq EXCEPT ![p] = <<>>]
    BY <2>2
  <2>3. v \in Nat /\ (cbData' = cbData \/ cbData' = [cbData EXCEPT ![p] = v])
    BY <2>1, <2>2
  <2> HIDE DEF b, v
  <2>4. inq' \in [Procs -> Seq(Units)]
    <3>1. CASE inq' = [inq EXCEPT ![p] = b]
      BY <2>1, <3>1
    <3>2. CASE inq' = [inq EXCEPT ![p] = <<>>]
      BY <3>2
    <3> QED
      BY <2>0, <3>1, <3>2
  <2>5. cbData' \in [Procs -> Nat]
    BY <2>3
  <2> QED
    BY <2>4, <2>5
<1>9. UNCHANGED <<tokens, out, conn, isOpen, plain>>
  BY DEF ReceiveBytes, linkVars
<1>10. ASSUME NEW c \in Clients
       PROVE  pc'[c] \in {"start", "auth", "gen", "decrypt", "exit", "failed",
                          "send", "size", "body", "message"}
  BY ClientPlaces
<1>11. /\ tokens' \in [Clients -> 1..MaxTokens] /\ out' \in [Procs -> Seq(Units)]
       /\ conn' \in [Clients -> {"none", "queued", "accepted", "reset"}]
       /\ isOpen' \in [Clients -> SUBSET Procs] /\ DOMAIN plain' = Clients
  BY <1>9
<1> QED
  BY <1>7, <1>8, <1>10, <1>11

(* SendMsg hands a frame to send, or nothing for an empty token.            *)
LEMMA SendMsgType ==
  ASSUME NEW t \in Nat, NEW last \in Nat
  PROVE  /\ SendMsg(t, last) = IF t > last THEN <<>> ELSE Token(t)
         /\ SendMsg(t, last) \in Seq(Units)
<1>1. SendMsg(t, last) = IF t > last THEN <<>> ELSE Token(t)
  BY DEF SendMsg, Token
<1> QED
  BY <1>1, TokenFrame

(* Every step keeps the types of the buffers.                               *)
LEMMA TypesStep == Base /\ [Next]_vars => StreamTypes'
<1> SUFFICES ASSUME Base, [Next]_vars PROVE StreamTypes'
  OBVIOUS
<1> USE Apart DEF Base, StreamTypes, Goto, secVars, ioVars, linkVars
<1>1. ASSUME NEW p \in Procs, SendBytes(p) \/ ReceiveBytes(p) PROVE StreamTypes'
  BY <1>1, TypesSend, TypesReceive
<1>2. ASSUME NEW c \in Clients, MyHandleError(c) PROVE StreamTypes'
  BY <1>2 DEF MyHandleError, Forget, Types
<1>3. CASE cleanup
  BY <1>3 DEF cleanup, Forget, ResetQueue, Types
<1>4. CASE GenServerContext
  <2>1. TokenOut(Server) \in Nat /\ Last(Server) \in Nat
    <3>1. pc[Server] = "gen"
      BY <1>4 DEF GenServerContext
    <3>2. Peer(Server) \in Clients
      BY <3>1, PeerIsClient
    <3> QED
      BY <3>2 DEF TokenOut, TokenIn, Last, Types
  <2>2. SendMsg(TokenOut(Server), Last(Server)) \in Seq(Units)
    <3> DEFINE t == TokenOut(Server)
               l == Last(Server)
    <3>1. t \in Nat /\ l \in Nat
      BY <2>1
    <3> HIDE DEF t, l
    <3>2. SendMsg(t, l) \in Seq(Units)
      BY <3>1, SendMsgType
    <3> QED
      BY <3>2 DEF t, l
  <2>3. out' \in [Procs -> Seq(Units)] /\ inq' \in [Procs -> Seq(Units)]
    BY <1>4, <2>2 DEF GenServerContext
  <2>4. \A c \in Clients : pc'[c] = pc[c]
    BY <1>4 DEF GenServerContext, Types
  <2> QED
    BY <1>4, <2>3, <2>4 DEF GenServerContext
<1>5. ASSUME NEW c \in Clients, GenClientContext(c) PROVE StreamTypes'
  <2>1. TokenOut(c) \in Nat /\ Last(c) \in Nat
    BY DEF TokenOut, TokenIn, Last, Peer, Types
  <2>2. PICK ss \in Statuses(c) :
           /\ out' = [out EXCEPT ![c] = SendMsg(TokenOut(c), Last(c))]
           /\ \/ pc' = [pc EXCEPT ![c] = "send"]
              \/ pc' = [pc EXCEPT ![c] = AfterSend(c, fDone'[c])]
    BY <1>5 DEF GenClientContext
  <2>3. SendMsg(TokenOut(c), Last(c)) \in Seq(Units)
    <3> DEFINE t == TokenOut(c)
               l == Last(c)
    <3>1. t \in Nat /\ l \in Nat
      BY <2>1
    <3> HIDE DEF t, l
    <3>2. SendMsg(t, l) \in Seq(Units)
      BY <3>1, SendMsgType
    <3> QED
      BY <3>2 DEF t, l
  <2>4. out' \in [Procs -> Seq(Units)] /\ inq' \in [Procs -> Seq(Units)]
    BY <1>5, <2>2, <2>3 DEF GenClientContext
  <2>5. pc[c] # "sendData" /\ fDone'[c] \in BOOLEAN
    BY <1>5, TypesKept DEF GenClientContext, Types
  <2>6. AfterSend(c, fDone'[c]) \in {"size", "message"}
    BY <2>5 DEF AfterSend
  <2>7. \A x \in Clients : pc'[x] \in {"start", "auth", "gen", "decrypt", "exit", "failed",
                                       "send", "size", "body", "message"}
    BY <2>2, <2>6 DEF Types
  <2> QED
    BY <1>5, <2>4, <2>7 DEF GenClientContext
<1>6. CASE RevertAndEncrypt
  <2>1. out' \in [Procs -> Seq(Units)]
    <3>1. CASE \E a \in 1..MaxTrailer : out' = [out EXCEPT ![Server] = EncryptThis(a)]
      BY <3>1, MessageFrame
    <3>2. CASE out' = [out EXCEPT ![Server] = <<>>]
      BY <3>2
    <3> QED
      BY <1>6, <3>1, <3>2 DEF RevertAndEncrypt
  <2>2. \A c \in Clients : pc'[c] = pc[c]
    BY <1>6 DEF RevertAndEncrypt, Types
  <2> QED
    BY <1>6, <2>1, <2>2 DEF RevertAndEncrypt
<1>7. CASE Listen \/ Accept \/ Impersonate
  <2>1. CASE Listen
    BY <2>1 DEF Listen, Types
  <2>2. CASE Accept
    BY <2>2 DEF Accept, Types
  <2>3. CASE Impersonate
    BY <2>3 DEF Impersonate, Types
  <2> QED
    BY <1>7, <2>1, <2>2, <2>3
<1>8. CASE CloseListen
  BY <1>8 DEF CloseListen, ResetQueue, Types
<1>9. CASE Finish
  BY <1>9 DEF Finish, Types, ServerInv, Talking
<1>10. ASSUME NEW c \in Clients, ConnectAuthSocket(c) \/ ClientMain(c) \/ ConnectionBreaks(c)
       PROVE  StreamTypes'
  <2>1. CASE ConnectAuthSocket(c)
    BY <2>1 DEF ConnectAuthSocket, Types
  <2>2. CASE ClientMain(c)
    BY <2>2 DEF ClientMain, Types
  <2>3. CASE ConnectionBreaks(c)
    BY <2>3 DEF ConnectionBreaks, Types
  <2> QED
    BY <1>10, <2>1, <2>2, <2>3
<1>11. ASSUME NEW c \in Clients, ClientStreamEnds(c) PROVE StreamTypes'
  <2>1. CASE MyHandleError(c)
    BY <1>2, <2>1
  <2>2. CASE Goto(c, "decrypt") /\ UNCHANGED <<tokens, out, inq, cbData, net, conn, isOpen, plain>>
    BY <2>2 DEF Types
  <2>3. plain' = plain
    BY <1>11 DEF ClientStreamEnds, MyHandleError
  <2> QED
    BY <1>11, <2>1, <2>2, <2>3, Zenon DEF ClientStreamEnds, linkVars, ioVars
<1>12. CASE UNCHANGED vars
  BY <1>12 DEF vars
<1> QED
  BY <1>1, <1>2, <1>3, <1>4, <1>5, <1>6, <1>7, <1>8, <1>9, <1>10, <1>11, <1>12
     DEF Next, ServerStep, ClientStep, ServerFails, ClientFails, ServerStreamEnds

(* A step that leaves c and, if it is being served, the server where they   *)
(* are.                                                                     *)
Own(c) ==
    /\ pc'[c] = pc[c] /\ calls'[c] = calls[c] /\ fDone'[c] = fDone[c]
    /\ out'[c] = out[c] /\ inq'[c] = inq[c] /\ cbData'[c] = cbData[c]
    /\ net'[c] = net[c] /\ conn'[c] = conn[c] /\ isOpen'[c] = isOpen[c]
    /\ plain'[c] = plain[c] /\ tokens'[c] = tokens[c]
ServerSame ==
    /\ pc'[Server] = pc[Server] /\ calls'[Server] = calls[Server]
    /\ fDone'[Server] = fDone[Server] /\ out'[Server] = out[Server]
    /\ inq'[Server] = inq[Server] /\ cbData'[Server] = cbData[Server]

(* With the same buffers a client awaits what it awaited.                   *)
LEMMA SameStream ==
  ASSUME NEW c \in Clients, pc'[c] = pc[c], calls'[c] = calls[c], inq'[c] = inq[c],
         cbData'[c] = cbData[c], Down(c)' = Down(c), tokens'[c] = tokens[c]
  PROVE  /\ Stream(c)' = Stream(c) /\ Tails(c)' = Tails(c)
         /\ \A x : Awaited(c, x)' <=> Awaited(c, x)
         /\ DownOK(c) /\ conn'[c] = conn[c] => DownOK(c)'
<1>1. c # Server
  BY Apart
<1>2. Stream(c)' = Stream(c) /\ Behind(c)' = Behind(c)
  BY <1>1 DEF Stream, Behind
<1>3. Tails(c)' = Tails(c)
  BY DEF Tails
<1>4. TokenIn(c)' = TokenIn(c)
  BY <1>1 DEF TokenIn
<1>5. ASSUME NEW x PROVE Awaited(c, x)' <=> Awaited(c, x)
  BY <1>2, <1>4 DEF Awaited
<1>6. DownOK(c) /\ conn'[c] = conn[c] => DownOK(c)'
  BY <1>2, <1>3, <1>5 DEF DownOK
<1> QED
  BY <1>2, <1>3, <1>5, <1>6

(* And so does the server.                                                  *)
LEMMA SameServerStream ==
  ASSUME ServerSame, serving' = serving, Up(serving)' = Up(serving)
  PROVE  /\ Stream(Server)' = Stream(Server)
         /\ Awaited(Server, <<>>)' <=> Awaited(Server, <<>>)
<1>1. Stream(Server)' = Stream(Server) /\ Behind(Server)' = Behind(Server)
  BY DEF Stream, Behind, ServerSame
<1>2. TokenIn(Server)' = TokenIn(Server)
  BY DEF TokenIn, ServerSame
<1> QED
  BY <1>1, <1>2 DEF Awaited, ServerSame

(* Such a step keeps everything said of c.                                  *)
LEMMA Untouched ==
  ASSUME NEW c \in Clients, OfClient(c), Own(c),
         serving' = c <=> serving = c, serving = c => ServerSame
  PROVE  OfClient(c)'
<1>1. c # Server
  BY Apart
<1>2. Up(c)' = Up(c) /\ Down(c)' = Down(c)
  BY DEF Up, Down, Own, ServerSame
<1>3. /\ Stream(c)' = Stream(c) /\ Tails(c)' = Tails(c) /\ DownOK(c)'
      /\ \A x : Awaited(c, x)' <=> Awaited(c, x)
  BY <1>2, SameStream DEF Own, OfClient
<1>4. serving = c => serving' = serving /\ Up(serving)' = Up(serving)
  BY <1>2
<1>5. serving = c => (Awaited(Server, <<>>)' <=> Awaited(Server, <<>>))
  BY <1>4, SameServerStream
<1>6. TokenIn(c)' = TokenIn(c)
  BY <1>1 DEF TokenIn, Own
<1>7. BuffersOf(c)' /\ ClientCounts(c)'
  BY <1>6 DEF OfClient, BuffersOf, ClientCounts, Own
<1>8. LinkOK(c)' /\ (Served(c)' <=> Served(c)) /\ (Alive(c)' <=> Alive(c))
  BY DEF OfClient, LinkOK, Own, Served, Alive
<1>9. UpOK(c)'
  BY <1>2, <1>5, <1>8 DEF OfClient, UpOK, Own, ServerSame, Served
<1>10. TurnOK(c)'
  <2>1. CallsOf(c)' = CallsOf(c) /\ PcOf(c)' = PcOf(c)
    BY DEF CallsOf, PcOf, Own, ServerSame
  <2>2. Begins(c) => Begins(c)'
    BY <1>2, <2>1 DEF Begins, Own, ServerSame, PcOf
  <2>3. Asked(c) => Asked(c)'
    BY <1>2, <1>3, <1>5, <2>1 DEF Asked, Own, PcOf
  <2>4. Answered(c) => Answered(c)'
    BY <1>2, <1>3, <2>1 DEF Answered, Own, ServerSame, PcOf
  <2>5. Finished(c) => Finished(c)'
    BY <1>3, <2>1 DEF Finished, Own
  <2> QED
    BY <1>8, <2>2, <2>3, <2>4, <2>5 DEF OfClient, TurnOK, Own
<1> QED
  BY <1>3, <1>7, <1>8, <1>9, <1>10 DEF OfClient

(* What one send does: AfterSend, written out.                              *)
LEMMA SendEffect ==
  ASSUME Types, NEW p \in Procs, SendBytes(p)
  PROVE  /\ pc[p] \in {"send", "sendData"}
         /\ inq' = [inq EXCEPT ![p] = <<>>]
         /\ UNCHANGED <<tokens, cbData, secVars, linkVars, asClient, plain>>
         /\ \E n \in 1..Len(out[p]) :
              /\ out' = [out EXCEPT ![p] = SubSeq(@, n + 1, Len(@))]
              /\ net' = IF PeerHere(p)
                        THEN [net EXCEPT ![Peer(p)][Outward(p)] = @ \o SubSeq(out[p], 1, n)]
                        ELSE net
              /\ \/ n < Len(out[p]) /\ pc' = pc
                 \/ /\ ~(n < Len(out[p]))
                    /\ pc' = [pc EXCEPT ![p] = IF pc[p] = "sendData" THEN "finish"
                                               ELSE IF ~fDone[p] THEN "size"
                                               ELSE IF p = Server THEN "session" ELSE "message"]
<1>1. pc[p] \in {"send", "sendData"} /\ inq' = [inq EXCEPT ![p] = <<>>]
      /\ UNCHANGED <<tokens, cbData, secVars, linkVars, asClient, plain>>
  BY DEF SendBytes, Sending
<1>2. PICK n \in 1..Len(out[p]) :
        /\ out' = [out EXCEPT ![p] = SubSeq(@, n + 1, Len(@))]
        /\ net' = IF PeerHere(p)
                  THEN [net EXCEPT ![Peer(p)][Outward(p)] = @ \o SubSeq(out[p], 1, n)]
                  ELSE net
        /\ pc' = [pc EXCEPT ![p] = IF n < Len(out[p]) THEN pc[p] ELSE AfterSend(p, fDone[p])]
  BY DEF SendBytes, Goto
<1>3. AfterSend(p, fDone[p]) = IF pc[p] = "sendData" THEN "finish"
                               ELSE IF ~fDone[p] THEN "size"
                               ELSE IF p = Server THEN "session" ELSE "message"
  <2>1. fDone[p] \in BOOLEAN
    BY DEF Types
  <2>2. CASE pc[p] = "sendData"
    BY <2>2 DEF AfterSend
  <2>3. CASE pc[p] = "send"
    BY <2>1, <2>3 DEF AfterSend
  <2> QED
    BY <1>1, <2>2, <2>3
<1>4. pc = [pc EXCEPT ![p] = pc[p]]
  BY DEF Types
<1>5. CASE n < Len(out[p])
  <2>1. pc' = pc
    BY <1>2, <1>4, <1>5
  <2> QED
    BY <1>1, <1>2, <1>5, <2>1
<1>6. CASE ~(n < Len(out[p]))
  <2>1. pc' = [pc EXCEPT ![p] = IF pc[p] = "sendData" THEN "finish"
                                ELSE IF ~fDone[p] THEN "size"
                                ELSE IF p = Server THEN "session" ELSE "message"]
    BY <1>2, <1>3, <1>6
  <2> QED
    BY <1>1, <1>2, <1>6, <2>1
<1> QED
  BY <1>5, <1>6

StreamStep == OfServer' /\ \A c \in Clients : OfClient(c)'

(* A step that leaves the server where it is keeps what is said of it.      *)
LEMMA ServerUntouched ==
  ASSUME OfServer, ServerSame, serving' = serving, tokens' = tokens
  PROVE  OfServer'
<1>1. TokenIn(Server)' = TokenIn(Server)
  BY DEF TokenIn, ServerSame
<1> QED
  BY <1>1 DEF OfServer, BuffersOf, ServerCounts, ServerSame

(* A step of one client, whose own part is proved.                          *)
LEMMA ClientMoves ==
  ASSUME StreamInv, NEW c \in Clients, ServerSame, serving' = serving, tokens' = tokens,
         \A x \in Clients \ {c} : Own(x), OfClient(c)'
  PROVE  StreamStep
BY ServerUntouched, Untouched DEF StreamInv, StreamStep

(* A step of the server, of which only the client it serves can tell.       *)
LEMMA ServerMoves ==
  ASSUME StreamInv, NEW c \in Clients, OfServer', OfClient(c)',
         \A x \in Clients \ {c} : Own(x) /\ serving # x /\ serving' # x
  PROVE  StreamStep
BY Untouched DEF StreamInv, StreamStep

(* Sending moves units within the client's own stream to the server.        *)
LEMMA ClientSends ==
  ASSUME StreamInv, NEW c \in Clients, SendBytes(c)
  PROVE  StreamStep
<1> USE Apart DEF StreamInv, Base
<1>1. c \in Procs /\ c # Server /\ Peer(c) = c /\ Outward(c) = "up"
  BY DEF Peer, Outward
<1>2. /\ pc[c] \in {"send", "sendData"}
      /\ inq' = [inq EXCEPT ![c] = <<>>]
      /\ UNCHANGED <<tokens, cbData, secVars, linkVars, asClient, plain>>
  BY <1>1, SendEffect
<1>3. PICK n \in 1..Len(out[c]) :
        /\ out' = [out EXCEPT ![c] = SubSeq(@, n + 1, Len(@))]
        /\ net' = IF PeerHere(c)
                  THEN [net EXCEPT ![c]["up"] = @ \o SubSeq(out[c], 1, n)]
                  ELSE net
        /\ \/ n < Len(out[c]) /\ pc' = pc
           \/ /\ ~(n < Len(out[c]))
              /\ pc' = [pc EXCEPT ![c] = IF pc[c] = "sendData" THEN "finish"
                                         ELSE IF ~fDone[c] THEN "size"
                                         ELSE IF c = Server THEN "session" ELSE "message"]
  BY <1>1, SendEffect
<1>4. pc[c] = "send" /\ inq[c] = <<>> /\ inq'[c] = <<>>
  BY <1>1, <1>2 DEF StreamTypes, OfClient, BuffersOf
<1>5. out[c] \in Seq(Units) /\ net[c]["up"] \in Seq(Units)
  BY <1>1 DEF StreamTypes
<1>6. /\ out'[c] = SubSeq(out[c], n + 1, Len(out[c]))
      /\ Len(out'[c]) = Len(out[c]) - n
      /\ Len(out[c]) \in Nat /\ (out'[c] = <<>> <=> n = Len(out[c]))
      /\ (net[c]["up"] \o SubSeq(out[c], 1, n)) \o out'[c] = Up(c)
  <2>1. out'[c] = SubSeq(out[c], n + 1, Len(out[c]))
    BY <1>1, <1>3 DEF StreamTypes
  <2> DEFINE a == net[c]["up"]
             b == out[c]
  <2>2. a \in Seq(Units) /\ b \in Seq(Units) /\ n \in 1..Len(b) /\ out'[c] = SubSeq(b, n + 1, Len(b))
    BY <1>3, <1>5, <2>1
  <2>3. Up(c) = a \o b
    BY DEF Up
  <2> HIDE DEF a, b
  <2>4. /\ Len(out'[c]) = Len(b) - n
        /\ Len(b) \in Nat /\ (out'[c] = <<>> <=> n = Len(b))
        /\ (a \o SubSeq(b, 1, n)) \o out'[c] = a \o b
    <3>1. /\ Len(SubSeq(b, n + 1, Len(b))) = Len(b) - n
          /\ Len(b) \in Nat /\ (SubSeq(b, n + 1, Len(b)) = <<>> <=> n = Len(b))
          /\ (a \o SubSeq(b, 1, n)) \o SubSeq(b, n + 1, Len(b)) = a \o b
      <4>1. a \in Seq(Units) /\ b \in Seq(Units) /\ n \in 1..Len(b)
        BY <2>2
      <4> QED
        BY <4>1, CutMoves
    <3> QED
      BY <2>2, <3>1, Zenon
  <2> QED
    BY <2>1, <2>3, <2>4 DEF a, b
<1>7. \/ pc'[c] = "send" /\ out'[c] # <<>>
      \/ pc'[c] = "size" /\ ~fDone[c] /\ out'[c] = <<>>
      \/ pc'[c] = "message" /\ fDone[c] /\ out'[c] = <<>>
  <2>1. Len(out[c]) \in Nat /\ (out'[c] = <<>> <=> n = Len(out[c]))
    BY <1>6
  <2> QED
    BY <1>1, <1>3, <1>4, <2>1 DEF Types
<1>8. /\ net'[c]["down"] = net[c]["down"]
      /\ PeerHere(c) => net'[c]["up"] = net[c]["up"] \o SubSeq(out[c], 1, n)
      /\ ~PeerHere(c) => net'[c]["up"] = net[c]["up"]
  <2>1. net \in [Clients -> [{"up", "down"} -> Seq(Units)]]
    BY DEF StreamTypes
  <2>2. CASE PeerHere(c)
    BY <1>3, <2>1, <2>2
  <2>3. CASE ~PeerHere(c)
    BY <1>3, <2>3
  <2> QED
    BY <2>2, <2>3
<1>9. ServerSame /\ serving' = serving /\ tokens' = tokens
  BY <1>1, <1>2, <1>3 DEF ServerSame, secVars, linkVars, Types, StreamTypes
<1>10. ASSUME NEW x \in Clients \ {c} PROVE Own(x)
  BY <1>1, <1>2, <1>3 DEF Own, secVars, linkVars, Types, StreamTypes
<1>11. UNCHANGED <<calls, fDone, conn, isOpen, cbData, plain, serving, tokens>>
  BY <1>2 DEF secVars, linkVars
<1>12. Down(c)' = Down(c) /\ Stream(c)' = Stream(c) /\ Tails(c)' = Tails(c)
  BY <1>1, <1>4, <1>8, <1>9, <1>11 DEF Down, Behind, Stream, Tails, ServerSame
<1>13. PeerHere(c) => Up(c)' = Up(c)
  BY <1>6, <1>8 DEF Up
<1>14. conn[c] = "queued" \/ Served(c) => PeerHere(c)
  BY <1>1 DEF OfClient, LinkOK, PeerHere, Others, Served
<1>15. /\ Served(c)' <=> Served(c)
       /\ Alive(c) /\ Alive(c)'
  BY <1>4, <1>7, <1>11 DEF Served, Alive
<1>16. Served(c) => (Awaited(Server, <<>>)' <=> Awaited(Server, <<>>))
  BY <1>9, <1>13, <1>14, SameServerStream DEF Served
<1>17. BuffersOf(c)' /\ ClientCounts(c)'
  BY <1>1, <1>4, <1>7, <1>11 DEF OfClient, BuffersOf, ClientCounts
<1>18. LinkOK(c)'
  <2>1. serving = c /\ conn[c] = "reset" => net'[c]["up"] = <<>>
    BY <1>8 DEF OfClient, LinkOK, PeerHere, Peer
  <2>2. conn[c] # "none"
    BY <1>4 DEF OfClient, LinkOK
  <2> QED
    BY <1>4, <1>7, <1>8, <1>11, <1>15, <2>1, <2>2 DEF OfClient, LinkOK
<1>19. DownOK(c)'
  <2>1. conn[c] # "reset" => Stream(c) = <<>>
    BY <1>4 DEF OfClient, DownOK
  <2> QED
    BY <1>7, <1>11, <1>12, <2>1 DEF DownOK, Tails
<1>20. UpOK(c)'
  BY <1>9, <1>11, <1>13, <1>14, <1>15, <1>16 DEF OfClient, UpOK, ServerSame
<1>21. TurnOK(c)'
  <2> SUFFICES ASSUME conn[c] = "queued" \/ Served(c) PROVE Asked(c)'
    BY <1>11, <1>15 DEF TurnOK
  <2>1. Asked(c)
    BY <1>4, <1>15 DEF OfClient, TurnOK, Begins, Answered, Awaited, Finished
  <2>2. CallsOf(c)' = CallsOf(c) /\ PcOf(c)' = PcOf(c)
    BY <1>9 DEF CallsOf, PcOf, ServerSame
  <2>3. PcOf(c) = "size" => Served(c)
    BY DEF PcOf, Served, OfClient, LinkOK
  <2> QED
    BY <1>7, <1>11, <1>12, <1>13, <1>14, <1>16, <2>1, <2>2, <2>3 DEF Asked
<1>22. OfClient(c)'
  BY <1>17, <1>18, <1>19, <1>20, <1>21 DEF OfClient
<1> QED
  BY <1>9, <1>10, <1>22, ClientMoves

(* Sending moves units within the server's own stream to its client.        *)
LEMMA ServerSends ==
  ASSUME StreamInv, SendBytes(Server)
  PROVE  StreamStep
<1> USE Apart DEF StreamInv, Base
<1>0. pc[Server] \in {"send", "sendData"}
  BY SendEffect
<1>1. PICK c \in Clients : /\ serving = c /\ c # Server /\ Peer(Server) = c /\ Outward(Server) = "down"
                           /\ pc[Server] \in {"send", "sendData"}
  BY <1>0, PeerIsClient DEF Peer, Outward
<1>2. /\ inq' = [inq EXCEPT ![Server] = <<>>]
      /\ UNCHANGED <<tokens, cbData, secVars, linkVars, asClient, plain>>
  BY SendEffect
<1>3. PICK n \in 1..Len(out[Server]) :
        /\ out' = [out EXCEPT ![Server] = SubSeq(@, n + 1, Len(@))]
        /\ net' = IF PeerHere(Server)
                  THEN [net EXCEPT ![c]["down"] = @ \o SubSeq(out[Server], 1, n)]
                  ELSE net
        /\ \/ n < Len(out[Server]) /\ pc' = pc
           \/ /\ ~(n < Len(out[Server]))
              /\ pc' = [pc EXCEPT ![Server] = IF pc[Server] = "sendData" THEN "finish"
                                              ELSE IF ~fDone[Server] THEN "size" ELSE "session"]
  BY <1>1, SendEffect
<1>4. inq[Server] = <<>> /\ inq'[Server] = <<>> /\ \A x \in Clients : inq'[x] = inq[x]
  BY <1>1, <1>2 DEF StreamTypes, OfServer, BuffersOf
<1>5. /\ Len(out[Server]) \in Nat /\ (out'[Server] = <<>> <=> n = Len(out[Server]))
      /\ (net[c]["down"] \o SubSeq(out[Server], 1, n)) \o out'[Server] = net[c]["down"] \o out[Server]
  <2> DEFINE a == net[c]["down"]
             b == out[Server]
  <2>1. a \in Seq(Units) /\ b \in Seq(Units) /\ n \in 1..Len(b)
    BY <1>1, <1>3 DEF StreamTypes
  <2>2. out'[Server] = SubSeq(b, n + 1, Len(b))
    BY <1>3 DEF StreamTypes
  <2> HIDE DEF a, b
  <2>3. /\ Len(b) \in Nat /\ (SubSeq(b, n + 1, Len(b)) = <<>> <=> n = Len(b))
        /\ (a \o SubSeq(b, 1, n)) \o SubSeq(b, n + 1, Len(b)) = a \o b
    <3>1. a \in Seq(Units) /\ b \in Seq(Units) /\ n \in 1..Len(b)
      BY <2>1
    <3> QED
      BY <3>1, CutMoves
  <2>4. /\ Len(b) \in Nat /\ (out'[Server] = <<>> <=> n = Len(b))
        /\ (a \o SubSeq(b, 1, n)) \o out'[Server] = a \o b
    BY <2>2, <2>3, Zenon
  <2> QED
    BY <2>4 DEF a, b
<1>6. /\ \A x \in Clients : pc'[x] = pc[x] /\ out'[x] = out[x]
      /\ \/ pc'[Server] = pc[Server] /\ out'[Server] # <<>>
         \/ pc'[Server] = "size" /\ pc[Server] = "send" /\ ~fDone[Server] /\ out'[Server] = <<>>
         \/ pc'[Server] = "session" /\ pc[Server] = "send" /\ fDone[Server] /\ out'[Server] = <<>>
         \/ pc'[Server] = "finish" /\ pc[Server] = "sendData" /\ out'[Server] = <<>>
  <2>1. \A x \in Clients : pc'[x] = pc[x] /\ out'[x] = out[x]
    BY <1>1, <1>3 DEF Types, StreamTypes
  <2>2. CASE n < Len(out[Server])
    <3>1. pc' = pc /\ out'[Server] # <<>>
      BY <1>3, <1>5, <2>2
    <3> QED
      BY <2>1, <3>1
  <2>3. CASE ~(n < Len(out[Server]))
    <3>1. out'[Server] = <<>>
      BY <1>3, <1>5, <2>3
    <3>2. pc'[Server] = IF pc[Server] = "sendData" THEN "finish"
                        ELSE IF ~fDone[Server] THEN "size" ELSE "session"
      BY <1>3, <2>3 DEF Types
    <3> QED
      BY <1>1, <2>1, <3>1, <3>2
  <2> QED
    BY <2>2, <2>3
<1>7. /\ net'[c]["up"] = net[c]["up"]
      /\ PeerHere(Server) => net'[c]["down"] = net[c]["down"] \o SubSeq(out[Server], 1, n)
      /\ ~PeerHere(Server) => net'[c]["down"] = net[c]["down"]
      /\ \A x \in Clients \ {c} : net'[x] = net[x]
  <2>1. net \in [Clients -> [{"up", "down"} -> Seq(Units)]]
    BY DEF StreamTypes
  <2>2. CASE PeerHere(Server)
    BY <1>1, <1>3, <2>1, <2>2
  <2>3. CASE ~PeerHere(Server)
    BY <1>3, <2>3
  <2> QED
    BY <2>2, <2>3
<1>8. UNCHANGED <<calls, fDone, conn, isOpen, cbData, plain, serving, tokens>>
  BY <1>2 DEF secVars, linkVars
<1>9. ASSUME NEW x \in Clients \ {c} PROVE Own(x) /\ serving # x /\ serving' # x
  BY <1>1, <1>4, <1>6, <1>7, <1>8 DEF Own
<1>10. Up(c)' = Up(c) /\ (PeerHere(Server) => Down(c)' = Down(c))
  BY <1>1, <1>5, <1>6, <1>7, <1>8 DEF Up, Down
<1>11. PeerHere(Server) <=> conn[c] # "reset" /\ Alive(c)
  BY <1>1 DEF OfClient, LinkOK, PeerHere, Others
<1>12. OfClient(c) /\ serving = c /\ conn[c] \in {"accepted", "reset"} /\ pc[c] # "start"
  BY <1>1 DEF OfClient, LinkOK
<1>13. OfServer'
  <2>1. pc'[Server] # "gen"
    BY <1>1, <1>6
  <2>2. BuffersOf(Server)'
    BY <1>1, <1>4, <1>6, <2>1 DEF OfServer, BuffersOf
  <2>3. ServerCounts'
    BY <1>1, <1>6, <1>8 DEF OfServer, ServerCounts, Talking, Agreed
  <2> QED
    BY <2>2, <2>3 DEF OfServer
<1>14. /\ Served(c)' <=> Served(c)
       /\ Alive(c)' <=> Alive(c)
  BY <1>1, <1>6, <1>8 DEF Served, Alive
<1>15. BuffersOf(c)' /\ ClientCounts(c)'
  <2>1. TokenIn(c)' = TokenIn(c)
    BY <1>1, <1>8 DEF TokenIn
  <2> QED
    BY <1>1, <1>4, <1>6, <1>8, <1>12, <2>1 DEF OfClient, BuffersOf, ClientCounts
<1>16. LinkOK(c)'
  <2>1. conn[c] # "accepted" => net'[c]["down"] = <<>>
    BY <1>7, <1>11, <1>12 DEF OfClient, LinkOK
  <2>2. pc'[c] = pc[c] /\ conn' = conn /\ isOpen' = isOpen /\ serving' = serving
        /\ net'[c]["up"] = net[c]["up"]
    BY <1>6, <1>7, <1>8
  <2>3. LinkOK(c)
    BY <1>12 DEF OfClient
  <2>4. (c \in isOpen'[c]) <=> Alive(c)'
    BY <1>14, <2>2, <2>3 DEF LinkOK
  <2> QED
    BY <1>12, <1>14, <2>1, <2>2, <2>3, <2>4 DEF LinkOK
<1>17. PeerHere(Server) => /\ DownOK(c)' /\ Stream(c)' = Stream(c) /\ Tails(c)' = Tails(c)
                           /\ \A x : Awaited(c, x)' <=> Awaited(c, x)
  BY <1>1, <1>4, <1>6, <1>8, <1>10, <1>12, SameStream DEF OfClient
<1>18. DownOK(c)'
  <2>1. CASE PeerHere(Server)
    BY <1>17, <2>1
  <2>2. CASE ~PeerHere(Server)
    BY <1>1, <1>6, <1>8, <1>11, <1>12, <2>2 DEF DownOK, Alive
  <2> QED
    BY <2>1, <2>2
<1>19. UpOK(c)'
  <2>1. Served(c) => Up(c)' = <<>>
    BY <1>1, <1>10, <1>12 DEF OfClient, UpOK, Agreed
  <2> QED
    BY <1>1, <1>4, <1>6, <1>8, <1>12, <1>14, <2>1 DEF UpOK, Agreed
<1>20. TurnOK(c)'
  <2> SUFFICES ASSUME Served(c), Alive(c) PROVE Answered(c)' \/ Finished(c)'
    BY <1>8, <1>12, <1>14 DEF TurnOK
  <2>1. PeerHere(Server)
    BY <1>11 DEF Served
  <2>2. CallsOf(c) = calls[Server] /\ CallsOf(c)' = calls[Server] /\ PcOf(c) = pc[Server]
        /\ PcOf(c)' = pc'[Server]
    BY <1>8, <1>12 DEF CallsOf, PcOf
  <2>3. Up(c)' = <<>>
    BY <1>1, <1>10, <1>12 DEF OfClient, UpOK, Agreed
  <2>4. Answered(c) \/ Finished(c)
    BY <1>1, <1>12, <2>2 DEF OfClient, TurnOK, Begins, Asked
  <2>5. Answered(c) => Answered(c)'
    BY <1>1, <1>4, <1>6, <1>8, <1>17, <2>1, <2>2, <2>3 DEF Answered, Agreed
  <2>6. Finished(c) => Finished(c)'
    BY <1>1, <1>6, <1>17, <2>1, <2>2 DEF Finished, Agreed
  <2> QED
    BY <2>4, <2>5, <2>6
<1>21. OfClient(c)'
  BY <1>15, <1>16, <1>18, <1>19, <1>20 DEF OfClient
<1> QED
  BY <1>1, <1>9, <1>13, <1>21, ServerMoves

(* One recv: what has been read and what is still behind it are the stream. *)
LEMMA ReceiveBuf ==
  ASSUME StreamInv, NEW p \in Procs, ReceiveBytes(p)
  PROVE  \E buf \in Seq(Units) :
           /\ buf # <<>> /\ Behind(p)' \in Seq(Units)
           /\ buf \o Behind(p)' = Stream(p)
           /\ \/ inq'[p] = buf /\ pc'[p] = pc[p] /\ cbData'[p] = cbData[p]
              \/ /\ Len(buf) = DWORD /\ pc[p] = "size" /\ inq'[p] = <<>>
                 /\ pc'[p] = IF buf[1].val = 0 THEN "gen" ELSE "body"
                 /\ cbData'[p] = buf[1].val
              \/ Len(buf) = cbData[p] /\ pc[p] = "body" /\ pc'[p] = "gen" /\ inq'[p] = buf
              \/ Len(buf) = BIG_BUFF /\ pc[p] = "message" /\ pc'[p] = "decrypt" /\ inq'[p] = buf
<1> USE Apart DEF StreamInv, Base
<1>1. PICK c \in Clients : /\ Peer(p) = c /\ (p # Server => c = p) /\ (p = Server => c = serving)
                           /\ Inward(p) = (IF p = Server THEN "up" ELSE "down")
                           /\ pc[p] \in {"size", "body", "message"}
  BY PeerIsClient, ReceiveEffect DEF Inward
<1> DEFINE way == net[c][Inward(p)]
           Buf(n) == inq[p] \o SubSeq(way, 1, n)
           rest == IF p = Server THEN out[c] ELSE IF serving = c THEN out[Server] ELSE <<>>
<1>2. PICK n \in 1..Len(way) :
        /\ net' = [net EXCEPT ![c][Inward(p)] = SubSeq(@, n + 1, Len(@))]
        /\ \/ /\ inq' = [inq EXCEPT ![p] = Buf(n)] /\ UNCHANGED <<pc, cbData>>
           \/ /\ Len(Buf(n)) = Wanted(p) /\ pc[p] = "size"
              /\ pc' = [pc EXCEPT ![p] = IF Buf(n)[1].val = 0 THEN "gen" ELSE "body"]
              /\ cbData' = [cbData EXCEPT ![p] = Buf(n)[1].val]
              /\ inq' = [inq EXCEPT ![p] = <<>>]
           \/ /\ Len(Buf(n)) = Wanted(p) /\ pc[p] = "body"
              /\ pc' = [pc EXCEPT ![p] = "gen"]
              /\ inq' = [inq EXCEPT ![p] = Buf(n)] /\ cbData' = cbData
           \/ /\ Len(Buf(n)) = Wanted(p) /\ pc[p] = "message"
              /\ pc' = [pc EXCEPT ![p] = "decrypt"]
              /\ inq' = [inq EXCEPT ![p] = Buf(n)] /\ cbData' = cbData
  BY <1>1, ReceiveEffect
<1>3. /\ way \in Seq(Units) /\ inq[p] \in Seq(Units) /\ rest \in Seq(Units)
      /\ net'[c][Inward(p)] = SubSeq(way, n + 1, Len(way))
      /\ UNCHANGED <<out, serving>>
  <2>1. UNCHANGED <<out, serving>>
    BY ReceiveEffect DEF linkVars
  <2> QED
    BY <1>1, <1>2, <2>1 DEF StreamTypes
<1>4. Stream(p) = inq[p] \o (way \o rest)
  BY <1>1 DEF Stream, Behind, Up, Down
<1>5. Behind(p)' = SubSeq(way, n + 1, Len(way)) \o rest
  BY <1>1, <1>3 DEF Behind, Up, Down
<1>6. Wanted(p) = IF pc[p] = "size" THEN DWORD ELSE IF pc[p] = "body" THEN cbData[p] ELSE BIG_BUFF
  <2>1. CASE pc[p] = "size"
    BY <2>1 DEF Wanted
  <2>2. CASE pc[p] = "body"
    BY <2>2 DEF Wanted
  <2>3. CASE pc[p] = "message"
    BY <2>3 DEF Wanted
  <2> QED
    BY <1>1, <2>1, <2>2, <2>3
<1> DEFINE b == Buf(n)
<1>7. b \in Seq(Units) /\ b # <<>> /\ Behind(p)' \in Seq(Units) /\ b \o Behind(p)' = Stream(p)
  <2> DEFINE i == inq[p]
             u == SubSeq(way, 1, n)
             v == SubSeq(way, n + 1, Len(way))
  <2> HIDE DEF way, rest, i
  <2>1. way \in Seq(Units) /\ i \in Seq(Units) /\ rest \in Seq(Units) /\ n \in 1..Len(way)
    BY <1>2, <1>3 DEF i
  <2>2. u \in Seq(Units) /\ v \in Seq(Units) /\ Len(u) = n /\ (i \o u) \o v = i \o way
    BY <2>1, CutMoves
  <2> HIDE DEF u, v
  <2> DEFINE iu == i \o u
  <2>a. iu \in Seq(Units)
    BY <2>1, <2>2, Joined
  <2>b. v \o rest \in Seq(Units)
    BY <2>1, <2>2, Joined
  <2>c. (i \o way) \o rest = i \o (way \o rest)
    BY <2>1, Assoc
  <2>d. iu \o v = i \o way
    BY <2>2
  <2> HIDE DEF iu
  <2>e. (iu \o v) \o rest = iu \o (v \o rest)
    BY <2>1, <2>2, <2>a, Assoc
  <2>3. iu \o (v \o rest) = i \o (way \o rest)
    BY <2>c, <2>d, <2>e, Zenon
  <2>4. iu # <<>>
    BY <2>1, <2>2 DEF iu
  <2>5. Stream(p) = i \o (way \o rest) /\ Behind(p)' = v \o rest
    BY <1>4, <1>5 DEF v, i
  <2>6. b = iu
    BY DEF iu, u, i
  <2> HIDE DEF b
  <2> QED
    BY <2>a, <2>b, <2>3, <2>4, <2>5, <2>6, Zenon
<1>8. \/ inq'[p] = b /\ pc'[p] = pc[p] /\ cbData'[p] = cbData[p]
      \/ /\ Len(b) = DWORD /\ pc[p] = "size" /\ inq'[p] = <<>>
         /\ pc'[p] = IF b[1].val = 0 THEN "gen" ELSE "body"
         /\ cbData'[p] = b[1].val
      \/ Len(b) = cbData[p] /\ pc[p] = "body" /\ pc'[p] = "gen" /\ inq'[p] = b
      \/ Len(b) = BIG_BUFF /\ pc[p] = "message" /\ pc'[p] = "decrypt" /\ inq'[p] = b
  <2>1. p \in DOMAIN inq /\ p \in DOMAIN pc /\ p \in DOMAIN cbData
    BY DEF StreamTypes, Types
  <2> HIDE DEF Buf, way
  <2> QED
    BY <1>2, <1>6, <2>1
<1> HIDE DEF b
<1> QED
  BY <1>7, <1>8

(* A recv that gives something had something to read.                       *)
LEMMA ReceiveNeedsSome ==
  ASSUME StreamInv, NEW p \in Procs, ReceiveBytes(p)
  PROVE  Stream(p) # <<>>
<1>1. PICK buf \in Seq(Units) : buf # <<>> /\ Behind(p)' \in Seq(Units) /\ buf \o Behind(p)' = Stream(p)
  BY ReceiveBuf
<1> QED
  BY <1>1, Joined

(* A recv brings the awaited token nearer and takes nothing from what is    *)
(* behind it.                                                               *)
LEMMA ReceiveAwaited ==
  ASSUME StreamInv, NEW p \in Procs, ReceiveBytes(p), NEW x \in Seq(Units), Awaited(p, x)
  PROVE  Awaited(p, x)'
<1> USE Apart DEF StreamInv, Base
<1> DEFINE t == TokenIn(p)
<1>1. t \in Nat /\ TokenIn(p)' = t
  <2>1. calls' = calls /\ calls[p] \in Nat
    BY ReceiveEffect DEF secVars, Types
  <2> QED
    BY <2>1 DEF TokenIn
<1> HIDE DEF t
<1>2. PICK buf \in Seq(Units) :
           /\ buf # <<>> /\ Behind(p)' \in Seq(Units)
           /\ buf \o Behind(p)' = Stream(p)
           /\ \/ inq'[p] = buf /\ pc'[p] = pc[p] /\ cbData'[p] = cbData[p]
              \/ /\ Len(buf) = DWORD /\ pc[p] = "size" /\ inq'[p] = <<>>
                 /\ pc'[p] = IF buf[1].val = 0 THEN "gen" ELSE "body"
                 /\ cbData'[p] = buf[1].val
              \/ Len(buf) = cbData[p] /\ pc[p] = "body" /\ pc'[p] = "gen" /\ inq'[p] = buf
              \/ Len(buf) = BIG_BUFF /\ pc[p] = "message" /\ pc'[p] = "decrypt" /\ inq'[p] = buf
  BY ReceiveBuf
<1>3. pc[p] \in {"size", "body", "message"}
  BY ReceiveEffect
<1> DEFINE h == Run("size", TokenLen(t), DWORD)
<1>4. /\ TokenLen(t) \in 1..2 /\ Body(t) \in Seq(Units) /\ Len(Body(t)) = TokenLen(t)
      /\ h \in Seq(Units) /\ Len(h) = DWORD /\ h[1].val = TokenLen(t) /\ Token(t) = h \o Body(t)
  BY <1>1, TokenFrame DEF Token
<1> HIDE DEF h
<1>5. CASE inq'[p] = buf /\ pc'[p] = pc[p] /\ cbData'[p] = cbData[p]
  <2>1. Stream(p)' = Stream(p)
    BY <1>2, <1>5 DEF Stream
  <2> QED
    BY <1>1, <1>3, <1>5, <2>1 DEF Awaited, t
<1>6. CASE /\ Len(buf) = DWORD /\ pc[p] = "size" /\ inq'[p] = <<>>
           /\ pc'[p] = (IF buf[1].val = 0 THEN "gen" ELSE "body")
           /\ cbData'[p] = buf[1].val
  <2>1. Stream(p) = (h \o Body(t)) \o x
    BY <1>4, <1>6 DEF Awaited, t
  <2>2. (h \o Body(t)) \o x = h \o (Body(t) \o x)
    BY <1>4, Assoc
  <2>3. Body(t) \o x \in Seq(Units)
    BY <1>4, Joined
  <2>4. buf = h /\ Behind(p)' = Body(t) \o x
    <3> DEFINE bp == Behind(p)'
               g == Body(t) \o x
    <3>1. bp \in Seq(Units) /\ g \in Seq(Units) /\ buf \o bp = h \o g /\ Len(buf) = Len(h)
      BY <1>2, <1>4, <1>6, <2>1, <2>2, <2>3
    <3> HIDE DEF bp, g
    <3>2. buf = h /\ bp = g
      BY <1>4, <3>1, FrontIs
    <3> QED
      BY <3>2 DEF bp, g
  <2>5. pc'[p] = "body" /\ cbData'[p] = TokenLen(t)
    BY <1>4, <1>6, <2>4
  <2>6. Stream(p)' = Body(t) \o x
    BY <1>6, <2>3, <2>4, Joined DEF Stream
  <2> QED
    BY <1>1, <2>5, <2>6 DEF Awaited
<1>7. CASE Len(buf) = cbData[p] /\ pc[p] = "body" /\ pc'[p] = "gen" /\ inq'[p] = buf
  <2>1. Stream(p) = Body(t) \o x /\ Len(buf) = Len(Body(t))
    BY <1>4, <1>7 DEF Awaited, t
  <2>2. buf = Body(t) /\ Behind(p)' = x
    <3> DEFINE bp == Behind(p)'
    <3>1. bp \in Seq(Units) /\ buf \o bp = Body(t) \o x
      BY <1>2, <2>1
    <3> HIDE DEF bp
    <3>2. buf = Body(t) /\ bp = x
      BY <1>4, <2>1, <3>1, FrontIs
    <3> QED
      BY <3>2 DEF bp
  <2> QED
    BY <1>1, <1>7, <2>2 DEF Awaited
<1>8. pc[p] # "message"
  BY DEF Awaited
<1> QED
  BY <1>2, <1>5, <1>6, <1>7, <1>8

(* The message never fills main's buffer: only its end ends it.             *)
LEMMA ReceiveMessage ==
  ASSUME StreamInv, NEW p \in Procs, ReceiveBytes(p), pc[p] = "message",
         Stream(p) \in {<<>>} \union Messages
  PROVE  pc'[p] = "message" /\ Stream(p)' = Stream(p)
<1>1. PICK buf \in Seq(Units) :
           /\ buf # <<>> /\ Behind(p)' \in Seq(Units)
           /\ buf \o Behind(p)' = Stream(p)
           /\ \/ inq'[p] = buf /\ pc'[p] = pc[p]
              \/ Len(buf) = BIG_BUFF
  BY ReceiveBuf
<1>2. Stream(p) # <<>>
  BY ReceiveNeedsSome
<1>3. PICK a \in 1..MaxTrailer : Stream(p) = EncryptThis(a)
  BY <1>2 DEF Messages
<1>4. Len(Stream(p)) < BIG_BUFF /\ BIG_BUFF \in Nat
  BY <1>3, MessageFrame, SspiAssumption DEF BIG_BUFF, DWORD, DataLen
<1>5. Len(buf) # BIG_BUFF
  <2> DEFINE bp == Behind(p)'
  <2>1. bp \in Seq(Units) /\ Len(buf \o bp) < BIG_BUFF
    BY <1>1, <1>4
  <2> HIDE DEF bp
  <2>2. Len(buf \o bp) = Len(buf) + Len(bp) /\ Len(bp) \in Nat /\ Len(buf) \in Nat
    BY <2>1, Joined
  <2> QED
    BY <1>4, <2>1, <2>2
<1> QED
  BY <1>1, <1>5 DEF Stream

(* What a recv leaves alone.                                                *)
LEMMA ReceiveFrame ==
  ASSUME Base, NEW p \in Procs, ReceiveBytes(p), NEW c \in Clients, c = Peer(p)
  PROVE  /\ pc[p] \in {"size", "body", "message"}
         /\ UNCHANGED <<tokens, out, calls, fDone, conn, isOpen, serving, plain>>
         /\ \A q \in Procs \ {p} : pc'[q] = pc[q] /\ inq'[q] = inq[q] /\ cbData'[q] = cbData[q]
         /\ \A x \in Clients \ {c} : net'[x] = net[x]
         /\ net'[c][Outward(p)] = net[c][Outward(p)]
         /\ net[c][Inward(p)] # <<>>
<1> USE Apart DEF Base
<1>1. pc[p] \in {"size", "body", "message"}
      /\ UNCHANGED <<tokens, out, calls, fDone, conn, isOpen, serving, plain>>
  BY ReceiveEffect DEF secVars, linkVars
<1> DEFINE way == net[c][Inward(p)]
           Buf(n) == inq[p] \o SubSeq(way, 1, n)
<1>2. PICK n \in 1..Len(way) :
        /\ net' = [net EXCEPT ![c][Inward(p)] = SubSeq(@, n + 1, Len(@))]
        /\ \/ inq' = [inq EXCEPT ![p] = Buf(n)] /\ UNCHANGED <<pc, cbData>>
           \/ /\ pc' = [pc EXCEPT ![p] = IF Buf(n)[1].val = 0 THEN "gen" ELSE "body"]
              /\ cbData' = [cbData EXCEPT ![p] = Buf(n)[1].val]
              /\ inq' = [inq EXCEPT ![p] = <<>>]
           \/ /\ pc' = [pc EXCEPT ![p] = "gen"]
              /\ inq' = [inq EXCEPT ![p] = Buf(n)] /\ cbData' = cbData
           \/ /\ pc' = [pc EXCEPT ![p] = "decrypt"]
              /\ inq' = [inq EXCEPT ![p] = Buf(n)] /\ cbData' = cbData
  BY ReceiveEffect
<1> HIDE DEF Buf
<1>3. ASSUME NEW q \in Procs \ {p}
      PROVE  pc'[q] = pc[q] /\ inq'[q] = inq[q] /\ cbData'[q] = cbData[q]
  BY <1>2 DEF Types, StreamTypes
<1>4. net \in [Clients -> [{"up", "down"} -> Seq(Units)]] /\ way \in Seq(Units)
      /\ Outward(p) # Inward(p) /\ Inward(p) \in {"up", "down"} /\ Outward(p) \in {"up", "down"}
  <2>1. Outward(p) # Inward(p) /\ Inward(p) \in {"up", "down"} /\ Outward(p) \in {"up", "down"}
    BY DEF Outward, Inward
  <2>2. net \in [Clients -> [{"up", "down"} -> Seq(Units)]]
    BY DEF StreamTypes
  <2> QED
    BY <2>1, <2>2
<1>5. way # <<>>
  <2> HIDE DEF way
  <2> QED
    BY <1>2, <1>4
<1> HIDE DEF way
<1>6. (\A x \in Clients \ {c} : net'[x] = net[x]) /\ net'[c][Outward(p)] = net[c][Outward(p)]
  BY <1>2, <1>4
<1> QED
  BY <1>1, <1>3, <1>5, <1>6 DEF way

(* What may be behind a token.                                              *)
LEMMA TailTypes ==
  ASSUME NEW c \in Clients
  PROVE  /\ Messages \subseteq Seq(Units) /\ <<>> \notin Messages
         /\ Tails(c) \subseteq {<<>>} \union Messages /\ <<>> \in Tails(c)
         /\ \A x \in Tails(c) : x \in Seq(Units)
<1>1. Messages \subseteq Seq(Units) /\ <<>> \notin Messages
  BY MessageFrame DEF Messages
<1>2. Tails(c) \subseteq {<<>>} \union Messages /\ <<>> \in Tails(c)
  BY DEF Tails
<1>3. <<>> \in Seq(Units)
  OBVIOUS
<1> QED
  BY <1>1, <1>2, <1>3, Zenon

(* A recv of a client reads the token it awaits, or the message.            *)
LEMMA ClientReceives ==
  ASSUME StreamInv, NEW c \in Clients, ReceiveBytes(c)
  PROVE  StreamStep
<1> USE Apart DEF StreamInv, Base
<1>1. c \in Procs /\ c # Server /\ Peer(c) = c /\ Outward(c) = "up" /\ Inward(c) = "down"
  BY DEF Peer, Outward, Inward
<1>2. /\ pc[c] \in {"size", "body", "message"}
      /\ UNCHANGED <<tokens, out, calls, fDone, conn, isOpen, serving, plain>>
      /\ \A q \in Procs \ {c} : pc'[q] = pc[q] /\ inq'[q] = inq[q] /\ cbData'[q] = cbData[q]
      /\ \A x \in Clients \ {c} : net'[x] = net[x]
      /\ net'[c]["up"] = net[c]["up"]
      /\ net[c]["down"] # <<>>
  BY <1>1, ReceiveFrame
<1>3. BuffersOf(c) /\ ClientCounts(c) /\ LinkOK(c) /\ DownOK(c) /\ UpOK(c) /\ TurnOK(c)
  BY DEF OfClient
<1>4. conn[c] = "accepted" /\ Stream(c) # <<>>
  BY <1>1, <1>2, <1>3, ReceiveNeedsSome DEF LinkOK
<1>5. \A x \in Seq(Units) : Awaited(c, x) => Awaited(c, x)'
  BY <1>1, ReceiveAwaited
<1>6. pc[c] = "message" => pc'[c] = "message" /\ Stream(c)' = Stream(c)
  <2> HAVE pc[c] = "message"
  <2>1. Stream(c) \in {<<>>} \union Messages
    BY <1>3, <1>4, TailTypes DEF DownOK
  <2> QED
    BY <1>1, <2>1, ReceiveMessage
<1>7. Tails(c)' = Tails(c) /\ TokenIn(c)' = TokenIn(c) /\ Up(c)' = Up(c)
  BY <1>1, <1>2 DEF Tails, TokenIn, Up
<1>8. pc[c] \in {"size", "body"} => \E x \in Tails(c) : Awaited(c, x)
  BY <1>3, <1>4 DEF DownOK
<1>9. /\ pc[c] = "size" => pc'[c] \in {"size", "body", "gen"}
      /\ pc[c] = "body" => pc'[c] \in {"body", "gen"}
  <2>1. PICK buf \in Seq(Units) :
           \/ pc'[c] = pc[c]
           \/ pc[c] = "size" /\ pc'[c] = IF buf[1].val = 0 THEN "gen" ELSE "body"
           \/ pc[c] = "body" /\ pc'[c] = "gen"
           \/ pc[c] = "message"
    BY <1>1, ReceiveBuf
  <2> QED
    BY <2>1
<1>10. ServerSame /\ serving' = serving /\ tokens' = tokens
  BY <1>1, <1>2 DEF ServerSame
<1>11. ASSUME NEW x \in Clients \ {c} PROVE Own(x)
  BY <1>1, <1>2 DEF Own
<1>12. /\ Served(c)' <=> Served(c)
       /\ Alive(c) /\ Alive(c)'
  BY <1>2, <1>6, <1>9 DEF Served, Alive
<1>13. \A x \in Seq(Units) : Awaited(c, x)' /\ pc'[c] = "gen" => inq'[c] = Body(TokenIn(c)')
  BY DEF Awaited
<1>14. BuffersOf(c)'
  <2>1. pc'[c] = "gen" => inq'[c] = Body(TokenIn(c)')
    <3> HAVE pc'[c] = "gen"
    <3>1. PICK x \in Tails(c) : Awaited(c, x)
      BY <1>2, <1>6, <1>8
    <3>2. x \in Seq(Units)
      BY TailTypes
    <3> QED
      BY <1>5, <1>13, <3>1, <3>2
  <2>2. pc'[c] \in {"size", "body", "gen", "message"} /\ out[c] = <<>>
    BY <1>2, <1>3, <1>6, <1>9 DEF BuffersOf
  <2> QED
    BY <1>2, <2>1, <2>2 DEF BuffersOf
<1>15. ClientCounts(c)'
  BY <1>2, <1>3, <1>6, <1>9 DEF ClientCounts
<1>16. LinkOK(c)'
  BY <1>2, <1>3, <1>4, <1>6, <1>9, <1>12 DEF LinkOK
<1>17. DownOK(c)'
  <2>1. CASE pc[c] = "message"
    BY <1>3, <1>4, <1>6, <1>7, <2>1 DEF DownOK
  <2>2. CASE pc[c] \in {"size", "body"}
    <3>1. PICK x \in Tails(c) : Awaited(c, x)
      BY <1>8, <2>2
    <3>2. x \in Seq(Units)
      BY TailTypes
    <3>3. x \in Tails(c)' /\ Awaited(c, x)'
      BY <1>5, <1>7, <3>1, <3>2
    <3> QED
      BY <1>9, <2>2, <3>3 DEF DownOK
  <2> QED
    BY <1>2, <2>1, <2>2
<1>18. UpOK(c)'
  <2>1. Served(c) => (Awaited(Server, <<>>)' <=> Awaited(Server, <<>>))
    BY <1>7, <1>10, SameServerStream DEF Served
  <2> QED
    BY <1>2, <1>3, <1>7, <1>10, <1>12, <2>1 DEF UpOK, ServerSame
<1>19. TurnOK(c)'
  <2> SUFFICES ASSUME Served(c) PROVE Answered(c)' \/ Finished(c)'
    BY <1>2, <1>4, <1>12 DEF TurnOK
  <2>1. CallsOf(c)' = CallsOf(c) /\ PcOf(c)' = PcOf(c)
    BY <1>10 DEF CallsOf, PcOf, ServerSame
  <2>2. Answered(c) \/ Finished(c)
    BY <1>2, <1>3, <1>4, <1>12 DEF TurnOK, Begins, Asked
  <2>3. ASSUME Answered(c) PROVE Answered(c)'
    <3>1. PICK x \in IF PcOf(c) \in {"sendData", "finish"} THEN Tails(c) ELSE {<<>>} : Awaited(c, x)
      BY <2>3 DEF Answered
    <3>2. x \in Seq(Units)
      <4>1. x \in Tails(c) \/ x = <<>>
        BY <3>1
      <4> QED
        BY <4>1, TailTypes
    <3>3. Awaited(c, x)'
      BY <1>5, <3>1, <3>2
    <3> QED
      BY <1>2, <1>7, <1>10, <2>1, <2>3, <3>1, <3>3 DEF Answered, ServerSame
  <2>4. Finished(c) => Finished(c)'
    BY <1>6, <2>1 DEF Finished
  <2> QED
    BY <2>2, <2>3, <2>4
<1>20. OfClient(c)'
  BY <1>14, <1>15, <1>16, <1>17, <1>18, <1>19 DEF OfClient
<1> QED
  BY <1>10, <1>11, <1>20, ClientMoves

(* A recv of the server reads the token it awaits.                          *)
LEMMA ServerReceives ==
  ASSUME StreamInv, ReceiveBytes(Server)
  PROVE  StreamStep
<1> USE Apart DEF StreamInv, Base
<1>0. pc[Server] \in {"size", "body", "message"}
  BY ReceiveEffect
<1>1. PICK c \in Clients : /\ serving = c /\ c # Server /\ Peer(Server) = c
                           /\ Outward(Server) = "down" /\ Inward(Server) = "up"
                           /\ pc[Server] \in {"size", "body"}
  BY <1>0, PeerIsClient DEF Peer, Outward, Inward, ServerInv, Talking
<1>2. /\ UNCHANGED <<tokens, out, calls, fDone, conn, isOpen, serving, plain>>
      /\ \A q \in Clients : pc'[q] = pc[q] /\ inq'[q] = inq[q] /\ cbData'[q] = cbData[q]
      /\ \A x \in Clients \ {c} : net'[x] = net[x]
      /\ net'[c]["down"] = net[c]["down"]
      /\ net[c]["up"] # <<>>
  BY <1>1, ReceiveFrame
<1>3. BuffersOf(c) /\ ClientCounts(c) /\ LinkOK(c) /\ DownOK(c) /\ UpOK(c) /\ TurnOK(c)
  BY DEF OfClient
<1>4. conn[c] = "accepted" /\ Stream(Server) # <<>> /\ Served(c)
  BY <1>1, <1>2, <1>3, ReceiveNeedsSome DEF LinkOK, Served
<1>5. inq[Server] # <<>> \/ Up(c) # <<>>
  BY <1>1, <1>4, Joined DEF Stream, Behind
<1>6. Awaited(Server, <<>>)
  BY <1>1, <1>3, <1>4, <1>5 DEF UpOK
<1>7. Awaited(Server, <<>>)'
  <2>1. <<>> \in Seq(Units) /\ Server \in Procs
    OBVIOUS
  <2>2. \A x \in Seq(Units) : Awaited(Server, x) => Awaited(Server, x)'
    BY ReceiveAwaited
  <2> QED
    BY <1>6, <2>1, <2>2, Zenon
<1>8. pc'[Server] \in {"size", "body", "gen"} /\ (pc[Server] = "body" => pc'[Server] # "size")
  BY <1>1, <1>7, ReceiveBuf DEF Awaited
<1>9. ASSUME NEW x \in Clients \ {c} PROVE Own(x) /\ serving # x /\ serving' # x
  BY <1>1, <1>2 DEF Own
<1>10. Down(c)' = Down(c)
  BY <1>2 DEF Down
<1>11. /\ DownOK(c)' /\ Stream(c)' = Stream(c) /\ Tails(c)' = Tails(c)
       /\ \A x : Awaited(c, x)' <=> Awaited(c, x)
  BY <1>2, <1>3, <1>10, SameStream
<1>12. /\ Served(c)' <=> Served(c)
       /\ Alive(c)' <=> Alive(c)
  BY <1>2 DEF Served, Alive
<1>13. OfServer'
  <2>1. OfServer
    OBVIOUS
  <2>2. pc'[Server] = "gen" => inq'[Server] = Body(TokenIn(Server)')
    BY <1>7 DEF Awaited
  <2>3. BuffersOf(Server)'
    BY <1>1, <1>2, <1>8, <2>1, <2>2 DEF OfServer, BuffersOf
  <2>4. ServerCounts'
    BY <1>1, <1>2, <1>8, <2>1 DEF OfServer, ServerCounts, Talking, Agreed
  <2> QED
    BY <2>3, <2>4 DEF OfServer
<1>14. BuffersOf(c)' /\ ClientCounts(c)' /\ LinkOK(c)'
  <2>1. TokenIn(c)' = TokenIn(c)
    BY <1>1, <1>2 DEF TokenIn
  <2>2. BuffersOf(c)' /\ ClientCounts(c)'
    BY <1>1, <1>2, <1>3, <2>1 DEF BuffersOf, ClientCounts
  <2>3. LinkOK(c)'
    BY <1>2, <1>3, <1>4, <1>12 DEF LinkOK, Served
  <2> QED
    BY <2>2, <2>3
<1>15. UpOK(c)'
  BY <1>2, <1>4, <1>7, <1>8 DEF UpOK, Agreed
<1>16. TurnOK(c)'
  <2> SUFFICES ASSUME Alive(c) PROVE Asked(c)'
    BY <1>12 DEF TurnOK
  <2>1. CallsOf(c) = calls[Server] /\ CallsOf(c)' = calls[Server] /\ PcOf(c) = pc[Server]
        /\ PcOf(c)' = pc'[Server]
    BY <1>1, <1>2 DEF CallsOf, PcOf
  <2>2. Asked(c)
    BY <1>1, <1>3, <1>4, <1>5, <2>1 DEF TurnOK, Begins, Answered, Finished, Agreed
  <2> QED
    BY <1>2, <1>7, <1>8, <1>11, <2>1, <2>2 DEF Asked
<1>17. OfClient(c)'
  BY <1>11, <1>14, <1>15, <1>16 DEF OfClient
<1> QED
  BY <1>1, <1>9, <1>13, <1>17, ServerMoves

(* A call of the package, by either side: what it leaves to be sent.         *)
Calls(p, n, last) ==
    /\ pc[p] \in {"auth", "gen"}
    /\ UNCHANGED <<tokens, cbData, net, conn, isOpen, serving, plain>>
    /\ \A q \in Procs \ {p} : /\ pc'[q] = pc[q] /\ calls'[q] = calls[q] /\ fDone'[q] = fDone[q]
                              /\ inq'[q] = inq[q] /\ out'[q] = out[q]
    /\ calls'[p] = calls[p] + 1 /\ inq'[p] = <<>>
    /\ fDone'[p] <=> n >= last
    /\ \/ n <= last /\ out'[p] = Token(n) /\ pc'[p] = "send"
       \/ n > last /\ out'[p] = <<>> /\ fDone'[p] /\ pc'[p] = IF p = Server THEN "session" ELSE "message"

(* What GenClientContext and GenServerContext do with a package that        *)
(* completes no token: done is that no token is left for this side.         *)
LEMMA CallEffect ==
  ASSUME Completes = FALSE, Base, NEW p \in Procs, NEW n \in Nat, NEW last \in Nat,
         Peer(p) \in Clients, TokenOut(p) = n, Last(p) = last,
         \/ p = Server /\ GenServerContext
         \/ p \in Clients /\ GenClientContext(p)
  PROVE  Calls(p, n, last)
<1> USE Apart DEF Base
<1>1. PICK ss \in Statuses(p) :
        /\ fDone' = [fDone EXCEPT ![p] = Done(p, ss)]
        /\ out' = [out EXCEPT ![p] = SendMsg(n, last)]
        /\ pc' = [pc EXCEPT ![p] = IF SendMsg(n, last) = <<>> THEN AfterSend(p, fDone'[p]) ELSE "send"]
  BY DEF GenServerContext, GenClientContext, Goto
<1>2. /\ pc[p] \in {"auth", "gen"}
      /\ UNCHANGED <<tokens, cbData, net, conn, isOpen, serving, plain>>
      /\ calls' = [calls EXCEPT ![p] = @ + 1] /\ inq' = [inq EXCEPT ![p] = <<>>]
  BY DEF GenServerContext, GenClientContext, linkVars
<1>3. Done(p, ss) <=> n >= last
  <2>1. CASE n < last
    <3>1. Statuses(p) = {"continue"}
      BY <2>1 DEF Statuses, Expects
    <3>2. ~Done(p, ss)
      BY <3>1 DEF Done, AfterComplete
    <3> QED
      BY <2>1, <3>2
  <2>2. CASE ~(n < last)
    <3>1. Statuses(p) = {"ok"}
      BY <2>2 DEF Statuses, Expects
    <3>2. Done(p, ss)
      BY <3>1 DEF Done, AfterComplete
    <3> QED
      BY <2>2, <3>2
  <2> QED
    BY <2>1, <2>2
<1>4. SendMsg(n, last) = IF n > last THEN <<>> ELSE Token(n)
  BY SendMsgType
<1>5. Token(n) # <<>>
  BY TokenFrame
<1>6. fDone'[p] <=> n >= last
  <2>1. fDone'[p] = Done(p, ss)
    BY <1>1 DEF Types
  <2> QED
    BY <1>3, <2>1
<1>7. \A q \in Procs \ {p} : /\ pc'[q] = pc[q] /\ calls'[q] = calls[q] /\ fDone'[q] = fDone[q]
                             /\ inq'[q] = inq[q] /\ out'[q] = out[q]
  BY <1>1, <1>2 DEF Types, StreamTypes
<1>8. calls'[p] = calls[p] + 1 /\ inq'[p] = <<>>
  BY <1>2 DEF Types, StreamTypes
<1>9. CASE n <= last
  <2>1. SendMsg(n, last) = Token(n)
    BY <1>4, <1>9
  <2>2. out'[p] = Token(n) /\ pc'[p] = "send"
    BY <1>1, <1>5, <2>1 DEF Types, StreamTypes
  <2> QED
    BY <1>2, <1>6, <1>7, <1>8, <1>9, <2>2 DEF Calls
<1>10. CASE n > last
  <2>1. SendMsg(n, last) = <<>>
    BY <1>4, <1>10
  <2>2. out'[p] = <<>> /\ pc'[p] = AfterSend(p, fDone'[p])
    BY <1>1, <2>1 DEF Types, StreamTypes
  <2>3. fDone'[p]
    BY <1>6, <1>10
  <2>4. pc'[p] = IF p = Server THEN "session" ELSE "message"
    <3>1. pc[p] # "sendData"
      BY <1>2
    <3>2. AfterSend(p, fDone'[p]) = IF p = Server THEN "session" ELSE "message"
      BY <2>3, <3>1 DEF AfterSend
    <3> QED
      BY <2>2, <3>2
  <2> QED
    BY <1>2, <1>6, <1>7, <1>8, <1>10, <2>2, <2>3, <2>4 DEF Calls
<1> QED
  BY <1>9, <1>10

(* The client's call turns a token read into the next one sent.             *)
LEMMA ClientCalls ==
  ASSUME Completes = FALSE, StreamInv, NEW c \in Clients, GenClientContext(c)
  PROVE  StreamStep
<1> USE Apart DEF StreamInv, Base
<1>1. c \in Procs /\ c # Server /\ Peer(c) = c
  BY DEF Peer
<1>2. PICK m \in Nat, last \in Nat : calls[c] = m /\ tokens[c] = last /\ last > 0
  BY <1>1 DEF Types, StreamTypes
<1> DEFINE n == 2 * m + 1
<1>3. /\ pc[c] \in {"auth", "gen"}
      /\ UNCHANGED <<tokens, cbData, net, conn, isOpen, serving, plain>>
      /\ \A q \in Procs \ {c} : /\ pc'[q] = pc[q] /\ calls'[q] = calls[q] /\ fDone'[q] = fDone[q]
                                /\ inq'[q] = inq[q] /\ out'[q] = out[q]
      /\ calls'[c] = m + 1 /\ inq'[c] = <<>>
      /\ fDone'[c] <=> n >= last
      /\ \/ n <= last /\ out'[c] = Token(n) /\ pc'[c] = "send"
         \/ n > last /\ out'[c] = <<>> /\ fDone'[c] /\ pc'[c] = "message"
  <2>1. n \in Nat /\ TokenOut(c) = n /\ Last(c) = last
    BY <1>1, <1>2 DEF TokenOut, TokenIn, Last
  <2> HIDE DEF n
  <2>2. Calls(c, n, last)
    BY <1>1, <2>1, CallEffect
  <2> QED
    BY <1>1, <1>2, <2>2 DEF Calls
<1>4. BuffersOf(c) /\ ClientCounts(c) /\ LinkOK(c) /\ DownOK(c) /\ UpOK(c) /\ TurnOK(c)
  BY DEF OfClient
<1>5. out[c] = <<>> /\ conn[c] # "none" /\ Alive(c) /\ Alive(c)' /\ (pc[c] = "auth" => m = 0)
  BY <1>2, <1>3, <1>4 DEF BuffersOf, LinkOK, Alive, ClientCounts
<1>6. ServerSame /\ serving' = serving /\ tokens' = tokens
  BY <1>1, <1>3 DEF ServerSame
<1>7. ASSUME NEW x \in Clients \ {c} PROVE Own(x)
  BY <1>1, <1>3 DEF Own
<1>8. Served(c)' <=> Served(c)
  BY <1>3 DEF Served
<1>9. Down(c)' = Down(c) /\ Down(c) \in Seq(Units)
  <2>1. Down(c)' = Down(c)
    BY <1>3, <1>6 DEF Down, ServerSame
  <2>2. net[c]["down"] \in Seq(Units) /\ out[Server] \in Seq(Units)
    BY DEF StreamTypes
  <2> QED
    BY <2>1, <2>2, Joined DEF Down
<1>10. Stream(c)' = Down(c)
  <2>1. Stream(c)' = <<>> \o Down(c)
    BY <1>1, <1>3, <1>9 DEF Stream, Behind
  <2> QED
    BY <1>9, <2>1, Joined
<1>11. CallsOf(c)' = CallsOf(c) /\ PcOf(c)' = PcOf(c)
  BY <1>6 DEF CallsOf, PcOf, ServerSame
<1>12. conn[c] # "reset" => Down(c) \in Tails(c)
  <2>1. CASE pc[c] = "auth"
    <3>1. conn[c] # "reset" => inq[c] \o Down(c) = <<>>
      BY <1>1, <1>4, <2>1 DEF DownOK, Stream, Behind
    <3>2. inq[c] = <<>>
      BY <1>4, <2>1 DEF BuffersOf
    <3> QED
      BY <1>9, <3>1, <3>2, Joined, TailTypes
  <2>2. CASE pc[c] = "gen"
    BY <1>1, <1>4, <2>2 DEF DownOK, Awaited, Behind
  <2> QED
    BY <1>3, <2>1, <2>2
<1>13. n <= last => Tails(c) = {<<>>}
  BY <1>2 DEF Tails
<1>14. Tails(c) \subseteq Tails(c)'
  <2>1. Tails(c)' = {<<>>} \union (IF 2 * (m + 1) >= last THEN Messages ELSE {})
    BY <1>2, <1>3 DEF Tails
  <2>2. Tails(c) = {<<>>} \union (IF 2 * m >= last THEN Messages ELSE {})
    BY <1>2 DEF Tails
  <2> QED
    BY <2>1, <2>2
<1>15. (conn[c] = "queued" \/ Served(c)) =>
          \/ pc[c] = "auth" /\ Begins(c)
          \/ pc[c] = "gen" /\ Answered(c)
  BY <1>3, <1>4, <1>5 DEF TurnOK, Begins, Asked, Answered, Finished, Awaited
<1>16. conn[c] = "queued" \/ Served(c) => m = CallsOf(c)
  BY <1>2, <1>5, <1>15 DEF Begins, Answered
<1>17. Served(c) => PcOf(c) = pc[Server] /\ CallsOf(c) = calls[Server] /\ serving = c
  BY DEF Served, PcOf, CallsOf
<1>18. conn[c] = "queued" \/ Served(c) => PcOf(c) # "send"
  <2> SUFFICES ASSUME conn[c] = "queued" \/ Served(c), PcOf(c) = "send" PROVE FALSE
    OBVIOUS
  <2>1. serving = c /\ pc[Server] = "send"
    BY DEF PcOf
  <2>2. Answered(c)
    BY <1>15, <2>1 DEF Begins, PcOf
  <2>3. Down(c) = <<>>
    BY <1>1, <1>3, <2>1, <2>2, <1>15 DEF Answered, Awaited, Behind, PcOf, Begins
  <2>4. out[Server] = <<>>
    <3>1. net[c]["down"] \in Seq(Units) /\ out[Server] \in Seq(Units)
      BY DEF StreamTypes
    <3>2. net[c]["down"] \o out[Server] = <<>>
      BY <2>1, <2>3 DEF Down
    <3> QED
      BY <3>1, <3>2, Joined
  <2> QED
    BY <2>1, <2>4 DEF OfServer, BuffersOf
<1>19. /\ Served(c) /\ pc[Server] \in Agreed => n > last
       /\ Served(c) /\ pc[Server] = "size" => n <= last
  <2> SUFFICES ASSUME Served(c) PROVE /\ pc[Server] \in Agreed => n > last
                                      /\ pc[Server] = "size" => n <= last
    OBVIOUS
  <2>1. serving = c /\ calls[Server] = m /\ tokens[serving] = last
    BY <1>2, <1>16, <1>17
  <2>2. pc[Server] \in Talking => (fDone[Server] <=> 2 * m >= last)
    BY <2>1 DEF OfServer, ServerCounts
  <2>3. /\ pc[Server] \in Agreed => fDone[Server]
        /\ pc[Server] = "size" => ~fDone[Server]
    BY DEF OfServer, ServerCounts
  <2> QED
    BY <1>2, <2>2, <2>3 DEF Agreed, Talking
<1>20. net[c]["up"] \in Seq(Units) /\ net'[c]["up"] = net[c]["up"] /\ Up(c) = net[c]["up"]
  <2>1. net[c]["up"] \in Seq(Units)
    BY DEF StreamTypes
  <2> QED
    BY <1>3, <1>5, <2>1, Joined DEF Up
<1>21. pc'[c] = "message" => Up(c)' = Up(c)
  <2> HAVE pc'[c] = "message"
  <2>1. Up(c)' = net[c]["up"] \o <<>>
    BY <1>3, <1>20 DEF Up
  <2> QED
    BY <1>20, <2>1, Joined
<1>22. Token(n) \in Seq(Units)
  BY <1>2, TokenFrame
<1>23. pc'[c] = "send" /\ Up(c) = <<>> => Up(c)' = Token(n)
  <2> HAVE pc'[c] = "send" /\ Up(c) = <<>>
  <2>1. Up(c)' = <<>> \o Token(n)
    BY <1>3, <1>20 DEF Up
  <2> HIDE DEF n
  <2> QED
    BY <1>22, <2>1, Joined
<1>24. (conn[c] = "queued" \/ Served(c)) /\ pc'[c] = "send" => Up(c) = <<>>
  <2> SUFFICES ASSUME conn[c] = "queued" \/ Served(c), pc'[c] = "send" PROVE Up(c) = <<>>
    OBVIOUS
  <2>1. CASE pc[c] = "auth" /\ Begins(c)
    BY <2>1 DEF Begins
  <2>2. CASE pc[c] = "gen" /\ Answered(c)
    <3>1. PcOf(c) \in Agreed \union {"size"}
      BY <1>18, <2>2 DEF Answered
    <3>2. CASE PcOf(c) = "size"
      BY <2>2, <3>2 DEF Answered
    <3>3. CASE PcOf(c) \in Agreed
      <4>1. serving = c /\ conn[c] # "queued"
        BY <1>4, <3>3 DEF PcOf, LinkOK, Agreed
      <4> QED
        BY <1>2, <1>3, <1>17, <1>19, <3>3, <4>1
    <3> QED
      BY <3>1, <3>2, <3>3
  <2> QED
    BY <1>15, <2>1, <2>2
<1>25. Served(c) /\ pc'[c] = "send" /\ pc[Server] = "size" => Awaited(Server, <<>>)'
  <2> SUFFICES ASSUME Served(c), pc'[c] = "send", pc[Server] = "size" PROVE Awaited(Server, <<>>)'
    OBVIOUS
  <2>1. serving = c /\ PcOf(c) = "size" /\ calls[Server] = m
    BY <1>16, <1>17
  <2>2. inq[Server] = <<>>
    BY <1>15, <2>1 DEF Begins, Answered
  <2>3. Up(c)' = Token(n)
    BY <1>23, <1>24
  <2>4. TokenIn(Server)' = n
    BY <1>2, <1>6, <2>1 DEF TokenIn, ServerSame
  <2>5. Stream(Server)' = <<>> \o Token(n)
    BY <1>6, <2>1, <2>2, <2>3 DEF Stream, Behind, ServerSame
  <2>6. Stream(Server)' = Token(n) \o <<>>
    <3> HIDE DEF n
    <3> QED
      BY <1>22, <2>5, Joined
  <2> QED
    BY <1>6, <2>4, <2>6 DEF Awaited, ServerSame
<1>26. BuffersOf(c)' /\ ClientCounts(c)'
  <2>1. Token(n) # <<>>
    BY <1>2, TokenFrame
  <2>2. BuffersOf(c)'
    BY <1>3, <2>1 DEF BuffersOf
  <2>3. ClientCounts(c)'
    BY <1>2, <1>3, <1>4 DEF ClientCounts
  <2> QED
    BY <2>2, <2>3
<1>27. LinkOK(c)'
  BY <1>3, <1>4, <1>5, <1>8 DEF LinkOK
<1>28. DownOK(c)'
  BY <1>3, <1>10, <1>12, <1>13, <1>14 DEF DownOK
<1>29. UpOK(c)'
  <2>1. CASE conn[c] = "queued" \/ (Served(c) /\ pc[Server] = "closeListen")
    <3>1. pc[c] = "auth" /\ m = 0 /\ Up(c) = <<>>
      <4>1. PcOf(c) = "closeListen"
        BY <1>4, <2>1 DEF PcOf, LinkOK, Served
      <4> QED
        BY <1>5, <1>15, <2>1, <4>1 DEF Begins, Answered, Agreed
    <3>2. Up(c)' = Token(1)
      BY <1>2, <1>3, <1>23, <3>1
    <3>3. ~(Served(c) /\ pc[Server] # "closeListen")
      BY <2>1 DEF Served
    <3> QED
      BY <1>3, <1>6, <1>8, <3>2, <3>3 DEF UpOK, ServerSame, Agreed
  <2>2. CASE Served(c) /\ pc[Server] # "closeListen"
    <3>1. PcOf(c) = pc[Server] /\ PcOf(c) \in Agreed \union {"size"}
      BY <1>15, <1>17, <1>18, <2>2 DEF Begins, Answered
    <3>2. CASE pc[Server] = "size"
      <4>1. pc'[c] = "send"
        BY <1>3, <1>19, <2>2, <3>2
      <4> QED
        BY <1>3, <1>6, <1>8, <1>25, <2>2, <3>2, <4>1 DEF UpOK, ServerSame, Agreed, Served
    <3>3. CASE pc[Server] \in Agreed
      <4>1. pc'[c] = "message" /\ Up(c) = <<>>
        BY <1>2, <1>3, <1>4, <1>19, <2>2, <3>3 DEF UpOK
      <4> QED
        BY <1>3, <1>6, <1>8, <1>21, <2>2, <3>3, <4>1 DEF UpOK, ServerSame, Agreed, Served
    <3> QED
      BY <3>1, <3>2, <3>3
  <2>3. CASE ~(conn[c] = "queued" \/ Served(c))
    BY <1>3, <1>8, <2>3 DEF UpOK
  <2> QED
    BY <2>1, <2>2, <2>3
<1>30. TurnOK(c)'
  <2> SUFFICES ASSUME conn[c] = "queued" \/ Served(c) PROVE Asked(c)' \/ Finished(c)'
    BY <1>3, <1>8 DEF TurnOK
  <2>0. PcOf(c) \in Agreed \union {"size", "closeListen"} /\ conn[c] # "reset"
    BY <1>15, <1>18 DEF Begins, Answered, Served
  <2>1. CASE PcOf(c) \in Agreed
    <3>1. serving = c /\ pc[Server] = PcOf(c) /\ Served(c)
      BY <1>4, <2>1 DEF PcOf, LinkOK, Agreed
    <3>2. pc'[c] = "message"
      BY <1>2, <1>3, <1>19, <2>1, <3>1
    <3>3. PcOf(c) \notin {"sendData", "finish"} => Down(c) = <<>>
      BY <1>1, <1>3, <1>15, <2>1 DEF Answered, Awaited, Behind, Begins, Agreed
    <3> QED
      BY <1>10, <1>11, <2>1, <3>2, <3>3 DEF Finished
  <2>2. CASE PcOf(c) \in {"size", "closeListen"}
    <3>1. pc'[c] = "send"
      <4>1. CASE PcOf(c) = "size"
        <5>1. Served(c) /\ pc[Server] = "size"
          BY <1>4, <4>1 DEF PcOf, LinkOK
        <5> QED
          BY <1>2, <1>3, <1>19, <5>1
      <4>2. CASE PcOf(c) = "closeListen"
        <5>1. pc[c] = "auth"
          BY <1>15, <4>2 DEF Answered, Agreed
        <5> QED
          BY <1>2, <1>3, <1>5, <5>1
      <4> QED
        BY <2>2, <4>1, <4>2
    <3>2. Stream(c)' = <<>>
      BY <1>3, <1>10, <1>12, <1>13, <2>0, <3>1
    <3>3. calls'[c] = CallsOf(c) + 1
      BY <1>3, <1>16
    <3>4. PcOf(c) = "closeListen" => Up(c)' = Token(1)
      <4> HAVE PcOf(c) = "closeListen"
      <4>1. pc[c] = "auth"
        BY <1>15 DEF Answered, Agreed
      <4> QED
        BY <1>5, <1>23, <1>24, <3>1, <4>1
    <3>5. PcOf(c) = "size" => Awaited(Server, <<>>)'
      <4> HAVE PcOf(c) = "size"
      <4>1. Served(c) /\ pc[Server] = "size"
        BY <1>4 DEF PcOf, LinkOK
      <4> QED
        BY <1>25, <3>1, <4>1
    <3> QED
      BY <1>11, <2>2, <3>1, <3>2, <3>3, <3>4, <3>5 DEF Asked
  <2> QED
    BY <2>0, <2>1, <2>2
<1>31. OfClient(c)'
  BY <1>26, <1>27, <1>28, <1>29, <1>30 DEF OfClient
<1> QED
  BY <1>6, <1>7, <1>31, ClientMoves

(* The server's call does the same for the client that waits for it.        *)
LEMMA ServerCalls ==
  ASSUME Completes = FALSE, StreamInv, GenServerContext
  PROVE  StreamStep
<1> USE Apart DEF StreamInv, Base
<1>0. pc[Server] = "gen"
  BY DEF GenServerContext
<1>1. PICK c \in Clients : serving = c /\ c # Server /\ Peer(Server) = c
  BY <1>0, PeerIsClient DEF Peer
<1>2. PICK m \in Nat, last \in Nat : calls[Server] = m /\ tokens[c] = last /\ last > 0
  BY <1>1 DEF Types, StreamTypes
<1> DEFINE n == 2 * m + 2
<1>3. /\ UNCHANGED <<tokens, cbData, net, conn, isOpen, serving, plain>>
      /\ \A q \in Clients : /\ pc'[q] = pc[q] /\ calls'[q] = calls[q] /\ fDone'[q] = fDone[q]
                            /\ inq'[q] = inq[q] /\ out'[q] = out[q]
      /\ calls'[Server] = m + 1 /\ inq'[Server] = <<>>
      /\ fDone'[Server] <=> n >= last
      /\ \/ n <= last /\ out'[Server] = Token(n) /\ pc'[Server] = "send"
         \/ n > last /\ out'[Server] = <<>> /\ fDone'[Server] /\ pc'[Server] = "session"
  <2>1. n \in Nat /\ TokenOut(Server) = n /\ Last(Server) = last
    BY <1>1, <1>2 DEF TokenOut, TokenIn, Last
  <2> HIDE DEF n
  <2>2. Calls(Server, n, last)
    BY <1>1, <2>1, CallEffect
  <2> QED
    BY <1>2, <2>2 DEF Calls
<1>4. BuffersOf(c) /\ ClientCounts(c) /\ LinkOK(c) /\ DownOK(c) /\ UpOK(c) /\ TurnOK(c)
  BY DEF OfClient
<1>5. OfServer /\ out[Server] = <<>>
  BY <1>0 DEF OfServer, BuffersOf
<1>6. ASSUME NEW x \in Clients \ {c} PROVE Own(x) /\ serving # x /\ serving' # x
  BY <1>1, <1>3 DEF Own
<1>7. /\ Served(c)' <=> Served(c)
      /\ Alive(c)' <=> Alive(c)
  BY <1>3 DEF Served, Alive
<1>8. Token(n) \in Seq(Units) /\ Token(n) # <<>>
  <2>1. n \in Nat
    BY <1>2
  <2> HIDE DEF n
  <2> QED
    BY <2>1, TokenFrame
<1>9. OfServer'
  <2>1. BuffersOf(Server)'
    BY <1>3, <1>8 DEF BuffersOf
  <2>2. ServerCounts'
    BY <1>1, <1>2, <1>3 DEF ServerCounts, Talking, Agreed
  <2> QED
    BY <2>1, <2>2 DEF OfServer
<1>10. BuffersOf(c)' /\ ClientCounts(c)' /\ LinkOK(c)'
  <2>1. TokenIn(c)' = TokenIn(c)
    BY <1>1, <1>3 DEF TokenIn
  <2>2. BuffersOf(c)' /\ ClientCounts(c)'
    BY <1>1, <1>3, <1>4, <2>1 DEF BuffersOf, ClientCounts
  <2>3. LinkOK(c)'
    BY <1>3, <1>4, <1>7 DEF LinkOK
  <2> QED
    BY <2>2, <2>3
<1>11. conn[c] \in {"accepted", "reset"} /\ pc[c] # "start"
  BY <1>1, <1>4 DEF LinkOK
<1>12. Served(c) => Up(c) = <<>> /\ Up(c)' = <<>>
  <2> HAVE Served(c)
  <2>1. Awaited(Server, <<>>)
    BY <1>0, <1>4 DEF UpOK
  <2>2. Up(c) = <<>>
    BY <1>0, <1>1, <2>1 DEF Awaited, Behind
  <2> QED
    BY <1>3, <2>2 DEF Up
(* The client that has made one call more waits for this one's token.       *)
<1>13. Served(c) /\ Alive(c) =>
          /\ Asked(c) /\ calls[c] = m + 1 /\ Stream(c) = <<>>
          /\ pc[c] = IF n <= last THEN "size" ELSE "message"
  <2> HAVE Served(c) /\ Alive(c)
  <2>1. PcOf(c) = "gen" /\ CallsOf(c) = m
    BY <1>0, <1>1, <1>2 DEF PcOf, CallsOf
  <2>2. Asked(c)
    BY <1>4, <2>1 DEF TurnOK, Begins, Answered, Finished, Agreed
  <2>3. calls[c] = m + 1 /\ Stream(c) = <<>> /\ pc[c] \in {"send", "size", "message"}
    BY <2>1, <2>2 DEF Asked
  <2>4. out[c] = <<>>
    <3>1. net[c]["up"] \in Seq(Units) /\ out[c] \in Seq(Units)
      BY <1>1 DEF StreamTypes
    <3>2. net[c]["up"] \o out[c] = <<>>
      BY <1>12 DEF Up
    <3> QED
      BY <3>1, <3>2, Joined
  <2>5. pc[c] # "send"
    BY <1>4, <2>4 DEF BuffersOf
  <2>6. /\ pc[c] = "size" => 2 * (m + 1) <= last
        /\ pc[c] = "message" => 2 * (m + 1) > last
    BY <1>2, <1>4, <2>3 DEF ClientCounts
  <2> QED
    BY <1>2, <2>2, <2>3, <2>5, <2>6
<1>14. Served(c) /\ Alive(c) => inq[c] = <<>> /\ net[c]["down"] = <<>>
  <2> HAVE Served(c) /\ Alive(c)
  <2>1. inq[c] \in Seq(Units) /\ net[c]["down"] \in Seq(Units)
    BY <1>1 DEF StreamTypes
  <2>2. Stream(c) = inq[c] \o (net[c]["down"] \o <<>>)
    BY <1>1, <1>5 DEF Stream, Behind, Down
  <2>3. net[c]["down"] \o <<>> = net[c]["down"]
    BY <2>1, Joined
  <2>4. inq[c] \o net[c]["down"] = <<>>
    BY <1>13, <2>2, <2>3, Zenon
  <2> QED
    BY <2>1, <2>4, Joined
<1>15. Served(c) /\ Alive(c) => Stream(c)' = out'[Server]
  <2> HAVE Served(c) /\ Alive(c)
  <2>1. Stream(c)' = <<>> \o (<<>> \o out'[Server])
    BY <1>1, <1>3, <1>14 DEF Stream, Behind, Down
  <2>2. out'[Server] \in Seq(Units)
    <3>1. <<>> \in Seq(Units) /\ (out'[Server] = Token(n) \/ out'[Server] = <<>>)
      BY <1>3
    <3> QED
      BY <1>8, <3>1, Zenon
  <2>3. <<>> \o out'[Server] = out'[Server]
    BY <2>2, Joined
  <2> QED
    BY <2>1, <2>3, Zenon
<1>16. Served(c) /\ Alive(c) /\ n <= last => Awaited(c, <<>>)'
  <2> HAVE Served(c) /\ Alive(c) /\ n <= last
  <2>1. TokenIn(c)' = n
    BY <1>1, <1>3, <1>13 DEF TokenIn
  <2>2. Stream(c)' = Token(n)
    BY <1>2, <1>3, <1>15
  <2>3. Token(n) \o <<>> = Token(n)
    <3> HIDE DEF n
    <3> QED
      BY <1>8, Joined
  <2>4. pc'[c] = "size"
    BY <1>3, <1>13
  <2> QED
    BY <2>1, <2>2, <2>3, <2>4 DEF Awaited
<1>17. Served(c) /\ Alive(c) /\ n > last => Stream(c)' = <<>>
  BY <1>2, <1>3, <1>15
<1>18. <<>> \in Tails(c)'
  BY <1>1 DEF Tails
<1>19. DownOK(c)'
  <2>1. CASE Served(c) /\ Alive(c)
    <3>1. CASE n <= last
      BY <1>3, <1>13, <1>16, <1>18, <2>1, <3>1 DEF DownOK
    <3>2. CASE n > last
      BY <1>2, <1>3, <1>13, <1>17, <1>18, <2>1, <3>2 DEF DownOK
    <3> QED
      BY <1>2, <3>1, <3>2
  <2>2. CASE ~Served(c)
    BY <1>1, <1>3, <1>11, <2>2 DEF Served, DownOK
  <2>3. CASE ~Alive(c)
    BY <1>3, <1>11, <2>3 DEF Alive, DownOK
  <2> QED
    BY <2>1, <2>2, <2>3
<1>20. UpOK(c)'
  BY <1>3, <1>7, <1>11, <1>12 DEF UpOK, Agreed
<1>21. TurnOK(c)'
  <2> SUFFICES ASSUME Served(c), Alive(c) PROVE Answered(c)' \/ Finished(c)'
    BY <1>3, <1>7, <1>11 DEF TurnOK
  <2>1. CallsOf(c)' = m + 1 /\ PcOf(c)' = pc'[Server]
    BY <1>1, <1>3 DEF CallsOf, PcOf
  <2>2. CASE n <= last
    BY <1>2, <1>3, <1>13, <1>16, <2>1, <2>2 DEF Answered, Agreed
  <2>3. CASE n > last
    BY <1>2, <1>3, <1>13, <1>17, <2>1, <2>3 DEF Finished, Agreed
  <2> QED
    BY <1>2, <2>2, <2>3
<1>22. OfClient(c)'
  BY <1>10, <1>19, <1>20, <1>21 DEF OfClient
<1> QED
  BY <1>1, <1>6, <1>9, <1>22, ServerMoves

(* The server lets go of a connection, or of its queue.                     *)
LEMMA Released ==
  ASSUME NEW c \in Clients, OfClient(c),
         pc'[c] = pc[c], calls'[c] = calls[c], fDone'[c] = fDone[c], out'[c] = out[c],
         inq'[c] = inq[c], cbData'[c] = cbData[c], net'[c] = net[c], plain'[c] = plain[c],
         tokens'[c] = tokens[c], c \in isOpen'[c] <=> c \in isOpen[c],
         conn'[c] = IF conn[c] = "queued" THEN "reset" ELSE conn[c],
         serving' # c,
         \/ Down(c)' = Down(c)
         \/ conn'[c] = "reset"
         \/ ~Alive(c) /\ pc[c] # "start"
  PROVE  OfClient(c)'
<1> USE Apart
<1>1. BuffersOf(c) /\ ClientCounts(c) /\ LinkOK(c) /\ DownOK(c)
  BY DEF OfClient
<1>2. TokenIn(c)' = TokenIn(c) /\ (Alive(c)' <=> Alive(c))
  BY DEF TokenIn, Alive
<1>3. BuffersOf(c)' /\ ClientCounts(c)'
  BY <1>1, <1>2 DEF BuffersOf, ClientCounts
<1>4. LinkOK(c)'
  BY <1>1, <1>2 DEF LinkOK, Served
<1>5. DownOK(c)'
  <2>1. CASE Down(c)' = Down(c) /\ conn'[c] = conn[c]
    BY <1>1, <2>1, SameStream
  <2>2. CASE conn'[c] = "reset"
    BY <2>2 DEF DownOK
  <2>3. CASE ~Alive(c) /\ pc[c] # "start"
    BY <2>3 DEF DownOK, Alive
  <2> QED
    BY <2>1, <2>2, <2>3
<1>6. UpOK(c)' /\ TurnOK(c)'
  BY DEF UpOK, TurnOK, Served
<1> QED
  BY <1>3, <1>4, <1>5, <1>6 DEF OfClient

(* Nobody is served while the server goes to accept.                        *)
LEMMA ListenStep ==
  ASSUME StreamInv, Listen
  PROVE  StreamStep
<1> USE Apart DEF StreamInv, Base
<1>1. /\ serving = None /\ pc[Server] = "listen" /\ pc'[Server] = "accept"
      /\ \A c \in Clients : pc'[c] = pc[c]
      /\ UNCHANGED <<tokens, calls, fDone, out, inq, cbData, net, conn, isOpen, serving, plain>>
  BY DEF Listen, Goto, Types, ServerInv, Talking, secVars, ioVars, linkVars
<1>2. ASSUME NEW c \in Clients PROVE OfClient(c)'
  <2>1. Own(c)
    BY <1>1 DEF Own
  <2> QED
    BY <1>1, <2>1, Untouched
<1>3. OfServer'
  <2>0. out[Server] = <<>> /\ inq[Server] = <<>>
    BY <1>1 DEF OfServer, BuffersOf
  <2>1. out'[Server] = <<>> /\ inq'[Server] = <<>> /\ pc'[Server] = "accept"
    BY <1>1, <2>0
  <2>2. BuffersOf(Server)'
    BY <2>1 DEF BuffersOf
  <2>3. ServerCounts'
    BY <1>1 DEF ServerCounts, Talking, Agreed
  <2> QED
    BY <2>2, <2>3 DEF OfServer
<1> QED
  BY <1>2, <1>3 DEF StreamStep

(* Accept takes over the connection as the queue held it.                   *)
LEMMA AcceptStep ==
  ASSUME StreamInv, Accept
  PROVE  StreamStep
<1> USE Apart DEF StreamInv, Base
<1>1. PICK c \in Clients : /\ conn[c] = "queued" /\ conn' = [conn EXCEPT ![c] = "accepted"]
                           /\ serving' = c
  BY DEF Accept
<1>2. /\ serving = None /\ pc[Server] = "accept" /\ pc'[Server] = "closeListen"
      /\ \A x \in Clients : pc'[x] = pc[x]
      /\ UNCHANGED <<tokens, calls, fDone, out, inq, cbData, net, isOpen, plain>>
  BY DEF Accept, Goto, Types, ServerInv, Talking, secVars, ioVars
<1>3. conn'[c] = "accepted" /\ \A x \in Clients \ {c} : conn'[x] = conn[x]
  BY <1>1 DEF Types
<1>4. calls[Server] = 0 /\ out[Server] = <<>> /\ inq[Server] = <<>>
  BY <1>2 DEF ServerInv, Talking, OfServer, BuffersOf
<1>5. BuffersOf(c) /\ ClientCounts(c) /\ LinkOK(c) /\ DownOK(c) /\ UpOK(c) /\ TurnOK(c)
  BY DEF OfClient
<1>6. ASSUME NEW x \in Clients \ {c} PROVE Own(x) /\ serving # x /\ serving' # x
  BY <1>1, <1>2, <1>3 DEF Own
<1>7. Up(c)' = Up(c) /\ Down(c)' = Down(c)
  BY <1>1, <1>2, <1>4, Joined DEF Up, Down
<1>8. /\ Stream(c)' = Stream(c) /\ Tails(c)' = Tails(c)
      /\ \A x : Awaited(c, x)' <=> Awaited(c, x)
  BY <1>2, <1>7, SameStream
<1>9. OfServer'
  BY <1>2 DEF OfServer, BuffersOf, ServerCounts, Talking, Agreed
<1>10. TokenIn(c)' = TokenIn(c) /\ (Alive(c)' <=> Alive(c)) /\ Served(c)' /\ ~Served(c)
  BY <1>1, <1>2, <1>3 DEF TokenIn, Alive, Served
<1>11. BuffersOf(c)' /\ ClientCounts(c)'
  BY <1>2, <1>5, <1>10 DEF BuffersOf, ClientCounts
<1>12. LinkOK(c)'
  BY <1>1, <1>2, <1>3, <1>5, <1>10 DEF LinkOK
<1>13. DownOK(c)'
  BY <1>1, <1>2, <1>5, <1>8 DEF DownOK
<1>14. UpOK(c)'
  BY <1>1, <1>2, <1>5, <1>7 DEF UpOK, Agreed
<1>15. TurnOK(c)'
  <2> SUFFICES ASSUME Alive(c) PROVE Begins(c)' \/ Asked(c)'
    BY <1>10 DEF TurnOK
  <2>1. CallsOf(c) = 0 /\ CallsOf(c)' = 0 /\ PcOf(c) = "closeListen" /\ PcOf(c)' = "closeListen"
    BY <1>1, <1>2, <1>4 DEF CallsOf, PcOf
  <2>2. Begins(c) \/ Asked(c)
    BY <1>1, <1>5, <2>1 DEF TurnOK, Answered, Finished, Agreed
  <2> QED
    BY <1>2, <1>7, <1>8, <2>1, <2>2 DEF Begins, Asked
<1>16. OfClient(c)'
  BY <1>11, <1>12, <1>13, <1>14, <1>15 DEF OfClient
<1> QED
  BY <1>6, <1>9, <1>16, ServerMoves

(* Closing the listening socket resets the queue; the conversation starts   *)
(* with what its client has sent by now.                                    *)
LEMMA CloseListenStep ==
  ASSUME StreamInv, CloseListen
  PROVE  StreamStep
<1> USE Apart DEF StreamInv, Base
<1>0. /\ pc[Server] = "closeListen" /\ pc'[Server] = "size" /\ inq'[Server] = <<>> /\ ~fDone'[Server]
      /\ UNCHANGED <<tokens, calls, out, cbData, net, isOpen, serving, plain>>
      /\ \A x \in Clients : /\ pc'[x] = pc[x] /\ fDone'[x] = fDone[x] /\ inq'[x] = inq[x]
                            /\ conn'[x] = IF conn[x] = "queued" THEN "reset" ELSE conn[x]
  BY DEF CloseListen, Goto, Types, StreamTypes, ResetQueue
<1>1. PICK c \in Clients : serving = c /\ c # Server
  BY <1>0 DEF ServerInv, Talking
<1>2. calls[Server] = 0 /\ out[Server] = <<>> /\ inq[Server] = <<>>
  BY <1>0 DEF ServerInv, Talking, OfServer, BuffersOf
<1>3. BuffersOf(c) /\ ClientCounts(c) /\ LinkOK(c) /\ DownOK(c) /\ UpOK(c) /\ TurnOK(c)
  BY DEF OfClient
<1>4. conn[c] \in {"accepted", "reset"} /\ conn'[c] = conn[c]
  BY <1>0, <1>1, <1>3 DEF LinkOK
<1>5. ASSUME NEW x \in Clients \ {c} PROVE OfClient(x)'
  <2>1. Down(x)' = Down(x)
    BY <1>0, <1>1 DEF Down
  <2>2. serving' # x /\ OfClient(x)
    BY <1>0, <1>1
  <2> QED
    BY <1>0, <2>1, <2>2, Released
<1>6. OfServer'
  <2>1. BuffersOf(Server)'
    BY <1>0, <1>2 DEF BuffersOf
  <2>2. ServerCounts'
    BY <1>0, <1>1, <1>2 DEF ServerCounts, Talking, Agreed, StreamTypes
  <2> QED
    BY <2>1, <2>2 DEF OfServer
<1>7. Up(c)' = Up(c) /\ Down(c)' = Down(c)
  BY <1>0 DEF Up, Down
<1>8. /\ Stream(c)' = Stream(c) /\ Tails(c)' = Tails(c) /\ DownOK(c)'
      /\ \A x : Awaited(c, x)' <=> Awaited(c, x)
  BY <1>0, <1>3, <1>4, <1>7, SameStream
<1>9. TokenIn(c)' = TokenIn(c) /\ (Alive(c)' <=> Alive(c)) /\ (Served(c)' <=> Served(c))
  BY <1>0, <1>1, <1>4 DEF TokenIn, Alive, Served
<1>10. BuffersOf(c)' /\ ClientCounts(c)' /\ LinkOK(c)'
  <2>1. BuffersOf(c)' /\ ClientCounts(c)'
    BY <1>0, <1>1, <1>3, <1>9 DEF BuffersOf, ClientCounts
  <2>2. LinkOK(c)'
    BY <1>0, <1>3, <1>4, <1>9 DEF LinkOK
  <2> QED
    BY <2>1, <2>2
<1>11. Up(c) = Token(1) => Awaited(Server, <<>>)'
  <2> HAVE Up(c) = Token(1)
  <2>1. Token(1) \in Seq(Units)
    BY TokenFrame
  <2>2. TokenIn(Server)' = 1
    BY <1>0, <1>2 DEF TokenIn
  <2>3. Stream(Server)' = <<>> \o Token(1)
    BY <1>0, <1>1, <1>7 DEF Stream, Behind
  <2>4. Stream(Server)' = Token(1) \o <<>>
    BY <2>1, <2>3, Joined
  <2> QED
    BY <1>0, <2>2, <2>4 DEF Awaited
<1>12. Served(c) => Up(c) \in {<<>>, Token(1)}
  BY <1>0, <1>3 DEF UpOK
<1>13. UpOK(c)'
  BY <1>0, <1>4, <1>7, <1>9, <1>11, <1>12 DEF UpOK, Agreed
<1>14. TurnOK(c)'
  <2> SUFFICES ASSUME Served(c), Alive(c) PROVE Begins(c)' \/ Asked(c)'
    BY <1>4, <1>9 DEF TurnOK
  <2>1. CallsOf(c) = 0 /\ CallsOf(c)' = 0 /\ PcOf(c) = "closeListen" /\ PcOf(c)' = "size"
    BY <1>0, <1>1, <1>2 DEF CallsOf, PcOf
  <2>2. Begins(c) \/ Asked(c)
    BY <1>3, <2>1 DEF TurnOK, Answered, Finished, Agreed
  <2> QED
    BY <1>0, <1>7, <1>8, <1>11, <2>1, <2>2 DEF Begins, Asked
<1>15. OfClient(c)'
  BY <1>8, <1>10, <1>13, <1>14 DEF OfClient
<1> QED
  BY <1>5, <1>6, <1>15 DEF StreamStep

(* Impersonating moves nothing.                                             *)
LEMMA ImpersonateStep ==
  ASSUME StreamInv, Impersonate
  PROVE  StreamStep
<1> USE Apart DEF StreamInv, Base
<1>0. /\ pc[Server] = "session" /\ pc'[Server] = "name"
      /\ UNCHANGED <<tokens, calls, fDone, out, inq, cbData, net, conn, isOpen, serving, plain>>
      /\ \A x \in Clients : pc'[x] = pc[x]
  BY DEF Impersonate, Goto, Types, secVars, ioVars, linkVars
<1>1. PICK c \in Clients : serving = c /\ c # Server
  BY <1>0 DEF ServerInv, Talking
<1>2. BuffersOf(c) /\ ClientCounts(c) /\ LinkOK(c) /\ DownOK(c) /\ UpOK(c) /\ TurnOK(c)
  BY DEF OfClient
<1>3. ASSUME NEW x \in Clients \ {c} PROVE Own(x) /\ serving # x /\ serving' # x
  BY <1>0, <1>1 DEF Own
<1>4. OfServer'
  <2>1. out[Server] = <<>> /\ inq[Server] = <<>>
    BY <1>0 DEF OfServer, BuffersOf
  <2>2. BuffersOf(Server)'
    BY <1>0, <2>1 DEF BuffersOf
  <2>3. ServerCounts'
    BY <1>0 DEF OfServer, ServerCounts, Talking, Agreed
  <2> QED
    BY <2>2, <2>3 DEF OfServer
<1>5. Up(c)' = Up(c) /\ Down(c)' = Down(c)
  BY <1>0 DEF Up, Down
<1>6. /\ Stream(c)' = Stream(c) /\ Tails(c)' = Tails(c) /\ DownOK(c)'
      /\ \A x : Awaited(c, x)' <=> Awaited(c, x)
  BY <1>0, <1>2, <1>5, SameStream
<1>7. TokenIn(c)' = TokenIn(c) /\ (Alive(c)' <=> Alive(c)) /\ (Served(c)' <=> Served(c))
  BY <1>0, <1>1 DEF TokenIn, Alive, Served
<1>8. BuffersOf(c)' /\ ClientCounts(c)' /\ LinkOK(c)'
  <2>1. BuffersOf(c)' /\ ClientCounts(c)'
    BY <1>0, <1>2, <1>7 DEF BuffersOf, ClientCounts
  <2>2. LinkOK(c)'
    BY <1>0, <1>2, <1>7 DEF LinkOK
  <2> QED
    BY <2>1, <2>2
<1>9. UpOK(c)'
  BY <1>0, <1>1, <1>2, <1>5, <1>7 DEF UpOK, Agreed, LinkOK
<1>10. TurnOK(c)'
  <2> SUFFICES ASSUME Served(c), Alive(c) PROVE Answered(c)' \/ Finished(c)'
    BY <1>0, <1>1, <1>2, <1>7 DEF TurnOK, LinkOK
  <2>1. CallsOf(c)' = CallsOf(c) /\ PcOf(c) = "session" /\ PcOf(c)' = "name"
    BY <1>0, <1>1 DEF CallsOf, PcOf
  <2>2. Answered(c) \/ Finished(c)
    BY <1>2, <2>1 DEF TurnOK, Begins, Asked
  <2>3. Answered(c) => Answered(c)'
    BY <1>0, <1>6, <2>1 DEF Answered, Agreed
  <2>4. Finished(c) => Finished(c)'
    BY <1>0, <1>6, <2>1 DEF Finished, Agreed
  <2> QED
    BY <2>2, <2>3, <2>4
<1>11. OfClient(c)'
  BY <1>6, <1>8, <1>9, <1>10 DEF OfClient
<1> QED
  BY <1>1, <1>3, <1>4, <1>11, ServerMoves

(* The message behind what is awaited.                                      *)
LEMMA MessageBehind ==
  ASSUME StreamInv, NEW c \in Clients, NEW x \in Seq(Units), Awaited(c, <<>>),
         pc'[c] = pc[c], inq'[c] = inq[c], cbData'[c] = cbData[c], calls'[c] = calls[c],
         Behind(c) \in Seq(Units), Behind(c)' = Behind(c) \o x
  PROVE  Awaited(c, x)'
<1> USE Apart DEF StreamInv, Base
<1>1. c # Server /\ TokenIn(c)' = TokenIn(c) /\ TokenIn(c) \in Nat
  BY DEF TokenIn, Types
<1>2. Token(TokenIn(c)) \in Seq(Units) /\ Body(TokenIn(c)) \in Seq(Units)
  <2> DEFINE t == TokenIn(c)
  <2>1. t \in Nat
    BY <1>1
  <2> HIDE DEF t
  <2>2. Token(t) \in Seq(Units) /\ Body(t) \in Seq(Units)
    BY <2>1, TokenFrame
  <2> QED
    BY <2>2 DEF t
<1> DEFINE i == inq[c]
           b == Behind(c)
<1>3. i \in Seq(Units) /\ b \in Seq(Units)
  BY DEF StreamTypes
<1>4. Stream(c)' = i \o (b \o x) /\ Stream(c) = i \o b
  BY <1>1 DEF Stream
<1> HIDE DEF i, b
<1>5. (i \o b) \o x = i \o (b \o x)
  BY <1>3, Assoc
<1>6. Stream(c)' = Stream(c) \o x
  BY <1>4, <1>5, Zenon
<1>7. CASE pc[c] = "size"
  <2>1. Stream(c) = Token(TokenIn(c)) \o <<>>
    BY <1>7 DEF Awaited
  <2>2. Token(TokenIn(c)) \o <<>> = Token(TokenIn(c))
    BY <1>2, Joined
  <2>3. Stream(c)' = Token(TokenIn(c)) \o x
    BY <1>6, <2>1, <2>2, Zenon
  <2> QED
    BY <1>1, <1>7, <2>3 DEF Awaited
<1>8. CASE pc[c] = "body"
  <2>1. Stream(c) = Body(TokenIn(c)) \o <<>> /\ cbData[c] = TokenLen(TokenIn(c))
    BY <1>8 DEF Awaited
  <2>2. Body(TokenIn(c)) \o <<>> = Body(TokenIn(c))
    BY <1>2, Joined
  <2>3. Stream(c)' = Body(TokenIn(c)) \o x
    BY <1>6, <2>1, <2>2, Zenon
  <2> QED
    BY <1>1, <1>8, <2>1, <2>3 DEF Awaited
<1>9. CASE pc[c] = "gen"
  <2>1. inq[c] = Body(TokenIn(c)) /\ b = <<>> /\ Behind(c)' = b \o x
    BY <1>9 DEF Awaited, b
  <2>2. Behind(c)' = x
    BY <2>1, Joined
  <2> QED
    BY <1>1, <1>9, <2>1, <2>2 DEF Awaited
<1> QED
  BY <1>7, <1>8, <1>9 DEF Awaited

(* The message goes behind the last token, or is the whole stream.          *)
LEMMA EncryptStep ==
  ASSUME StreamInv, RevertAndEncrypt
  PROVE  StreamStep
<1> USE Apart DEF StreamInv, Base
<1>0. /\ pc[Server] = "name"
      /\ UNCHANGED <<tokens, calls, fDone, inq, cbData, net, conn, isOpen, serving, plain>>
      /\ \A x \in Clients : pc'[x] = pc[x] /\ out'[x] = out[x]
  BY DEF RevertAndEncrypt, Goto, Types, StreamTypes, secVars, linkVars
<1>1. PICK c \in Clients : serving = c /\ c # Server
  BY <1>0 DEF ServerInv, Talking
<1>2. PICK x \in Seq(Units) :
        /\ out'[Server] = x
        /\ \/ x = <<>> /\ pc'[Server] = "finish"
           \/ x \in Messages /\ x # <<>> /\ pc'[Server] = "sendData"
  <2>1. CASE out' = [out EXCEPT ![Server] = <<>>] /\ pc' = [pc EXCEPT ![Server] = "finish"]
    <3>1. out'[Server] = <<>> /\ pc'[Server] = "finish" /\ <<>> \in Seq(Units)
      BY <2>1 DEF Types, StreamTypes
    <3> QED
      BY <3>1
  <2>2. CASE \E a \in 1..MaxTrailer : /\ out' = [out EXCEPT ![Server] = EncryptThis(a)]
                                      /\ pc' = [pc EXCEPT ![Server] = "sendData"]
    <3>1. PICK a \in 1..MaxTrailer : /\ out' = [out EXCEPT ![Server] = EncryptThis(a)]
                                     /\ pc' = [pc EXCEPT ![Server] = "sendData"]
      BY <2>2
    <3>2. EncryptThis(a) \in Messages /\ EncryptThis(a) \in Seq(Units) /\ EncryptThis(a) # <<>>
      BY MessageFrame DEF Messages
    <3>3. out'[Server] = EncryptThis(a) /\ pc'[Server] = "sendData"
      BY <3>1 DEF Types, StreamTypes
    <3> QED
      BY <3>2, <3>3
  <2> QED
    BY <2>1, <2>2 DEF RevertAndEncrypt, Goto
<1>3. BuffersOf(c) /\ ClientCounts(c) /\ LinkOK(c) /\ DownOK(c) /\ UpOK(c) /\ TurnOK(c)
  BY DEF OfClient
<1>4. ASSUME NEW y \in Clients \ {c} PROVE Own(y) /\ serving # y /\ serving' # y
  BY <1>0, <1>1 DEF Own
<1>5. out[Server] = <<>> /\ inq[Server] = <<>>
  BY <1>0 DEF OfServer, BuffersOf
<1>6. OfServer'
  <2>1. BuffersOf(Server)'
    BY <1>0, <1>2, <1>5 DEF BuffersOf
  <2>2. ServerCounts'
    BY <1>0, <1>2 DEF OfServer, ServerCounts, Talking, Agreed
  <2> QED
    BY <2>1, <2>2 DEF OfServer
<1> DEFINE d == net[c]["down"]
           i == inq[c]
<1>7. d \in Seq(Units) /\ i \in Seq(Units)
  BY <1>1 DEF StreamTypes
<1>8. Down(c) = d /\ Down(c)' = d \o x
  <2>1. Down(c) = d \o <<>> /\ Down(c)' = d \o x
    BY <1>0, <1>1, <1>2, <1>5 DEF Down
  <2> HIDE DEF d
  <2> QED
    BY <1>7, <2>1, Joined
<1>9. Stream(c) = i \o d /\ Stream(c)' = i \o (d \o x)
  BY <1>0, <1>1, <1>8 DEF Stream, Behind
<1> HIDE DEF d, i
<1>10. Stream(c) = <<>> => Stream(c)' = x
  <2> HAVE Stream(c) = <<>>
  <2>1. i = <<>> /\ d = <<>>
    BY <1>7, <1>9, Joined
  <2>2. Stream(c)' = <<>> \o (<<>> \o x)
    BY <1>9, <2>1
  <2>3. <<>> \o x = x
    BY Joined
  <2> QED
    BY <2>2, <2>3, Zenon
<1>11. TokenIn(c)' = TokenIn(c) /\ (Alive(c)' <=> Alive(c)) /\ (Served(c)' <=> Served(c))
       /\ Tails(c)' = Tails(c) /\ Up(c)' = Up(c)
  BY <1>0, <1>1 DEF TokenIn, Alive, Served, Tails, Up
<1>12. conn[c] \in {"accepted", "reset"} /\ pc[c] # "start"
  BY <1>1, <1>3 DEF LinkOK
<1>13. CallsOf(c)' = CallsOf(c) /\ CallsOf(c) = calls[Server] /\ PcOf(c) = "name"
       /\ PcOf(c)' = pc'[Server]
  BY <1>0, <1>1 DEF CallsOf, PcOf
<1>14. Served(c) /\ Alive(c) => Answered(c) \/ Finished(c)
  BY <1>3, <1>13 DEF TurnOK, Begins, Asked
<1>15. Served(c) /\ Alive(c) => x \in Tails(c)
  <2> SUFFICES ASSUME Served(c), Alive(c), x # <<>> PROVE x \in Tails(c)
    BY DEF Tails
  <2>1. 2 * calls[c] >= tokens[c]
    <3>0. calls[c] \in Nat /\ tokens[c] \in Nat
      BY DEF Types
    <3>1. CASE Answered(c)
      <4>1. calls[c] = calls[Server]
        BY <1>13, <3>1 DEF Answered
      <4> QED
        BY <1>0, <1>1, <4>1 DEF OfServer, ServerCounts, Talking, Agreed
    <3>2. CASE Finished(c)
      <4>1. fDone[c]
        BY <1>3, <3>2 DEF Finished, ClientCounts
      <4> QED
        BY <1>3, <3>0, <4>1 DEF ClientCounts
    <3> QED
      BY <1>14, <3>1, <3>2
  <2> QED
    BY <1>2, <2>1 DEF Tails
<1>16. Answered(c) => pc[c] \in {"size", "body", "gen"} /\ Awaited(c, <<>>) /\ Awaited(c, x)'
  <2> HAVE Answered(c)
  <2>1. Awaited(c, <<>>)
    BY <1>13 DEF Answered
  <2>2. Behind(c) \in Seq(Units) /\ Behind(c)' = Behind(c) \o x
    BY <1>1, <1>7, <1>8 DEF Behind
  <2>3. Awaited(c, x)'
    BY <1>0, <2>1, <2>2, MessageBehind
  <2> QED
    BY <2>1, <2>3 DEF Awaited
<1>17. Finished(c) => Stream(c)' = x
  BY <1>10, <1>13 DEF Finished
<1>18. BuffersOf(c)' /\ ClientCounts(c)' /\ LinkOK(c)'
  <2>1. BuffersOf(c)' /\ ClientCounts(c)'
    BY <1>0, <1>1, <1>3, <1>11 DEF BuffersOf, ClientCounts
  <2>2. LinkOK(c)'
    BY <1>0, <1>3, <1>11 DEF LinkOK
  <2> QED
    BY <2>1, <2>2
<1>19. DownOK(c)'
  <2>1. CASE Served(c) /\ Alive(c) /\ Answered(c)
    BY <1>0, <1>11, <1>15, <1>16, <2>1 DEF DownOK
  <2>2. CASE Served(c) /\ Alive(c) /\ Finished(c)
    BY <1>0, <1>11, <1>15, <1>17, <2>2 DEF DownOK, Finished
  <2>3. CASE ~Served(c)
    BY <1>0, <1>1, <1>12, <2>3 DEF Served, DownOK
  <2>4. CASE ~Alive(c)
    BY <1>0, <1>12, <2>4 DEF Alive, DownOK
  <2> QED
    BY <1>14, <2>1, <2>2, <2>3, <2>4
<1>20. UpOK(c)'
  BY <1>0, <1>2, <1>3, <1>11, <1>12 DEF UpOK, Agreed
<1>21. TurnOK(c)'
  <2> SUFFICES ASSUME Served(c), Alive(c) PROVE Answered(c)' \/ Finished(c)'
    BY <1>0, <1>11, <1>12 DEF TurnOK
  <2>1. Answered(c) => Answered(c)'
    BY <1>0, <1>2, <1>11, <1>13, <1>15, <1>16 DEF Answered, Agreed
  <2>2. Finished(c) => Finished(c)'
    BY <1>0, <1>2, <1>13, <1>17 DEF Finished, Agreed
  <2> QED
    BY <1>14, <2>1, <2>2
<1>22. OfClient(c)'
  BY <1>18, <1>19, <1>20, <1>21 DEF OfClient
<1> QED
  BY <1>1, <1>4, <1>6, <1>22, ServerMoves

(* The end of the loop's body leaves the client what is on its way.         *)
LEMMA FinishStep ==
  ASSUME StreamInv, Finish
  PROVE  StreamStep
<1> USE Apart DEF StreamInv, Base
<1>0. /\ pc[Server] = "finish" /\ pc'[Server] = "listen" /\ serving' = None
      /\ UNCHANGED <<tokens, fDone, out, inq, cbData, net, conn, plain>>
      /\ \A x \in Clients : pc'[x] = pc[x] /\ calls'[x] = calls[x]
  BY DEF Finish, Goto, Types, StreamTypes, ioVars
<1>1. PICK c \in Clients : serving = c /\ c # Server
  BY <1>0 DEF ServerInv, Talking
<1>2. isOpen'[c] = isOpen[c] \ {Server} /\ \A x \in Clients \ {c} : isOpen'[x] = isOpen[x]
  BY <1>1 DEF Finish, Types
<1>3. out[Server] = <<>> /\ inq[Server] = <<>>
  BY <1>0 DEF OfServer, BuffersOf
<1>4. OfServer'
  <2>1. out'[Server] = <<>> /\ inq'[Server] = <<>>
    BY <1>0, <1>3
  <2>2. BuffersOf(Server)'
    BY <1>0, <2>1 DEF BuffersOf
  <2>3. ServerCounts'
    BY <1>0 DEF ServerCounts, Talking, Agreed
  <2> QED
    BY <2>2, <2>3 DEF OfServer
<1>5. ASSUME NEW x \in Clients \ {c} PROVE OfClient(x)'
  <2>1. Own(x)
    BY <1>0, <1>2 DEF Own
  <2>2. serving # x /\ serving' # x
    BY <1>0, <1>1
  <2> QED
    BY <2>1, <2>2, Untouched
<1>6. OfClient(c)'
  <2>1. OfClient(c) /\ conn[c] # "queued"
    BY <1>1 DEF OfClient, LinkOK
  <2>2. Down(c)' = Down(c)
    BY <1>0, <1>1, <1>3 DEF Down
  <2>3. c \in isOpen'[c] <=> c \in isOpen[c]
    BY <1>1, <1>2
  <2>4. serving' # c
    BY <1>0
  <2> QED
    BY <1>0, <2>1, <2>2, <2>3, <2>4, Released
<1> QED
  BY <1>4, <1>5, <1>6 DEF StreamStep

(* So does the end of the server, which had sent all unless nobody reads.   *)
LEMMA CleanupStep ==
  ASSUME StreamInv, cleanup,
         pc[Server] \in Sending => ~PeerHere(Server)
  PROVE  StreamStep
<1> USE Apart DEF StreamInv, Base
<1>0. /\ pc'[Server] = "down" /\ serving' = None /\ out'[Server] = <<>> /\ inq'[Server] = <<>>
      /\ UNCHANGED <<tokens, net, plain>>
      /\ \A x \in Clients : /\ pc'[x] = pc[x] /\ calls'[x] = calls[x] /\ fDone'[x] = fDone[x]
                            /\ out'[x] = out[x] /\ inq'[x] = inq[x] /\ cbData'[x] = cbData[x]
                            /\ isOpen'[x] = isOpen[x] \ {Server}
                            /\ conn'[x] = IF conn[x] = "queued" THEN "reset" ELSE conn[x]
  BY DEF cleanup, Forget, Goto, ResetQueue, Types, StreamTypes
<1>1. OfServer'
  <2>1. BuffersOf(Server)'
    BY <1>0 DEF BuffersOf
  <2>2. ServerCounts'
    BY <1>0 DEF ServerCounts, Talking, Agreed
  <2> QED
    BY <2>1, <2>2 DEF OfServer
<1>2. ASSUME NEW c \in Clients PROVE OfClient(c)'
  <2>1. OfClient(c) /\ LinkOK(c) /\ c # Server /\ serving' # c
    BY <1>0 DEF OfClient
  <2>2. c \in isOpen'[c] <=> c \in isOpen[c]
    BY <1>0, <2>1
  <2>3. CASE serving = c /\ pc[Server] \in Sending
    <3>1. conn[c] = "reset" \/ c \notin isOpen[c]
      BY <2>3 DEF PeerHere, Peer, Others, LinkOK
    <3>2. conn'[c] = "reset" \/ (~Alive(c) /\ pc[c] # "start")
      BY <1>0, <2>1, <2>3, <3>1 DEF LinkOK
    <3> QED
      BY <1>0, <2>1, <2>2, <3>2, Released
  <2>4. CASE ~(serving = c /\ pc[Server] \in Sending)
    <3>1. serving = c => out[Server] = <<>>
      BY <2>4 DEF OfServer, BuffersOf, Sending
    <3>2. Down(c)' = Down(c)
      BY <1>0, <2>1, <3>1 DEF Down
    <3> QED
      BY <1>0, <2>1, <2>2, <3>2, Released
  <2> QED
    BY <2>3, <2>4
<1> QED
  BY <1>1, <1>2 DEF StreamStep

(* A connection starts with nothing on its way.                             *)
LEMMA ConnectStep ==
  ASSUME StreamInv, NEW c \in Clients, ConnectAuthSocket(c)
  PROVE  StreamStep
<1> USE Apart DEF StreamInv, Base
<1>0. /\ pc[c] = "start" /\ pc'[c] = "auth" /\ conn'[c] = "queued" /\ isOpen'[c] = {c, Server}
      /\ UNCHANGED <<tokens, calls, fDone, out, inq, cbData, net, serving, plain>>
      /\ \A q \in Procs \ {c} : pc'[q] = pc[q]
      /\ \A x \in Clients \ {c} : conn'[x] = conn[x] /\ isOpen'[x] = isOpen[x]
  BY DEF ConnectAuthSocket, Goto, Types, secVars, ioVars
<1>1. BuffersOf(c) /\ ClientCounts(c) /\ LinkOK(c) /\ c # Server
  BY DEF OfClient
<1>2. /\ conn[c] = "none" /\ net[c]["up"] = <<>> /\ net[c]["down"] = <<>> /\ serving # c
      /\ out[c] = <<>> /\ inq[c] = <<>>
  BY <1>0, <1>1 DEF LinkOK, BuffersOf
<1>3. ServerSame /\ serving' = serving /\ tokens' = tokens
  BY <1>0, <1>1 DEF ServerSame
<1>4. ASSUME NEW x \in Clients \ {c} PROVE Own(x)
  BY <1>0 DEF Own
<1>5. Up(c)' = <<>> /\ Stream(c)' = <<>>
  <2>1. Up(c)' = <<>> \o <<>> /\ Stream(c)' = <<>> \o (<<>> \o <<>>)
    BY <1>0, <1>1, <1>2 DEF Up, Stream, Behind, Down
  <2>2. <<>> \o <<>> = <<>>
    OBVIOUS
  <2> QED
    BY <2>1, <2>2, Zenon
<1>6. BuffersOf(c)' /\ ClientCounts(c)'
  BY <1>0, <1>1, <1>2 DEF BuffersOf, ClientCounts
<1>7. LinkOK(c)'
  BY <1>0, <1>1, <1>2 DEF LinkOK, Served, Alive
<1>8. DownOK(c)'
  BY <1>0, <1>5 DEF DownOK
<1>9. UpOK(c)'
  BY <1>0, <1>2, <1>5 DEF UpOK, Served
<1>10. TurnOK(c)'
  <2>1. CallsOf(c)' = 0 /\ PcOf(c)' = "closeListen"
    BY <1>0, <1>2 DEF CallsOf, PcOf
  <2> QED
    BY <1>0, <1>5, <2>1 DEF TurnOK, Begins
<1>11. OfClient(c)'
  BY <1>6, <1>7, <1>8, <1>9, <1>10 DEF OfClient
<1> QED
  BY <1>3, <1>4, <1>11, ClientMoves

(* A client that ends: its peer still reads what it had sent.               *)
LEMMA EndStep ==
  ASSUME StreamInv, NEW c \in Clients, MyHandleError(c),
         pc[c] \in Sending => ~PeerHere(c)
  PROVE  StreamStep
<1> USE Apart DEF StreamInv, Base
<1>0. /\ pc'[c] = "failed" /\ calls'[c] = 0 /\ ~fDone'[c] /\ out'[c] = <<>> /\ inq'[c] = <<>>
      /\ isOpen'[c] = isOpen[c] \ {c}
      /\ UNCHANGED <<tokens, net, conn, serving, plain>>
      /\ \A q \in Procs \ {c} : /\ pc'[q] = pc[q] /\ calls'[q] = calls[q] /\ fDone'[q] = fDone[q]
                                /\ out'[q] = out[q] /\ inq'[q] = inq[q] /\ cbData'[q] = cbData[q]
      /\ \A x \in Clients \ {c} : isOpen'[x] = isOpen[x]
  BY DEF MyHandleError, Forget, Goto, Types, StreamTypes
<1>1. BuffersOf(c) /\ ClientCounts(c) /\ LinkOK(c) /\ UpOK(c) /\ c # Server
  BY DEF OfClient
<1>2. ServerSame /\ serving' = serving /\ tokens' = tokens
  BY <1>0, <1>1 DEF ServerSame
<1>3. ASSUME NEW x \in Clients \ {c} PROVE Own(x)
  BY <1>0 DEF Own
<1>4. conn[c] = "queued" \/ Served(c) => Up(c)' = Up(c)
  <2> HAVE conn[c] = "queued" \/ Served(c)
  <2>1. PeerHere(c)
    BY <1>1 DEF LinkOK, PeerHere, Peer, Others, Served
  <2>2. out[c] = <<>>
    BY <1>1, <2>1 DEF BuffersOf, Sending
  <2> QED
    BY <1>0, <2>2 DEF Up
<1>5. BuffersOf(c)'
  BY <1>0 DEF BuffersOf
<1>6. ClientCounts(c)'
  <2>1. tokens[c] \in Nat
    BY DEF Types
  <2> QED
    BY <1>0, <1>1, <2>1 DEF ClientCounts
<1>7. LinkOK(c)' /\ DownOK(c)' /\ TurnOK(c)'
  BY <1>0, <1>1 DEF LinkOK, DownOK, TurnOK, Served, Alive
<1>8. UpOK(c)'
  <2>1. Served(c)' <=> Served(c)
    BY <1>0 DEF Served
  <2>2. Served(c) => (Awaited(Server, <<>>)' <=> Awaited(Server, <<>>))
    BY <1>2, <1>4, SameServerStream DEF Served
  <2> QED
    BY <1>0, <1>1, <1>2, <1>4, <2>1, <2>2 DEF UpOK, ServerSame
<1>9. OfClient(c)'
  BY <1>5, <1>6, <1>7, <1>8 DEF OfClient
<1> QED
  BY <1>2, <1>3, <1>9, ClientMoves

(* A client that goes on with its buffers as they are.                      *)
LEMMA StreamEndsStep ==
  ASSUME StreamInv, NEW c \in Clients, ClientStreamEnds(c)
  PROVE  StreamStep
<1> USE Apart DEF StreamInv, Base
<1>0. pc[c] \in {"size", "body", "message"} /\ ~PeerHere(c) /\ net[c]["down"] = <<>>
  BY DEF ClientStreamEnds, StreamEnded, Receiving, Peer, Inward
<1>1. CASE MyHandleError(c)
  BY <1>0, <1>1, EndStep DEF Sending
<1>2. CASE /\ pc[c] = "message" /\ inq[c] # <<>> /\ conn[c] # "reset"
           /\ Goto(c, "decrypt")
           /\ UNCHANGED <<tokens, calls, fDone, out, inq, cbData, net, conn, isOpen, serving, plain>>
  <2>1. pc'[c] = "decrypt" /\ \A q \in Procs \ {c} : pc'[q] = pc[q]
    BY <1>2 DEF Goto, Types
  <2>2. BuffersOf(c) /\ ClientCounts(c) /\ LinkOK(c) /\ DownOK(c) /\ c # Server
    BY DEF OfClient
  <2>3. ServerSame /\ serving' = serving /\ tokens' = tokens
    BY <1>2, <2>1, <2>2 DEF ServerSame
  <2>4. ASSUME NEW x \in Clients \ {c} PROVE Own(x)
    BY <1>2, <2>1 DEF Own
  <2>5. ~Served(c) /\ conn[c] # "queued" /\ serving # c
    BY <1>0, <1>2, <2>2 DEF LinkOK, PeerHere, Peer, Others, Served
  <2>6. Stream(c) = inq[c]
    <3>1. Stream(c) = inq[c] \o (<<>> \o <<>>)
      BY <1>0, <2>2, <2>5 DEF Stream, Behind, Down
    <3>2. inq[c] \in Seq(Units)
      BY DEF StreamTypes
    <3>3. <<>> \o <<>> = <<>> /\ inq[c] \o <<>> = inq[c]
      BY <3>2, Joined
    <3> QED
      BY <3>1, <3>3, Zenon
  <2>7. inq[c] \in Messages
    BY <1>2, <2>2, <2>6, TailTypes DEF DownOK
  <2>8. BuffersOf(c)' /\ ClientCounts(c)'
    BY <1>2, <2>1, <2>2, <2>7 DEF BuffersOf, ClientCounts
  <2>9. LinkOK(c)' /\ DownOK(c)' /\ UpOK(c)' /\ TurnOK(c)'
    BY <1>2, <2>1, <2>2, <2>5 DEF LinkOK, DownOK, UpOK, TurnOK, Served, Alive
  <2>10. OfClient(c)'
    BY <2>8, <2>9 DEF OfClient
  <2> QED
    BY <2>3, <2>4, <2>10, ClientMoves
<1> QED
  BY <1>1, <1>2 DEF ClientStreamEnds, ioVars, linkVars

(* What DecryptThis gives is the data, decrypted or, if DecryptMessage      *)
(* failed, as it came.                                                      *)
LEMMA MainStep ==
  ASSUME StreamInv, NEW c \in Clients, ClientMain(c)
  PROVE  StreamStep
<1> USE Apart DEF StreamInv, Base
<1>0. /\ pc[c] = "decrypt" /\ pc'[c] = "exit" /\ isOpen'[c] = isOpen[c] \ {c}
      /\ plain'[c] \in Decrypted(inq[c])
      /\ UNCHANGED <<tokens, calls, fDone, out, inq, cbData, net, conn, serving>>
      /\ \A q \in Procs \ {c} : pc'[q] = pc[q]
      /\ \A x \in Clients \ {c} : isOpen'[x] = isOpen[x] /\ plain'[x] = plain[x]
  BY DEF ClientMain, Goto, Types, StreamTypes, ioVars
<1>1. BuffersOf(c) /\ ClientCounts(c) /\ LinkOK(c) /\ UpOK(c) /\ c # Server
  BY DEF OfClient
<1>2. ServerSame /\ serving' = serving /\ tokens' = tokens
  BY <1>0, <1>1 DEF ServerSame
<1>3. ASSUME NEW x \in Clients \ {c} PROVE Own(x)
  BY <1>0 DEF Own
<1>4. Up(c)' = Up(c)
  BY <1>0 DEF Up
<1>5. plain'[c] \in {Run("plain", 1, DataLen), Run("data", 1, DataLen)}
  <2>1. PICK a \in 1..MaxTrailer : inq[c] = EncryptThis(a)
    BY <1>0, <1>1 DEF ClientCounts, Messages
  <2>2. DecryptThis(EncryptThis(a)) = Run("data", 1, DataLen)
    BY MessageFrame
  <2>3. DecryptMessage(Run("data", 1, DataLen)) = Run("plain", 1, DataLen)
    BY DEF DecryptMessage, Run, Unit
  <2>4. plain'[c] \in Decrypted(EncryptThis(a))
    BY <1>0, <2>1, Zenon
  <2>5. Decrypted(EncryptThis(a)) = {Run("plain", 1, DataLen), Run("data", 1, DataLen)}
    BY <2>2, <2>3, Zenon DEF Decrypted
  <2> QED
    BY <2>4, <2>5, Zenon
<1>6. BuffersOf(c)' /\ ClientCounts(c)'
  BY <1>0, <1>1, <1>5 DEF BuffersOf, ClientCounts
<1>7. LinkOK(c)' /\ DownOK(c)' /\ TurnOK(c)'
  BY <1>0, <1>1 DEF LinkOK, DownOK, TurnOK, Served, Alive
<1>8. UpOK(c)'
  <2>1. Served(c)' <=> Served(c)
    BY <1>0 DEF Served
  <2>2. Served(c) => (Awaited(Server, <<>>)' <=> Awaited(Server, <<>>))
    BY <1>2, <1>4, SameServerStream DEF Served
  <2> QED
    BY <1>0, <1>1, <1>2, <1>4, <2>1, <2>2 DEF UpOK, ServerSame
<1>9. OfClient(c)'
  BY <1>6, <1>7, <1>8 DEF OfClient
<1> QED
  BY <1>2, <1>3, <1>9, ClientMoves

(* A broken connection promises nothing.                                    *)
LEMMA BreaksStep ==
  ASSUME StreamInv, NEW c \in Clients, ConnectionBreaks(c)
  PROVE  StreamStep
<1> USE Apart DEF StreamInv, Base
<1>0. /\ conn[c] = "accepted" /\ conn'[c] = "reset"
      /\ net'[c]["up"] = <<>> /\ net'[c]["down"] = <<>>
      /\ UNCHANGED <<tokens, pc, calls, fDone, out, inq, cbData, isOpen, serving, plain>>
      /\ \A x \in Clients \ {c} : conn'[x] = conn[x] /\ net'[x] = net[x]
  BY DEF ConnectionBreaks, Types, StreamTypes, secVars
<1>1. BuffersOf(c) /\ ClientCounts(c) /\ LinkOK(c) /\ c # Server
  BY DEF OfClient
<1>2. ServerSame /\ serving' = serving /\ tokens' = tokens
  BY <1>0 DEF ServerSame
<1>3. ASSUME NEW x \in Clients \ {c} PROVE Own(x)
  BY <1>0 DEF Own
<1>4. TokenIn(c)' = TokenIn(c)
  BY <1>0, <1>1 DEF TokenIn
<1>5. BuffersOf(c)' /\ ClientCounts(c)'
  BY <1>0, <1>1, <1>4 DEF BuffersOf, ClientCounts
<1>6. LinkOK(c)' /\ DownOK(c)' /\ UpOK(c)' /\ TurnOK(c)'
  BY <1>0, <1>1 DEF LinkOK, DownOK, UpOK, TurnOK, Served, Alive
<1>7. OfClient(c)'
  BY <1>5, <1>6 DEF OfClient
<1> QED
  BY <1>2, <1>3, <1>7, ClientMoves

(* Every step keeps the streams.                                            *)
LEMMA StreamKept ==
  ASSUME Completes = FALSE
  PROVE  StreamInv /\ [Next]_vars => StreamInv'
<1> SUFFICES ASSUME StreamInv, [Next]_vars PROVE StreamInv'
  OBVIOUS
<1>1. Base'
  BY TypesKept, ServerKept, TypesStep DEF StreamInv, Base
<1>2. ASSUME ServerStep PROVE StreamStep
  <2>1. ASSUME ServerStreamEnds PROVE StreamStep
    <3>1. cleanup /\ pc[Server] \notin Sending
      BY <2>1 DEF ServerStreamEnds, StreamEnded, Receiving, Sending
    <3> QED
      BY <3>1, CleanupStep
  <2> QED
    BY <1>2, <2>1, ListenStep, AcceptStep, CloseListenStep, ServerCalls, ServerSends,
       ServerReceives, ImpersonateStep, EncryptStep, FinishStep DEF ServerStep
<1>3. ASSUME ServerFails PROVE StreamStep
  <2>1. cleanup /\ (pc[Server] \in Sending => ~PeerHere(Server))
    BY <1>3 DEF ServerFails, Sending
  <2> QED
    BY <2>1, CleanupStep
<1>4. ASSUME NEW c \in Clients, ClientStep(c) PROVE StreamStep
  BY <1>4, ConnectStep, ClientCalls, ClientSends, ClientReceives, StreamEndsStep, MainStep
     DEF ClientStep
<1>5. ASSUME NEW c \in Clients, ClientFails(c) PROVE StreamStep
  <2>1. MyHandleError(c) /\ (pc[c] \in Sending => ~PeerHere(c))
    BY <1>5 DEF ClientFails, Sending
  <2> QED
    BY <2>1, EndStep
<1>6. ASSUME NEW c \in Clients, ConnectionBreaks(c) PROVE StreamStep
  BY <1>6, BreaksStep
<1>7. ASSUME UNCHANGED vars PROVE StreamStep
  <2>1. ServerSame /\ serving' = serving /\ tokens' = tokens
    BY <1>7 DEF vars, ServerSame
  <2>2. ASSUME NEW c \in Clients PROVE OfClient(c)'
    <3>1. Own(c)
      BY <1>7 DEF vars, Own
    <3> QED
      BY <2>1, <3>1, Untouched DEF StreamInv
  <2> QED
    BY <2>1, <2>2, ServerUntouched DEF StreamInv, StreamStep
<1>8. StreamStep
  BY <1>2, <1>3, <1>4, <1>5, <1>6, <1>7 DEF Next
<1> QED
  BY <1>1, <1>8 DEF StreamInv, StreamStep

(* Nothing is on its way at first.                                          *)
LEMMA StreamStarts == Init => StreamInv
<1> SUFFICES ASSUME Init PROVE StreamInv
  OBVIOUS
<1> USE Apart
<1>1. Types /\ ServerInv
  BY InitInv
<1>2. <<>> \in Seq(Units)
  OBVIOUS
<1>3. StreamTypes
  BY <1>2 DEF Init, StreamTypes
<1>4. OfServer
  BY DEF Init, OfServer, BuffersOf, ServerCounts, Talking, Agreed
<1>5. ASSUME NEW c \in Clients PROVE OfClient(c)
  <2>1. /\ pc[c] = "start" /\ calls[c] = 0 /\ ~fDone[c] /\ out[c] = <<>> /\ inq[c] = <<>>
        /\ net[c]["up"] = <<>> /\ net[c]["down"] = <<>> /\ conn[c] = "none"
        /\ isOpen[c] = {} /\ plain[c] = None /\ serving # c /\ c # Server
        /\ tokens[c] \in 1..MaxTokens
    BY DEF Init
  <2>2. Stream(c) = <<>>
    <3>1. Stream(c) = <<>> \o (<<>> \o <<>>)
      BY <2>1 DEF Stream, Behind, Down
    <3>2. <<>> \o <<>> = <<>>
      OBVIOUS
    <3> QED
      BY <3>1, <3>2, Zenon
  <2>3. BuffersOf(c) /\ ClientCounts(c)
    BY <2>1 DEF BuffersOf, ClientCounts
  <2>4. LinkOK(c) /\ DownOK(c) /\ UpOK(c) /\ TurnOK(c)
    BY <2>1, <2>2 DEF LinkOK, DownOK, UpOK, TurnOK, Served, Alive
  <2> QED
    BY <2>3, <2>4 DEF OfClient
<1> QED
  BY <1>1, <1>3, <1>4, <1>5 DEF StreamInv, Base

(* What each process holds, and how far its counters go.                    *)
Holds(c) ==
    /\ isOpen[c] \subseteq {c, Server}
    /\ creds[c] = IF pc[c] \in {"start", "auth", "failed"} THEN 0 ELSE 1
    /\ ctxts[c] = IF pc[c] \in {"start", "auth", "failed", "exit"} THEN 0 ELSE 1
    /\ 2 * calls[c] <= tokens[c] + 2

RestInv ==
    /\ asClient \in BOOLEAN
    /\ pc[Server] \in Talking => 2 * calls[Server] <= tokens[serving] + 1
    /\ \A p \in Procs : cbData[p] <= 2
    /\ \A c \in Clients : Holds(c)

(* The size a recv completes is a token's.                                  *)
LEMMA SizesRead ==
  ASSUME StreamInv, NEW p \in Procs, ReceiveBytes(p), cbData[p] <= 2
  PROVE  cbData'[p] <= 2
<1> USE Apart DEF StreamInv, Base
<1>1. PICK c \in Clients : /\ Peer(p) = c /\ (p # Server => c = p) /\ (p = Server => c = serving)
                           /\ pc[p] \in {"size", "body", "message"}
                           /\ net[c][Inward(p)] # <<>>
  BY PeerIsClient, ReceiveEffect, ReceiveFrame
<1>2. PICK buf \in Seq(Units) :
           /\ buf # <<>> /\ Behind(p)' \in Seq(Units)
           /\ buf \o Behind(p)' = Stream(p)
           /\ \/ pc'[p] = pc[p] /\ cbData'[p] = cbData[p]
              \/ /\ Len(buf) = DWORD /\ pc[p] = "size"
                 /\ pc'[p] = IF buf[1].val = 0 THEN "gen" ELSE "body"
                 /\ cbData'[p] = buf[1].val
              \/ pc[p] = "body" /\ pc'[p] = "gen"
              \/ pc[p] = "message"
  BY ReceiveBuf
<1>3. CASE pc[p] # "size"
  <2>1. cbData'[p] = cbData[p]
    BY <1>3, ReceiveEffect DEF StreamTypes
  <2> QED
    BY <2>1
<1>4. CASE pc[p] = "size"
  <2>1. \E x \in Seq(Units) : Awaited(p, x)
    <3>1. Stream(p) # <<>>
      BY ReceiveNeedsSome
    <3>2. CASE p # Server
      <4>1. conn[c] = "accepted" /\ c = p
        BY <1>1, <3>2 DEF OfClient, LinkOK, Inward
      <4>2. PICK x \in Tails(c) : Awaited(c, x)
        BY <1>4, <3>1, <4>1 DEF OfClient, DownOK
      <4>3. x \in Seq(Units)
        BY <4>1, TailTypes
      <4> QED
        BY <4>1, <4>2, <4>3
    <3>3. CASE p = Server
      <4>1. Served(c) /\ c = serving
        BY <1>1, <3>3 DEF OfClient, LinkOK, Inward, Served
      <4>2. inq[Server] # <<>> \/ Up(c) # <<>>
        BY <3>1, <3>3, <4>1, Joined DEF Stream, Behind
      <4>3. Awaited(Server, <<>>)
        BY <1>4, <3>3, <4>1, <4>2 DEF OfClient, UpOK
      <4>4. <<>> \in Seq(Units)
        OBVIOUS
      <4> QED
        BY <3>3, <4>3, <4>4
    <3> QED
      BY <3>2, <3>3
  <2>2. PICK x \in Seq(Units) : Awaited(p, x)
    BY <2>1
  <2>3. Awaited(p, x)'
    BY <2>2, ReceiveAwaited
  <2>4. TokenIn(p)' \in Nat
    <3>1. calls' = calls /\ calls[p] \in Nat
      BY ReceiveEffect DEF secVars, Types
    <3> QED
      BY <3>1 DEF TokenIn
  <2>5. TokenLen(TokenIn(p)') \in 1..2
    BY <2>4 DEF TokenLen
  <2>6. CASE pc'[p] = "body"
    BY <2>3, <2>5, <2>6 DEF Awaited
  <2>7. CASE pc'[p] = "gen"
    BY <1>2, <1>4, <2>7
  <2>8. CASE pc'[p] = "size"
    BY <1>2, <1>4, <2>8
  <2> QED
    BY <2>3, <2>6, <2>7, <2>8 DEF Awaited
<1> QED
  BY <1>3, <1>4

(* Every step keeps what the processes hold.                                *)
LEMMA RestKept ==
  ASSUME Completes = FALSE, StreamInv, RestInv, [Next]_vars
  PROVE  RestInv'
<1> USE Apart DEF StreamInv, Base, RestInv
<1>a. /\ \A c \in Clients : pc[c] \in {"start", "auth", "gen", "decrypt", "exit", "failed",
                                       "send", "size", "body", "message"}
      /\ \A c \in Clients : tokens[c] \in Nat /\ tokens[c] > 0 /\ calls[c] \in Nat
      /\ DOMAIN isOpen = Clients /\ DOMAIN creds = Procs /\ DOMAIN ctxts = Procs
      /\ DOMAIN cbData = Procs /\ DOMAIN pc = Procs
  BY DEF StreamTypes, Types
<1>1. ASSUME NEW p \in Procs, SendBytes(p) \/ ReceiveBytes(p) PROVE RestInv'
  <2>1. /\ UNCHANGED <<tokens, calls, creds, ctxts, isOpen, serving, asClient>>
        /\ Moves(p)
    BY <1>1, IoMoves
  <2>2. \A q \in Procs : cbData'[q] <= 2
    <3>1. CASE SendBytes(p)
      BY <3>1 DEF SendBytes
    <3>2. CASE ReceiveBytes(p)
      <4>1. cbData'[p] <= 2
        BY <3>2, SizesRead
      <4>2. \A q \in Procs \ {p} : cbData'[q] = cbData[q]
        <5>1. pc[p] \in {"size", "body", "message"}
          BY <3>2, ReceiveEffect
        <5>2. Peer(p) \in Clients
          BY <5>1, PeerIsClient
        <5>3. PICK c \in Clients : c = Peer(p)
          BY <5>2
        <5> QED
          BY <3>2, <5>3, ReceiveFrame
      <4> QED
        BY <4>1, <4>2
    <3> QED
      BY <1>1, <3>1, <3>2
  <2>3. ASSUME NEW c \in Clients PROVE Holds(c)'
    BY <1>a, <2>1, <2>3 DEF Moves, Goto, Holds
  <2>4. pc'[Server] \in Talking => pc[Server] \in Talking
    BY <1>a, <2>1 DEF Moves, Goto, Talking
  <2> QED
    BY <2>1, <2>2, <2>3, <2>4
<1>2. ASSUME NEW c \in Clients, MyHandleError(c) PROVE RestInv'
  BY <1>2, <1>a DEF MyHandleError, Forget, Goto, Holds, Talking
<1>3. ASSUME cleanup PROVE RestInv'
  <2>1. /\ pc'[Server] = "down" /\ asClient' = FALSE /\ cbData'[Server] = 0
        /\ \A c \in Clients : /\ pc'[c] = pc[c] /\ calls'[c] = calls[c] /\ cbData'[c] = cbData[c]
                              /\ creds'[c] = creds[c] /\ ctxts'[c] = ctxts[c]
                              /\ isOpen'[c] = isOpen[c] \ {Server} /\ tokens'[c] = tokens[c]
    BY <1>3, <1>a DEF cleanup, Forget, Goto, Types
  <2>2. ASSUME NEW c \in Clients PROVE Holds(c)'
    BY <2>1 DEF Holds
  <2>3. pc'[Server] \notin Talking /\ asClient' \in BOOLEAN
    BY <2>1 DEF Talking
  <2>4. ASSUME NEW p \in Procs PROVE cbData'[p] <= 2
    BY <2>1
  <2> QED
    BY <2>2, <2>3, <2>4 DEF RestInv
<1>4. ASSUME GenServerContext PROVE RestInv'
  <2>0. pc[Server] = "gen"
    BY <1>4 DEF GenServerContext
  <2>1. PICK m \in Nat, last \in Nat :
          calls[Server] = m /\ tokens[serving] = last /\ serving \in Clients
    BY <2>0, <1>a DEF Types, ServerInv, Talking
  <2>2. 2 * m < last
    BY <2>0, <2>1 DEF OfServer, ServerCounts, Talking
  <2>3. /\ UNCHANGED <<tokens, cbData, isOpen, serving, asClient>>
        /\ calls' = [calls EXCEPT ![Server] = @ + 1]
        /\ ctxts' = [ctxts EXCEPT ![Server] = IF calls[Server] = 0 THEN @ + 1 ELSE @]
        /\ creds' = creds /\ \A c \in Clients : pc'[c] = pc[c]
    BY <1>4, <1>a DEF GenServerContext, Goto, linkVars
  <2>4. calls'[Server] = m + 1 /\ \A c \in Clients : calls'[c] = calls[c]
    BY <2>1, <2>3 DEF Types
  <2>5. ASSUME NEW c \in Clients PROVE Holds(c)'
    BY <1>a, <2>3, <2>4 DEF Holds
  <2> QED
    BY <2>1, <2>2, <2>3, <2>4, <2>5
<1>5. ASSUME NEW c \in Clients, GenClientContext(c) PROVE RestInv'
  <2>0. pc[c] \in {"auth", "gen"}
    BY <1>5 DEF GenClientContext
  <2>1. PICK m \in Nat, last \in Nat : calls[c] = m /\ tokens[c] = last
    BY <1>a
  <2>2. 2 * m <= last
    BY <2>0, <2>1 DEF OfClient, ClientCounts
  <2>3. /\ UNCHANGED <<tokens, cbData, isOpen, serving, asClient>>
        /\ calls' = [calls EXCEPT ![c] = @ + 1]
        /\ ctxts' = [ctxts EXCEPT ![c] = IF pc[c] = "auth" THEN @ + 1 ELSE @]
        /\ creds' = [creds EXCEPT ![c] = IF pc[c] = "auth" THEN @ + 1 ELSE @]
        /\ \A q \in Procs \ {c} : pc'[q] = pc[q]
        /\ pc'[c] \in {"send", AfterSend(c, fDone'[c])}
    BY <1>5, <1>a DEF GenClientContext, Goto, linkVars
  <2>4. pc'[c] \in {"send", "size", "message"}
    <3>1. fDone'[c] \in BOOLEAN /\ pc[c] # "sendData"
      BY <2>0, TypesKept DEF Types
    <3>2. AfterSend(c, fDone'[c]) \in {"size", "message"}
      BY <3>1 DEF AfterSend
    <3> QED
      BY <2>3, <3>2
  <2>5. calls'[c] = m + 1 /\ \A q \in Procs \ {c} : calls'[q] = calls[q]
    BY <2>1, <2>3 DEF Types
  <2>6. Holds(c)'
    BY <1>a, <2>0, <2>1, <2>2, <2>3, <2>4, <2>5 DEF Holds
  <2>7. ASSUME NEW x \in Clients \ {c} PROVE Holds(x)'
    BY <1>a, <2>3, <2>5 DEF Holds
  <2> QED
    BY <2>3, <2>5, <2>6, <2>7
<1>6. ASSUME Listen \/ Accept \/ Impersonate \/ RevertAndEncrypt PROVE RestInv'
  <2>1. UNCHANGED <<tokens, calls, creds, ctxts, cbData, isOpen>> /\ asClient' \in BOOLEAN
    BY <1>6 DEF Listen, Accept, Impersonate, RevertAndEncrypt, secVars, ioVars, linkVars
  <2>2. \A c \in Clients : pc'[c] = pc[c]
    BY <1>6, <1>a DEF Listen, Accept, Impersonate, RevertAndEncrypt, Goto
  <2>3. pc'[Server] \in Talking => pc[Server] \in Talking /\ serving' = serving
    BY <1>6, <1>a DEF Listen, Accept, Impersonate, RevertAndEncrypt, Goto, Talking, linkVars
  <2> QED
    BY <2>1, <2>2, <2>3 DEF Holds
<1>7. ASSUME CloseListen PROVE RestInv'
  <2>1. calls[Server] = 0 /\ serving \in Clients
    BY <1>7 DEF CloseListen, ServerInv, Talking
  <2> QED
    BY <1>7, <1>a, <2>1 DEF CloseListen, Goto, Holds
<1>8. ASSUME Finish PROVE RestInv'
  BY <1>8, <1>a DEF Finish, Goto, Holds, Talking, ioVars
<1>9. ASSUME NEW c \in Clients, ConnectAuthSocket(c) PROVE RestInv'
  BY <1>9, <1>a DEF ConnectAuthSocket, Goto, Holds, secVars, ioVars
<1>10. ASSUME NEW c \in Clients, ClientMain(c) PROVE RestInv'
  BY <1>10, <1>a DEF ClientMain, Goto, Holds, ioVars
<1>11. ASSUME NEW c \in Clients, ConnectionBreaks(c) PROVE RestInv'
  BY <1>11, <1>a DEF ConnectionBreaks, Holds, secVars
<1>12. ASSUME NEW c \in Clients, ClientStreamEnds(c) PROVE RestInv'
  <2>1. CASE MyHandleError(c)
    BY <1>2, <2>1
  <2>2. CASE /\ pc[c] = "message" /\ Goto(c, "decrypt")
             /\ UNCHANGED <<tokens, calls, cbData, isOpen, serving, creds, ctxts, asClient>>
    BY <1>a, <2>2 DEF Goto, Holds
  <2> QED
    BY <1>12, <2>1, <2>2 DEF ClientStreamEnds, linkVars, ioVars
<1>13. ASSUME UNCHANGED vars PROVE RestInv'
  BY <1>13 DEF vars, Holds
<1> QED
  BY <1>1, <1>2, <1>3, <1>4, <1>5, <1>6, <1>7, <1>8, <1>9, <1>10, <1>11, <1>12, <1>13
     DEF Next, ServerStep, ClientStep, ServerFails, ClientFails, ServerStreamEnds

-----------------------------------------------------------------------------
(* However the conversations went, the server waits for a client as itself  *)
(* and with nothing in its hands: the context, the credentials and the      *)
(* socket of the last one are gone (main of OldSspiSampleServer).           *)
THEOREM KeptCorrect == Spec => []NothingKept
<1>1. Init => Types /\ ServerInv
  BY InitInv
<1>2. Types /\ ServerInv /\ [Next]_vars => Types' /\ ServerInv'
  BY TypesKept, ServerKept
<1>3. ServerInv => NothingKept
  BY Apart DEF ServerInv, NothingKept, Talking
<1> QED
  BY <1>1, <1>2, <1>3, PTL DEF Spec

(* With a package whose statuses are SEC_E_OK and SEC_I_CONTINUE_NEEDED,    *)
(* neither side leaves DoAuthentication before the conversation has had all *)
(* its tokens; CompleteAuthToken, which overwrites ss, is what breaks this. *)
THEOREM SessionCorrect ==
  ASSUME Completes = FALSE
  PROVE  Spec => []SessionEstablished
<1>1. Init => Types /\ ServerInv /\ DoneInv
  BY InitInv
<1>2. Types /\ ServerInv /\ DoneInv /\ [Next]_vars => (Types /\ ServerInv /\ DoneInv)'
  BY TypesKept, ServerKept, DoneKept
<1>3. Types /\ ServerInv /\ DoneInv => SessionEstablished
  BY Apart DEF Types, ServerInv, DoneInv, SessionEstablished, Agreed, Talking
<1> QED
  BY <1>1, <1>2, <1>3, PTL DEF Spec

(* However send and recv cut the stream, a call of the package is given     *)
(* exactly the next token of its conversation: SendMsg writes the size it   *)
(* will send, ReceiveMsg reads as much as it was told, and neither side     *)
(* sends before it has read the other's answer.                             *)
THEOREM TokensCorrect ==
  ASSUME Completes = FALSE
  PROVE  Spec => []TokensStayWhole
<1>1. StreamInv => TokensStayWhole
  BY Apart DEF StreamInv, TokensStayWhole, OfClient, OfServer, BuffersOf
<1> QED
  BY <1>1, StreamStarts, StreamKept, PTL DEF Spec

(* What a client prints is the data the server encrypted, whole, although   *)
(* the message has no length in front of it and may follow the last token   *)
(* in the same stream (DecryptThis, main); it is decrypted, or, when        *)
(* DecryptMessage failed, still encrypted, and never a part of it or mixed  *)
(* with anything else.                                                      *)
THEOREM MessagesCorrect ==
  ASSUME Completes = FALSE
  PROVE  Spec => []MessageArrives
<1>1. StreamInv => MessageArrives
  BY DEF StreamInv, MessageArrives, OfClient, ClientCounts
<1> QED
  BY <1>1, StreamStarts, StreamKept, PTL DEF Spec

(* The variables have their types: two calls of the package follow each     *)
(* other only with a token in between, so no side makes more than there are *)
(* tokens, and a handle is held at most once.                               *)
THEOREM TypesCorrect ==
  ASSUME Completes = FALSE
  PROVE  Spec => []TypeOK
<1>1. Init => RestInv
  <2> SUFFICES ASSUME Init PROVE RestInv
    OBVIOUS
  <2> USE Apart
  <2>1. ASSUME NEW c \in Clients PROVE Holds(c)
    <3>1. /\ pc[c] = "start" /\ calls[c] = 0 /\ isOpen[c] = {} /\ creds[c] = 0 /\ ctxts[c] = 0
          /\ tokens[c] \in 1..MaxTokens
      BY DEF Init
    <3> QED
      BY <3>1 DEF Holds
  <2>2. asClient \in BOOLEAN /\ pc[Server] \notin Talking /\ \A p \in Procs : cbData[p] = 0
    BY DEF Init, Talking
  <2> QED
    BY <2>1, <2>2 DEF RestInv
<1>2. StreamInv /\ RestInv /\ [Next]_vars => RestInv'
  BY RestKept
<1>3. StreamInv /\ RestInv => TypeOK
  <2> SUFFICES ASSUME StreamInv, RestInv PROVE TypeOK
    OBVIOUS
  <2> USE Apart DEF StreamInv, Base
  <2>1. \A c \in Clients : tokens[c] \in 1..MaxTokens /\ calls[c] \in Nat
    BY DEF StreamTypes, Types
  <2>2. \A p \in Procs : calls[p] <= MaxTokens
    <3>1. ASSUME NEW c \in Clients PROVE calls[c] <= MaxTokens
      BY <2>1 DEF RestInv, Holds
    <3>2. calls[Server] <= MaxTokens
      BY <2>1 DEF RestInv, ServerInv, Types
    <3> QED
      BY <3>1, <3>2
  <2>3. cbData \in [Procs -> 0..2]
    BY DEF StreamTypes, RestInv
  <2>4. \A p \in Procs : creds[p] \in 0..1 /\ ctxts[p] \in 0..1
    BY DEF RestInv, Holds, ServerInv
  <2>5. creds \in [Procs -> 0..1] /\ ctxts \in [Procs -> 0..1]
    <3>1. creds = [p \in Procs |-> creds[p]] /\ ctxts = [p \in Procs |-> ctxts[p]]
      BY DEF Types
    <3> QED
      BY <2>4, <3>1
  <2>6. \A p \in Procs : pc[p] \in Sending \union Receiving \union
          IF p = Server
          THEN {"listen", "accept", "closeListen", "gen", "session", "name",
                "finish", "down"}
          ELSE {"start", "auth", "gen", "decrypt", "exit", "failed"}
    BY DEF StreamTypes, ServerInv, Talking, Sending, Receiving
  <2>7. serving \in Clients \union {None}
    BY DEF ServerInv
  <2> QED
    BY <2>2, <2>3, <2>5, <2>6, <2>7 DEF TypeOK, StreamTypes, Types, RestInv, Holds
<1> QED
  BY <1>1, <1>2, <1>3, StreamStarts, StreamKept, PTL DEF Spec
=============================================================================
