------------------------------ MODULE TlsClient ------------------------------
(* SecureSocket/main.cpp: a TLS client over a socket. Records reach it in    *)
(* any pieces; tls_connect collects those of the handshake and tls_read      *)
(* those of the response, in the one buffer s->incoming.                     *)
EXTENDS Integers, Sequences, FiniteSets, SequencesExt, FiniteSetsExt

CONSTANTS
    MaxPacket,      \* TLS_MAX_PACKET_SIZE: units s->incoming has room for
    ReadSize,       \* units of the buffer main reads into
    HandshakeSizes, \* the units of each record of the server's handshake
    Responses       \* the responses the server may give: sequences of records

CR == 13
LF == 10

TlsAssumption ==
    /\ MaxPacket \in Nat /\ ReadSize \in Nat /\ MaxPacket < ReadSize
    /\ HandshakeSizes \in Seq(1..MaxPacket) /\ HandshakeSizes # <<>>
    /\ \A r \in Responses :
          /\ r \in Seq([kind : {"data", "ticket", "alert"}, bytes : Seq(Nat)])
          /\ \A k \in DOMAIN r : /\ Len(r[k].bytes) \in 1..MaxPacket
                                 /\ r[k].kind = "alert" => k = Len(r)

VARIABLES
    phase,       \* "connect", "handshake", "write", "read", "disconnect" or "ended"
    incoming,    \* s->incoming: the units received and not used
    handshaken,  \* the handshake records the security context has consumed
    decrypted,   \* s->decrypted: the plaintext not handed out yet
    buf,         \* main's buffer: what this tls_read has handed out, `result` units
    received,    \* history: the bytes main has counted in `received'
    myfile,      \* what main has written to response.txt
    kept,        \* what tls_disconnect has to give back
    asked,       \* the request has been sent
    answer,      \* the response of this run
    script,      \* the records the server has still to send
    stream,      \* the units on their way to the client
    server,      \* "open", "closed" (FIN) or "reset"
    ending       \* how the client's use of the connection ended

files  == <<received, myfile>>
vars   == <<phase, incoming, handshaken, decrypted, buf, files, kept, asked,
            answer, script, stream, server, ending>>
client == <<phase, incoming, handshaken, decrypted, buf, files, kept, asked, ending>>

-------------------------------------------------------------------------------
(* A record on the wire: units of one kind, its ends known to who decrypts.  *)
Units(r) ==
    [i \in DOMAIN r.bytes |-> [kind |-> r.kind, byte |-> r.bytes[i],
                               first |-> i = 1, last |-> i = Len(r.bytes)]]

Handshake == [k \in DOMAIN HandshakeSizes |->
                 [kind |-> "handshake", bytes |-> [i \in 1..HandshakeSizes[k] |-> 0]]]

Rest(s, n) == SubSeq(s, n + 1, Len(s))

Garbled(s) == s # <<>> /\ ~Head(s).first

(* The units of the whole records at the head of s, of one kind.             *)
Whole(s, kind) ==
    Max({n \in 0..Len(s) : /\ \A i \in 1..n : s[i].kind = kind
                           /\ n > 0 => s[n].last /\ ~Garbled(s)})

(* The units of the first record of s, 0 while it is not whole.              *)
FirstRecord(s) ==
    IF Garbled(s) \/ \A i \in DOMAIN s : ~s[i].last THEN 0
    ELSE Min({i \in DOMAIN s : s[i].last})

Plain(s) == [i \in DOMAIN s |-> s[i].byte]

(* The tickets a response begins with are sent with the end of the           *)
(* handshake, the rest of it when it was asked for.                          *)
Greeting(r) ==
    SubSeq(r, 1, Max({n \in 0..Len(r) : \A k \in 1..n : r[k].kind = "ticket"}))
Asked(r) == Rest(r, Len(Greeting(r)))

(* What the response says: the bytes of its data records.                    *)
Says(r) == FlattenSeq([k \in DOMAIN r |-> IF r[k].kind = "data" THEN r[k].bytes ELSE <<>>])

-------------------------------------------------------------------------------
Init ==
    /\ phase = "connect"
    /\ incoming = <<>> /\ handshaken = 0 /\ decrypted = <<>> /\ buf = <<>>
    /\ received = <<>> /\ myfile = <<>> /\ kept = {} /\ asked = FALSE /\ ending = "none"
    /\ answer \in Responses
    /\ script = <<>> /\ stream = <<>> /\ server = "open"

(* tls_connect gives back itself what it had acquired when it fails; after   *)
(* it main goes to tls_disconnect, unless an assertion ends the process.     *)
Fail(how)  == phase' = "ended" /\ ending' = how /\ kept' = {}
Leave(how) == phase' = "disconnect" /\ ending' = how /\ UNCHANGED kept
Abort      == phase' = "ended" /\ ending' = "aborted" /\ UNCHANGED kept

(* Winsock, the socket, the connection, the credentials and the first token. *)
tls_connect ==
    /\ phase = "connect"
    /\ \/ /\ phase' = "handshake"
          /\ kept' = {"winsock", "socket", "credentials", "context"}
          /\ script' = Handshake \o Greeting(answer)
          /\ UNCHANGED ending
       \/ Fail("refused") /\ UNCHANGED script
    /\ UNCHANGED <<incoming, handshaken, decrypted, buf, files, asked, answer,
                   stream, server>>

(* What the buffer may hold after a recv: any part of what has arrived that  *)
(* there is room for.                                                        *)
Arrivals == {incoming \o SubSeq(stream, 1, n) :
                n \in 1..Min({Len(stream), MaxPacket - Len(incoming)})}

StreamEnd == stream = <<>> /\ server = "closed"

(* Seeded fault: the units that follow the last record of the handshake are  *)
(* dropped with it.                                                          *)
Unused_Fault(s, n) == <<>>

(* What the security context leaves of the buffer: the extra units when it   *)
(* took something, and nothing at all otherwise, a record that is not whole  *)
(* yet included.                                                             *)
Unused(s, n) == IF n > 0 THEN Rest(s, n) ELSE <<>>

(* One turn of the loop of tls_connect after a receive: the handshake is     *)
(* done, wants more, or fails (a token that cannot be sent included).        *)
HandshakeReceives ==
    /\ phase = "handshake"
    /\ \E s \in Arrivals :
        LET n == Whole(s, "handshake")
            more == handshaken + Cardinality({i \in 1..n : s[i].last})
        IN  /\ stream' = Rest(stream, Len(s) - Len(incoming))
            /\ \/ /\ incoming' = Unused(s, n)
                  /\ handshaken' = more
                  /\ phase' = IF more = Len(HandshakeSizes) THEN "write" ELSE phase
                  /\ UNCHANGED <<kept, ending>>
               \/ /\ Garbled(s) \/ n > 0
                  /\ Fail("failed")
                  /\ UNCHANGED <<incoming, handshaken>>
    /\ UNCHANGED <<decrypted, buf, files, asked, answer, script, server>>

(* recv gives nothing: tls_connect returns 0 as if it had connected.         *)
HandshakeCut ==
    /\ phase = "handshake" /\ StreamEnd
    /\ phase' = "write"
    /\ UNCHANGED <<incoming, handshaken, decrypted, buf, files, kept, asked, answer,
                   script, stream, server, ending>>

ConnectionLost ==
    /\ server = "reset" /\ decrypted = <<>>
    /\ \/ phase = "handshake" /\ Fail("failed")
       \/ phase = "read" /\ FirstRecord(incoming) = 0 /\ buf = <<>> /\ Leave("failed")
    /\ UNCHANGED <<incoming, handshaken, decrypted, buf, files, asked, answer,
                   script, stream, server>>

(* Nothing is encrypted with a context whose handshake was cut; but the      *)
(* sizes of its records were never queried, and what they happen to be may   *)
(* end the process before it is tried, in the assertion or in the copy.      *)
tls_write ==
    /\ phase = "write"
    /\ \/ /\ handshaken = Len(HandshakeSizes) /\ server # "reset"
          /\ asked' = TRUE /\ phase' = "read"
          /\ script' = script \o Asked(answer)
          /\ UNCHANGED <<kept, ending>>
       \/ Leave("failed") /\ UNCHANGED <<asked, script>>
       \/ /\ handshaken # Len(HandshakeSizes)
          /\ Abort /\ UNCHANGED <<asked, script>>
    /\ UNCHANGED <<incoming, handshaken, decrypted, buf, files, answer, stream, server>>

-------------------------------------------------------------------------------
(* tls_read: what is decrypted is handed out first. It fits: the room that   *)
(* main's buffer has left is never less.                                     *)
HandOut ==
    /\ phase = "read" /\ decrypted # <<>>
    /\ LET use == Min({ReadSize - Len(buf), Len(decrypted)})
           n == FirstRecord(incoming)
       IN  /\ buf' = buf \o SubSeq(decrypted, 1, use)
           /\ decrypted' = Rest(decrypted, use)
           /\ incoming' = IF use = Len(decrypted) THEN Rest(incoming, n) ELSE incoming
    /\ UNCHANGED <<phase, handshaken, files, kept, asked, answer, script, stream,
                   server, ending>>

(* main inserts what a call of tls_read handed out as a string, which ends   *)
(* at its first zero, into a file opened for text, and calls again.          *)
UpToNul(s) == SubSeq(s, 1, Min({i \in DOMAIN s : s[i] = 0} \cup {Len(s) + 1}) - 1)
AsText(s)  == FlattenSeq([i \in DOMAIN s |-> IF s[i] = LF THEN <<CR, LF>> ELSE <<s[i]>>])

WriteOut ==
    /\ received' = received \o buf
    /\ myfile' = myfile \o AsText(UpToNul(buf))
    /\ buf' = <<>>

(* The first whole record in the buffer is decrypted: data; the alert that   *)
(* ends the session, and what came with it; or a ticket, which leaves the    *)
(* rest of the buffer, and is asserted not to be the last thing in it. When  *)
(* it cannot be, what the call has handed out is not written.                *)
Decrypt ==
    /\ phase = "read" /\ decrypted = <<>>
    /\ LET n == FirstRecord(incoming)
           kind == incoming[1].kind
       IN  /\ n > 0
           /\ \/ /\ kind = "data"
                 /\ decrypted' = Plain(SubSeq(incoming, 1, n))
                 /\ UNCHANGED <<phase, incoming, buf, files, kept, ending>>
              \/ /\ kind = "alert"
                 /\ incoming' = <<>>
                 /\ IF buf = <<>> THEN Leave("closed") /\ UNCHANGED <<buf, files>>
                    ELSE WriteOut /\ UNCHANGED <<phase, kept, ending>>
                 /\ UNCHANGED decrypted
              \/ /\ kind = "ticket"
                 /\ incoming' = Rest(incoming, n)
                 /\ \/ UNCHANGED <<phase, kept, ending>>
                    \/ n = Len(incoming) /\ Abort
                 /\ UNCHANGED <<decrypted, buf, files>>
              \/ /\ Leave("failed")
                 /\ UNCHANGED <<incoming, decrypted, buf, files>>
    /\ UNCHANGED <<handshaken, asked, answer, script, stream, server>>

(* No whole record is left: a call that has handed something out returns.    *)
ReadReturns ==
    /\ phase = "read" /\ decrypted = <<>>
    /\ FirstRecord(incoming) = 0 /\ buf # <<>>
    /\ WriteOut
    /\ UNCHANGED <<phase, incoming, handshaken, decrypted, kept, asked, answer, script,
                   stream, server, ending>>

ReadReceives ==
    /\ phase = "read" /\ decrypted = <<>> /\ buf = <<>>
    /\ FirstRecord(incoming) = 0
    /\ \E s \in Arrivals :
        /\ incoming' = s
        /\ stream' = Rest(stream, Len(s) - Len(incoming))
    /\ UNCHANGED <<phase, handshaken, decrypted, buf, files, kept, asked, answer,
                   script, server, ending>>

ReadEnds ==
    /\ phase = "read" /\ decrypted = <<>> /\ buf = <<>>
    /\ FirstRecord(incoming) = 0 /\ StreamEnd
    /\ Leave("closed")
    /\ UNCHANGED <<incoming, handshaken, decrypted, buf, files, asked, answer,
                   script, stream, server>>

-------------------------------------------------------------------------------
(* The server sends its records in order, closes when it has no more to say  *)
(* or any time before, or is cut off.                                        *)
ServerSends ==
    /\ server = "open" /\ script # <<>>
    /\ stream' = stream \o Units(Head(script))
    /\ script' = Tail(script)
    /\ UNCHANGED <<client, answer, server>>

ServerCloses ==
    /\ server = "open" /\ phase # "connect"
    /\ server' = "closed"
    /\ UNCHANGED <<client, answer, script, stream>>

Reset ==
    /\ server = "open" /\ phase # "connect"
    /\ server' = "reset" /\ stream' = <<>>
    /\ UNCHANGED <<client, answer, script>>

tls_disconnect ==
    /\ phase = "disconnect"
    /\ phase' = "ended" /\ kept' = {}
    /\ UNCHANGED <<incoming, handshaken, decrypted, buf, files, asked, answer, script,
                   stream, server, ending>>

-------------------------------------------------------------------------------
ClientStep ==
    \/ tls_connect \/ HandshakeReceives \/ HandshakeCut \/ ConnectionLost
    \/ tls_write \/ HandOut \/ Decrypt \/ ReadReturns \/ ReadReceives \/ ReadEnds
    \/ tls_disconnect

Next == ClientStep \/ ServerSends \/ ServerCloses \/ Reset

(* The client runs on; no server keeps a connection for ever on which it has *)
(* nothing more to say.                                                      *)
Fairness == WF_vars(ClientStep) /\ WF_vars(ServerSends) /\ WF_vars(ServerCloses)

Spec == Init /\ [][Next]_vars /\ Fairness

-------------------------------------------------------------------------------
(* Every variable keeps its type; s->incoming never overflows.               *)
TypeOK ==
    /\ phase \in {"connect", "handshake", "write", "read", "disconnect", "ended"}
    /\ Len(incoming) <= MaxPacket
    /\ handshaken \in 0..Len(HandshakeSizes)
    /\ Len(buf) <= ReadSize
    /\ kept \subseteq {"winsock", "socket", "credentials", "context"}
    /\ asked \in BOOLEAN
    /\ server \in {"open", "closed", "reset"}

(* What tls_read hands out to main is what the response says, from its first *)
(* byte on, however the records were cut and joined on the way and whatever  *)
(* tickets came between them; it is all of the response when the session was *)
(* closed after the server had sent it; the buffer that main reads into is   *)
(* never filled: the zero that ends the string main inserts is still there;  *)
(* and when no other zero was handed out, response.txt has all of it as text.*)
ResponseArrives ==
    /\ IsPrefix(received, Says(answer))
    /\ ending = "closed" /\ script = <<>> /\ asked => received = Says(answer)
    /\ Len(buf) < ReadSize
    /\ ~Contains(received, 0) => myfile = AsText(received)

(* tls_connect "returns 0 on success or negative value on error": who goes   *)
(* on to write has a session. It does not hold: when the server closes       *)
(* during the handshake tls_connect returns 0 as well.                       *)
ConnectedMeansHandshaken == phase = "write" => handshaken = Len(HandshakeSizes)

(* The client ends, whatever the server does and wherever the bytes break.   *)
ClientEnds == <>(phase = "ended")
===============================================================================
