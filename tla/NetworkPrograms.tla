---------------------------- MODULE NetworkPrograms ----------------------------
(* The programs that resolve names, ping, talk HTTP and hold a socket        *)
(* without other threads of their own, as the rows of CallRows. "winsock" is *)
(* what WSAStartup enters and WSACleanup leaves.                             *)
EXTENDS CallRows

(* WindowsDNS/main.cpp, the name looked up with GetAddrInfoExW: either the   *)
(* answer is there at once, or `wake` is what the answer comes with.         *)
Records == <<Use({"results"}, {GoOn})>>
Lookup(wake) ==
    IfElse(<<Acquire("results", {}, Thrown)>> \o Records,
           <<Call({wake}, {"results"}, {}, {Jump({}, Len(Records) + 1)})>> \o Records)

(* The answer's callback queues a call to the thread that sleeps: without a  *)
(* handle of that thread nothing wakes it.                                   *)
DnsCallback ==
    Program(<<Acquire("winsock", {}, {GoOn}), Acquire("thread", {}, {GoOn})>>
            \o Lookup("thread") \o <<Done>>,
            {"thread"}, {}, {"winsock", "results"}, {"thread"})

DnsEvent ==
    Program(<<Acquire("winsock", {}, {GoOn}), Acquire("event", {}, Thrown)>>
            \o Lookup("event") \o <<Done>>,
            {"event"}, {}, {"winsock", "results"}, {})

(* DnsQueryEx: the context gives back the event and the records. *)
DnsQuery ==
    Program(
        While(<<Acquire("event", {}, Cleanup),
                Call({"event"}, {"results"}, {}, Cleanup)>> \o Records
              \o <<Release({"event", "results"})>>)
        \o <<Done>>, {"event", "results"}, {}, {}, {})

-------------------------------------------------------------------------------
(* IcmpTests and Icmp6Tests: a file that could not be made is used and       *)
(* closed all the same.                                                      *)
HostNameToAddresses ==
    <<Acquire("addresses", {"winsock"}, Thrown)>>
    \o While(<<Use({"addresses"}, {GoOn})>>) \o <<Release({"addresses"})>>

DoIpV4Ping == <<
    Use({}, Thrown),                                    \* InetPton
    Acquire("icmp", {}, {GoOn}),
    Use({"icmp"}, {[Exit EXCEPT !.drop = {"icmp"}]}),
    Release({"icmp"}) >>

Ping4 ==
    Program(<<Acquire("winsock", {}, Thrown)>> \o HostNameToAddresses
            \o DoIpV4Ping \o <<Done>>,
            {"winsock"}, Inside({"addresses"}, "winsock"), {}, {"icmp"})

PingOld ==
    Program(<<Acquire("icmp", {}, {GoOn}), Acquire("reply", {}, Cleanup),
              Use({"icmp", "reply"}, {GoOn}), Release({"icmp"}), Done>>,
            {}, {}, {"icmp", "reply"}, {"icmp"})

Ping6 ==
    Program(<<Acquire("winsock", {}, Thrown), Acquire("icmp", {}, {GoOn})>>
            \o HostNameToAddresses
            \o <<Use({"icmp"}, {GoOn}), Release({"icmp"}), Done>>,
            {}, Inside({"addresses"}, "winsock"), {"winsock"}, {"icmp"})

-------------------------------------------------------------------------------
(* WinHttp/winhttpclient.ixx: whatever fails throws, and main does not       *)
(* catch. WebSocket/main.cpp catches; its session is not looked at, and the  *)
(* socket it upgrades to is never closed as a handle.                        *)
HttpHandles == Inside({"connection", "request", "websocket"}, "session")

DoRequest ==
    Program(<<
        Acquire("session", {}, Thrown),
        Acquire("connection", {"session"}, Thrown),
        Acquire("request", {"connection"}, Thrown),
        Use({"request"}, Thrown), Use({"request"}, Thrown), Use({"request"}, Thrown) >>
        \o While(<<Use({"request"}, Thrown), Use({"request"}, Thrown)>>)
        \o <<Done>>, {"session", "connection", "request"}, HttpHandles, {}, {})

WebSocket ==
    Program(<<
        Acquire("session", {}, {GoOn}),
        Acquire("connection", {"session"}, Cleanup),
        Acquire("request", {"connection"}, Cleanup),
        Use({"request"}, Cleanup), Use({"request"}, Cleanup),   \* options
        Use({"request"}, Cleanup), Use({"request"}, Cleanup),   \* send, receive
        Acquire("websocket", {"request"}, Cleanup),
        Use({"websocket"}, Cleanup), Use({"websocket"}, Cleanup) >>
        \o While(<<Use({"websocket"}, Cleanup)>>)               \* fragments
        \o <<Use({"websocket"}, {GoOn}), Done>>,
        {"session", "connection", "request"}, HttpHandles,
        {"websocket"}, {"session"})

(* WebSocketProto: what fails throws and main does not catch. The request is *)
(* overwritten with null, which does not close it; the destructor sends a    *)
(* second close before the members go.                                       *)
InternalConnect == <<
    Acquire("session", {}, Thrown),
    Acquire("connection", {"session"}, {GoOn}),
    Acquire("request", {"connection"}, {GoOn}),
    Use({"request"}, Thrown), Use({"request"}, Thrown),     \* options
    Use({"request"}, Thrown), Use({"request"}, Thrown),
    Acquire("websocket", {"request"}, Thrown) >>

Close == <<Use({"websocket"}, {GoOn})>>

Receive ==
    <<Use({"websocket"}, Thrown)>> \o While(<<Use({"websocket"}, Thrown)>>) \o If(Close)

ProtoExchange ==
    Program(InternalConnect \o <<Use({"websocket"}, Thrown)>> \o Receive \o Close
            \o <<Release({"websocket"}), Release({"session"}),
                 Release({"connection"}), Done>>,
            {}, Inside({"websocket"}, "session"), {"request"},
            {"connection", "request"})

-------------------------------------------------------------------------------
(* WinSockServer, WinSockClient and NonBlockingSockets: RAII, and main       *)
(* catches. WinSock/demo.ixx: the same, and main does not.                   *)
Resolved(fails) ==
    <<Acquire("winsock", {}, fails), Acquire("addresses", {"winsock"}, fails)>>

SocketProgram(rows) ==
    Program(rows \o <<Done>>,
            {"winsock", "addresses", "listening", "client", "event"},
            Inside({"addresses", "listening", "client"}, "winsock"), {}, {})

EchoOnce == SocketProgram(
    Resolved(Cleanup)
    \o <<Acquire("listening", {"addresses"}, Cleanup),
         Use({"listening"}, Cleanup), Use({"listening"}, Cleanup),
         Acquire("client", {"listening"}, Cleanup),
         Release({"listening"}), Release({"addresses"}),
         Use({"client"}, Cleanup)>>                             \* Recv
    \o If(<<Use({"client"}, Cleanup), Release({"client"})>>))   \* Send, Close

(* The addresses are tried in turn; a socket that did not connect is closed. *)
Connected ==
    While(<<Acquire("client", {"addresses"}, Cleanup), Release({"client"})>>)
    \o <<Acquire("client", {"addresses"}, Cleanup), Use({"client"}, Cleanup),
         Release({"addresses"})>>

EchoClient == SocketProgram(
    Resolved(Cleanup) \o Connected
    \o <<Use({"client"}, Cleanup)>> \o While(<<Use({"client"}, Cleanup)>>))

OverlappedReceive == SocketProgram(
    Resolved(Cleanup) \o Connected
    \o <<Acquire("event", {}, Cleanup)>>
    \o While(<<Use({"client", "event"}, Cleanup), Use({"event"}, Cleanup),
               Use({"client", "event"}, Cleanup)>>))

BoundSocket == SocketProgram(
    Resolved(Thrown)
    \o <<Acquire("client", {"addresses"}, Thrown), Use({"client"}, Thrown)>>)

WinSockErrorText ==
    Program(
        If(<<Acquire("library", {}, {GoOn})>>)
        \o Try(<<Acquire("text", {}, {Out}), ReleaseIf({"library"}), Release({"text"})>>,
               {"library"}) \o <<Done>>, {}, {}, {}, {})

(* NonBlockingSocketsSend/main.cpp, everything by hand. *)
SendMany ==
    LET Quit(rs) == {Return(rs)}
        open == {"addresses", "listening"}
        Send == Use({"client", "event"}, {Jump({}, 4)})
    IN  Program(<<
            Acquire("winsock", {}, Cleanup),
            Acquire("addresses", {"winsock"}, Cleanup),
            Acquire("listening", {"addresses"}, Quit({"addresses"})),
            Use({"listening"}, Quit(open)), Use({"listening"}, Quit(open)),
            Acquire("client", {"listening"}, Quit(open)),
            Acquire("event", {}, Quit(open \cup {"client"})) >>
            \o While(<<Send, Either({1}), Either({1})>>)
            \o <<Release({"event"}), Release({"client"}), Release({"listening"}),
                 Release({"addresses"}), Release({"winsock"}), Done>>,
            {}, Inside(open \cup {"client"}, "winsock"), {"winsock"}, {})

-------------------------------------------------------------------------------
(* XSocket/main.cpp. An action of the library stays open from GetAction to   *)
(* CompleteAction; one that could not be had is completed all the same.      *)
RunLoop(handle) ==
    While(<<Acquire("action", {handle}, {GoOn}),
            Use({handle}, {GoOn}),                              \* the transport
            Release({"action"})>>)

Handshake == <<
    Use({"clientHandle"}, Cleanup), Acquire("headers", {}, Cleanup),
    Use({"serverHandle", "headers"}, Cleanup), Use({"clientHandle"}, Cleanup),
    Use({"serverHandle"}, Cleanup), Release({"headers"}) >>

XSocketMain ==
    Program(<<Acquire("clientHandle", {}, Cleanup), Acquire("serverHandle", {}, Cleanup)>>
            \o Handshake
            \o <<Use({"clientHandle"}, Cleanup)>> \o RunLoop("clientHandle")
            \o <<Use({"serverHandle"}, Cleanup)>> \o RunLoop("serverHandle")
            \o <<Done>>,
            {"clientHandle", "serverHandle", "headers"}, {}, {}, {"action"})

-------------------------------------------------------------------------------
NetworkTable ==
    [DnsCallback |-> DnsCallback, DnsEvent |-> DnsEvent, DnsQuery |-> DnsQuery,
     Ping4 |-> Ping4, PingOld |-> PingOld, Ping6 |-> Ping6,
     DoRequest |-> DoRequest, WebSocket |-> WebSocket,
     ProtoExchange |-> ProtoExchange,
     EchoOnce |-> EchoOnce, EchoClient |-> EchoClient,
     OverlappedReceive |-> OverlappedReceive, BoundSocket |-> BoundSocket,
     WinSockErrorText |-> WinSockErrorText, SendMany |-> SendMany,
     XSocketMain |-> XSocketMain]
===============================================================================
