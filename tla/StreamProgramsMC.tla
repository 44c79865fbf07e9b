-------------------------- MODULE StreamProgramsMC ---------------------------
(* Two messages, the first longer than the receive buffer of two bytes.     *)
(* Payloads of no byte, one byte and more than one buffer; a header as long *)
(* as the buffer; two writers and two readers of the list, who also read    *)
(* across its entries.  A handshake of two records, and responses of        *)
(* records from one unit to a whole packet, with line feeds and a zero      *)
(* among their bytes and tickets before and between, ended by an alert or   *)
(* by the stream.  A shared array of two messages and two servers, one      *)
(* after the other, each with its client.                                   *)
EXTENDS StreamPrograms

MCMessages == <<<<1, 2, 3>>, <<4, 5>>>>
MCHeader == <<8, 9>>
MCPayloads == {<<>>, <<1>>, <<1, 2, 3>>}
MCWriters == {"w1", "w2"}
MCReaders == {"r1", "r2"}
MCHandshake == <<2, 3>>
Data(bytes) == [kind |-> "data", bytes |-> bytes]
Ticket == [kind |-> "ticket", bytes |-> <<0, 0>>]
Alert == [kind |-> "alert", bytes |-> <<0>>]
MCResponses ==
    {<<Data(<<1, 10>>), Data(<<3>>), Ticket, Data(<<4, 5, 10, 7>>), Alert>>,
     <<Ticket, Data(<<0, 3>>), Data(<<10>>)>>}

(* SecureSocket/main.cpp:37 of tls_connect: "returns 0 on success or         *)
(* negative value on error", so main goes on only with a session.           *)
ConnectedMeansHandshaken == program = "tls" => Tls!ConnectedMeansHandshaken
=============================================================================
