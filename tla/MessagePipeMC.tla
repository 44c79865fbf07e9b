---------------------------- MODULE MessagePipeMC ----------------------------
(* Payloads of no byte, one byte and more than one buffer; a header as long *)
(* as the buffer.                                                           *)
EXTENDS MessagePipe

MCHeader == <<8, 9>>
MCPayloads == {<<>>, <<1>>, <<1, 2, 3>>}
=============================================================================
