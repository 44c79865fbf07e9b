-------------------------- MODULE ThreadProgramsMC ---------------------------
(* A message of two bytes, so that its echo may come back in parts.          *)
EXTENDS ThreadPrograms

MCMessage == <<1, 2>>
=============================================================================
