-------------------------- MODULE FileSystemLockMC --------------------------
(* Two processes, the first with two lock objects, and a third process.     *)
EXTENDS FileSystemLock

CONSTANTS p1, p2, p3, a, b, c, d

MCOwnerOf == [l \in {a, b, c, d} |-> IF l \in {a, b} THEN p1 ELSE IF l = c THEN p2 ELSE p3]
=============================================================================
