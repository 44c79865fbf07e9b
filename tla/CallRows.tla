------------------------------- MODULE CallRows -------------------------------
(* The vocabulary in which the straight-line programs of the repository are  *)
(* written down: a program that calls the operating system step by step and  *)
(* checks every result is a sequence of rows, one row per call.              *)
(*   uses   the handles, pointers and blocks the call reads                  *)
(*   gets   what the program owns once the call succeeded                    *)
(*   puts   what it gives back with the call (a Release, a free, a close)    *)
(*   sweep  what it gives back only where it has it (`if (p) free(p)`)       *)
(*   next   how far execution may move on when the call succeeded            *)
(*   fails  what the code may do when the call failed                        *)
(* What a scope gives back by itself (destructors, the label of a goto) is   *)
(* the program's `scoped` set, released by every return.                     *)
EXTENDS Integers, Sequences

(* A failure: what the branch releases by hand, and where it goes. *)
Exit == [drop |-> {}, to |-> "exit", by |-> 0]
Return(drop) == [drop |-> drop, to |-> "return", by |-> 0]
Jump(drop, n) == [drop |-> drop, to |-> "row", by |-> n]
GoOn == Jump({}, 1)
OutOf(drop) == [drop |-> drop, to |-> "out", by |-> 0]
Out == OutOf({})                                \* out of the enclosing Try

Thrown == {Exit}                                \* nobody catches it
Cleanup == {Return({})}                         \* to the end of the scope

Call(uses, gets, puts, fails) ==
    [uses |-> uses, gets |-> gets, puts |-> puts, sweep |-> {},
     next |-> {1}, fails |-> fails]

Acquire(r, uses, fails) == Call(uses, {r}, {}, fails)
Use(uses, fails) == Call(uses, {}, {}, fails)
Release(rs) == Call({}, {}, rs, {})
ReleaseIf(rs) == [Release({}) EXCEPT !.sweep = rs]

(* A branch or a loop that depends on data the model leaves out. *)
Either(offsets) == [Release({}) EXCEPT !.next = offsets]

If(body) == <<Either({1, Len(body) + 1})>> \o body
IfElse(body, other) ==
    <<Either({1, Len(body) + 2})>> \o body
    \o <<Either({Len(other) + 1})>> \o other
While(body) ==
    <<Either({1, Len(body) + 2})>> \o body \o <<Either({1, -Len(body)})>>

(* A block whose failures lead to its end, where its locals are given back   *)
(* if they were acquired: a function whose result the caller ignores, a      *)
(* `continue`, a `goto CLEANUP`.                                             *)
Try(body, locals) ==
    [k \in DOMAIN body |->
        [body[k] EXCEPT !.fails =
            {IF f.to = "out" THEN Jump(f.drop, Len(body) + 1 - k) ELSE f : f \in @}]]
    \o <<ReleaseIf(locals)>>

(* The end of the program, its scoped resources given back. *)
Done == [Release({}) EXCEPT !.next = {}, !.fails = {Return({})}]

(* `inner` may not be held once `outer` is given back. *)
Inside(inner, outer) == inner \X {outer}

Program(rows, scoped, within, leaves, risks) ==
    [rows |-> rows, scoped |-> scoped, within |-> within,
     leaves |-> leaves, risks |-> risks]
===============================================================================
