----------------------------- MODULE CallSequence -----------------------------
(* The execution of a program written down as rows (CallRows): one step per  *)
(* call, which succeeds or fails as the operating system pleases.            *)
(* The system is every program of Table, one of them running.                *)
EXTENDS CallRows, FiniteSets

CONSTANT Table          \* program name -> program record

VARIABLES program,      \* the program that runs
          pc,           \* the row it is at
          held,         \* what it owns
          lost,         \* what it owned when its only pointer was overwritten
          missing,      \* what it used or gave back without owning it
          stage         \* "running", "returned", "exited" or "crashed"

vars == <<program, pc, held, lost, missing, stage>>

Me == Table[program]
Row == Me.rows[pc]

Resources(p) ==
    UNION {Table[p].rows[k].gets : k \in DOMAIN Table[p].rows}

CallsAssumption ==
    \A p \in DOMAIN Table :
       /\ Table[p].rows \in Seq([uses : SUBSET STRING, gets : SUBSET STRING,
                                 puts : SUBSET STRING, sweep : SUBSET STRING,
                                 next : SUBSET Int,
                                 fails : SUBSET [drop : SUBSET STRING,
                                                 to : {"exit", "return", "row"},
                                                 by : Int]])
       /\ Table[p].rows # <<>>
       /\ \A k \in DOMAIN Table[p].rows :
            LET row == Table[p].rows[k]
                ends == row.next
                          \cup {f.by : f \in {g \in row.fails : g.to = "row"}}
            IN  \A d \in ends : k + d \in DOMAIN Table[p].rows

Init ==
    /\ program \in DOMAIN Table
    /\ pc = 1
    /\ held = {}
    /\ lost = {}
    /\ missing = {}
    /\ stage = "running"

(* Seeded fault: a block that is stepped over takes the row behind it along. *)
GoTo_Fault(n) ==
    /\ pc' = IF n > 1 THEN pc + n + 1 ELSE pc + n
    /\ UNCHANGED stage

(* Execution goes on n rows from here; going back is a turn of a loop, which *)
(* may turn as often as its data make it. *)
GoTo(n) == pc' = pc + n /\ UNCHANGED stage

Stop(how) == stage' = how /\ UNCHANGED pc

(* The call does what it was made for. *)
Succeed ==
    /\ stage = "running"
    /\ Row.uses \cup Row.puts \subseteq held
    /\ held' = (held \cup Row.gets) \ (Row.puts \cup Row.sweep)
    /\ lost' = lost \cup (Row.gets \cap held)
    /\ \E n \in Row.next : GoTo(n)
    /\ UNCHANGED <<program, missing>>

(* The call fails and the code takes the branch it wrote for that. *)
Fail ==
    /\ stage = "running"
    /\ Row.uses \subseteq held
    /\ \E f \in Row.fails :
         /\ f.drop \subseteq held
         /\ \/ f.to = "row" /\ GoTo(f.by) /\ held' = held \ f.drop
            \/ /\ f.to = "return"
               /\ Stop("returned")
               /\ held' = held \ (f.drop \cup Me.scoped)
            \/ f.to = "exit" /\ Stop("exited") /\ held' = held \ f.drop
    /\ UNCHANGED <<program, lost, missing>>

(* A null or stale pointer is read, or something is given back that is not   *)
(* there to give back: from here on the program's behaviour is undefined.    *)
Misuse ==
    /\ stage = "running"
    /\ \E rs \in {Row.uses \cup Row.puts} \cup {f.drop : f \in Row.fails} :
         /\ ~(rs \subseteq held)
         /\ missing' = missing \cup (rs \ held)
    /\ Stop("crashed")
    /\ UNCHANGED <<program, held, lost>>

Ended == stage # "running" /\ UNCHANGED vars

Next == Succeed \/ Fail \/ Misuse \/ Ended

Spec == Init /\ [][Next]_vars

-------------------------------------------------------------------------------
(* Every variable keeps its type. *)
TypeOK ==
    /\ program \in DOMAIN Table
    /\ pc \in DOMAIN Me.rows
    /\ held \subseteq Resources(program)
    /\ lost \subseteq Resources(program)
    /\ missing \subseteq STRING
    /\ stage \in {"running", "returned", "exited", "crashed"}

(* Across every way the calls of a program can succeed and fail, no call is  *)
(* handed a pointer or handle the program does not own and nothing is given  *)
(* back twice, except what the program's table names as at risk.             *)
OnlyHeld == missing \subseteq Me.risks

(* What is built on something goes before it: interface pointers before      *)
(* CoUninitialize, contexts before their store, buffers before the session.  *)
(* Only what a program leaks at a return may be left standing on nothing.    *)
InnerGoesFirst ==
    \A w \in Me.within :
       w[1] \in held => \/ w[2] \in held
                        \/ stage = "returned" /\ w[1] \in Me.leaves

(* A program that returns has given back everything it acquired, on every    *)
(* path, and never overwrites its only pointer to something it owns, except  *)
(* for what its table names as left behind.                                  *)
NothingLeftBehind ==
    /\ lost \subseteq Me.leaves
    /\ stage = "returned" => held \subseteq Me.leaves
===============================================================================
