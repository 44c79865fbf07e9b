-------------------------- MODULE CallSequenceProofs --------------------------
(* The programs written down as rows, for every table: what every variable   *)
(* may hold follows from the shape of the rows alone. Whether a program      *)
(* keeps the rules about what it owns depends on the rows themselves; the    *)
(* tables are finite and TLC follows every execution of every one of them.   *)
EXTENDS CallSequence, TLAPS

-------------------------------------------------------------------------------
(* Types. *)

LEMMA RowTypes ==
    ASSUME CallsAssumption, NEW p \in DOMAIN Table,
           NEW k \in DOMAIN Table[p].rows
    PROVE  LET row == Table[p].rows[k]
           IN  /\ row.gets \subseteq Resources(p)
               /\ row.uses \subseteq STRING /\ row.puts \subseteq STRING
               /\ \A f \in row.fails : f.drop \subseteq STRING
               /\ \A d \in row.next : k + d \in DOMAIN Table[p].rows
               /\ \A f \in row.fails :
                    f.to = "row" => k + f.by \in DOMAIN Table[p].rows
<1>1. Table[p].rows[k] \in [uses : SUBSET STRING, gets : SUBSET STRING,
                            puts : SUBSET STRING, sweep : SUBSET STRING,
                            next : SUBSET Int,
                            fails : SUBSET [drop : SUBSET STRING,
                                            to : {"exit", "return", "row"},
                                            by : Int]]
  <2> DEFINE T == [uses : SUBSET STRING, gets : SUBSET STRING,
                   puts : SUBSET STRING, sweep : SUBSET STRING,
                   next : SUBSET Int,
                   fails : SUBSET [drop : SUBSET STRING,
                                   to : {"exit", "return", "row"},
                                   by : Int]]
  <2>1. Table[p].rows \in Seq(T)
    BY Zenon DEF CallsAssumption
  <2> HIDE DEF T
  <2>2. Table[p].rows[k] \in T
    BY <2>1
  <2> QED  BY <2>2 DEF T
<1>2. Table[p].rows[k].gets \subseteq Resources(p)
  BY DEF Resources
<1> DEFINE row == Table[p].rows[k]
           ends == row.next \cup {f.by : f \in {g \in row.fails : g.to = "row"}}
<1>3. \A d \in ends : k + d \in DOMAIN Table[p].rows
  BY Zenon DEF CallsAssumption
<1>4. ASSUME NEW f \in row.fails, f.to = "row" PROVE k + f.by \in DOMAIN Table[p].rows
  BY <1>3, <1>4
<1>5. \A d \in row.next : k + d \in DOMAIN Table[p].rows
  BY <1>3
<1>6. \A f \in row.fails : f.drop \subseteq STRING
  BY <1>1
<1> QED  BY <1>1, <1>2, <1>4, <1>5, <1>6

LEMMA TypesInit ==
    ASSUME CallsAssumption, Init  PROVE TypeOK
<1>1. Table[program].rows # <<>> /\ Table[program].rows \in Seq({Table[program].rows[k] :
                                                    k \in DOMAIN Table[program].rows})
  BY DEF CallsAssumption, Init
<1> QED  BY <1>1 DEF Init, TypeOK, Me

LEMMA TypesStep ==
    ASSUME CallsAssumption, TypeOK, [Next]_vars  PROVE TypeOK'
<1> USE DEF TypeOK, Me, Row
<1>1. CASE Succeed
  BY <1>1, RowTypes DEF Succeed, GoTo
<1>2. CASE Fail
  BY <1>2, RowTypes DEF Fail, GoTo, Stop
<1>3. CASE Misuse
  BY <1>3, RowTypes DEF Misuse, Stop
<1>4. CASE UNCHANGED vars
  BY <1>4 DEF vars
<1> QED  BY <1>1, <1>2, <1>3, <1>4 DEF Next, Ended

(* Every variable keeps its type in the execution of every program of a      *)
(* table whose rows are rows and whose jumps stay within the program.        *)
THEOREM TypesCorrect ==
    ASSUME CallsAssumption  PROVE Spec => []TypeOK
<1>1. Init => TypeOK
  BY TypesInit
<1>2. TypeOK /\ [Next]_vars => TypeOK'
  BY TypesStep
<1> QED  BY <1>1, <1>2, PTL DEF Spec
===============================================================================
