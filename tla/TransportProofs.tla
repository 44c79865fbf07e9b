--------------------------- MODULE TransportProofs ---------------------------
(***************************************************************************)
(* XSocket, for every number of threads and calls and every length of      *)
(* buffer: the entries of the list stay a ring in both directions and none *)
(* leaks; and the stream of bytes stays intact for as long as no copy goes *)
(* beyond the end of its entry.  The invariants name the ring, a sequence  *)
(* of entries, outright: R.                                                *)
(* WinSockIOCP, for any clients and workers and every size of buffer: the  *)
(* invariant under which a live Connection has one operation under way and *)
(* no byte is lost or made up in number.                                   *)
(***************************************************************************)
EXTENDS TransportList, SequenceTheorems, FiniteSetTheorems, WellFoundedInduction, TLAPS

(* The first and the last entry of the ring are linked to its head.         *)
At(R, i) == IF i \in DOMAIN R THEN R[i] ELSE head

(* The entries of R are the ring, each of them once.                        *)
Linked(R) ==
    /\ R \in Seq(1 .. writes)
    /\ \A i, j \in DOMAIN R : R[i] = R[j] => i = j
    /\ \A i \in 0 .. Len(R) : /\ forward[At(R, i)] = At(R, i + 1)
                              /\ backward[At(R, i + 1)] = At(R, i)

(* An entry that is made belongs to its writer until it is linked in.       *)
Making == {"enter", "append", "link"}
Handed(R) ==
    \A t \in Writer :
        /\ pc[t] \in {"idle", "leave"} => entry[t] = NoNode
        /\ pc[t] \in Making =>
              /\ entry[t] \in 1 .. writes /\ \A i \in DOMAIN R : R[i] # entry[t]
              /\ \A u \in Writer : u # t => entry[u] # entry[t]

Allocated(R) ==
    alive = {head} \cup {R[i] : i \in DOMAIN R}
              \cup {entry[t] : t \in {u \in Writer : entry[u] # NoNode}}

(* Inside the critical section, where only one thread is, what was read of  *)
(* the ring still stands.                                                   *)
Inside == {"append", "link", "leave", "loop", "remove", "unlink"}
Standing(R) ==
    \A t \in Thread :
        /\ pc[t] \in Inside => lock = t
        /\ pc[t] = "link" => last[t] = At(R, Len(R)) /\ next[t] = head
        /\ pc[t] \in {"remove", "unlink"} => R # <<>> /\ entry[t] = R[1]
        /\ pc[t] = "unlink" => last[t] = head /\ next[t] = At(R, 2)

(* The assertion of ReadData ends the process with all its threads.         *)
AbortEndsAll == \A t, u \in Thread : pc[t] = "aborted" => pc[u] = "aborted"

ListTypes ==
    /\ pc \in [Thread -> {"idle", "enter", "append", "link", "leave", "loop", "remove", "unlink",
                          "assert", "aborted"}]
    /\ \A t \in Writer : pc[t] \notin {"loop", "remove", "unlink", "assert"}
    /\ AbortEndsAll
    /\ \A t \in Reader : pc[t] \notin {"append", "link"}
    /\ forward \in [Node -> Node \cup {NoNode}] /\ backward \in [Node -> Node \cup {NoNode}]
    /\ entry \in [Thread -> Node \cup {NoNode}]
    /\ last \in [Thread -> Node \cup {NoNode}] /\ next \in [Thread -> Node \cup {NoNode}]
    /\ writes \in 0 .. MaxWrites
    /\ lock \in Thread \cup {"free"}

RingInv(R) == Linked(R) /\ Handed(R) /\ Allocated(R) /\ Standing(R)

(* The bytes of an entry and how far they are read.                         *)
DataTypes ==
    /\ size \in [Node -> 0 .. ULong - 1] /\ index \in [Node -> 0 .. ULong - 1]
    /\ data \in [Node -> Seq(Nat)]
    /\ room \in [Thread -> 0 .. ULong - 1] /\ copied \in [Thread -> Nat]
    /\ written \in Seq(Nat) /\ read \in Seq(Nat)

Used(n) == index[n] = size[n]
Filled(R) ==
    /\ \A i \in DOMAIN R : Len(data[R[i]]) = size[R[i]] /\ index[R[i]] <= size[R[i]]
    /\ \A t \in Writer : pc[t] \in Making => index[entry[t]] = 0
    /\ \A n \in Node : index[n] <= size[n]
    /\ \A n \in Node : n > writes => index[n] = 0
Fresh(R) ==
    /\ \A i \in DOMAIN R : Used(R[i]) =>
         size[R[i]] = 0 \/ (i = 1 /\ \E t \in Thread : pc[t] \in {"remove", "unlink", "aborted"})
    /\ \A t \in Thread : pc[t] \in {"remove", "unlink"} => Used(R[1])
Kept(R) == [i \in DOMAIN R |-> Left(R[i])]
Streams(R) == read \o FlattenSeq(Kept(R)) = written

StreamInv(R) == DataTypes /\ Filled(R) /\ Fresh(R) /\ Streams(R)

-----------------------------------------------------------------------------
(* The least-number principle, for a set of numbers. *)
LEMMA Least ==
    ASSUME NEW N \in SUBSET Nat, N # {}
    PROVE  \E m \in N : \A k \in N : m <= k
<1>1. PICK m \in N : \A k \in N : ~(<<k, m>> \in OpToRel(<, Nat))
    BY WFMin, NatLessThanWellFounded, Zenon
<1>2. \A k \in N : ~(k < m)
    BY <1>1, Zenon DEF OpToRel
<1> QED  BY <1>2

LEMMA SetInduction ==
    ASSUME NEW N \in SUBSET Nat, 0 \in N, \A n \in N : n + 1 \in N
    PROVE  N = Nat
<1> SUFFICES ASSUME Nat \ N # {} PROVE FALSE  OBVIOUS
<1>1. PICK m \in Nat \ N : \A k \in Nat \ N : m <= k
    BY Least
<1>2. m # 0  OBVIOUS
<1>3. m - 1 \in N  BY <1>1, <1>2
<1> QED  BY <1>3

(* The function by which FlattenSeq is defined. *)
Joins(ss, g) ==
    g = [i \in 1 .. Len(ss) |-> IF i = 1 THEN ss[i] ELSE g[i - 1] \o ss[i]]

LEMMA JoinsExists ==
    ASSUME NEW S, NEW ss \in Seq(Seq(S))
    PROVE  \E g \in [1 .. Len(ss) -> Seq(S)] : Joins(ss, g)
<1> DEFINE Step(g, i) == g[i] = IF i = 1 THEN ss[i] ELSE g[i - 1] \o ss[i]
           N == {n \in Nat : n <= Len(ss) =>
                    \E g \in [1 .. n -> Seq(S)] : \A i \in 1 .. n : Step(g, i)}
<1>1. 0 \in N
  <2>1. 1 .. 0 = {}
    OBVIOUS
  <2>2. [i \in 1 .. 0 |-> <<>>] \in [1 .. 0 -> Seq(S)]
    BY <2>1
  <2>3. \E g \in [1 .. 0 -> Seq(S)] : \A i \in 1 .. 0 : Step(g, i)
    <3> HIDE DEF Step
    <3> QED
      BY <2>1, <2>2, Zenon
  <2> QED
    BY <2>3
<1>2. ASSUME NEW n \in N PROVE n + 1 \in N
  <2>1. SUFFICES ASSUME n + 1 <= Len(ss)
                 PROVE \E g \in [1 .. n + 1 -> Seq(S)] : \A i \in 1 .. n + 1 : Step(g, i)
    <3>1. n + 1 \in Nat
      OBVIOUS
    <3> HIDE DEF Step
    <3> QED
      BY <3>1, Zenon
  <2>2. PICK g \in [1 .. n -> Seq(S)] : \A i \in 1 .. n : Step(g, i)
    BY <2>1
  <2> DEFINE x == IF n + 1 = 1 THEN ss[n + 1] ELSE g[n] \o ss[n + 1]
             h == [i \in 1 .. n + 1 |-> IF i = n + 1 THEN x ELSE g[i]]
  <2>3. ss[n + 1] \in Seq(S)
    BY <2>1
  <2>4. x \in Seq(S)
    <3>1. CASE n = 0
      BY <2>3, <3>1
    <3>2. CASE n # 0
      <4>1. g[n] \in Seq(S)
        BY <3>2
      <4> QED
        BY <2>3, <3>2, <4>1
    <3> QED
      BY <3>1, <3>2
  <2> HIDE DEF x
  <2>5. h \in [1 .. n + 1 -> Seq(S)]
    BY <2>4
  <2>6. ASSUME NEW i \in 1 .. n + 1 PROVE Step(h, i)
    <3>1. CASE i = n + 1
      BY <3>1 DEF x
    <3>2. CASE i # n + 1
      <4>1. i \in 1 .. n /\ h[i] = g[i] /\ (i # 1 => h[i - 1] = g[i - 1])
        BY <3>2
      <4> QED
        BY <2>2, <4>1
    <3> QED
      BY <3>1, <3>2
  <2> QED
    BY <2>5, <2>6
<1>3. N = Nat
  <2> HIDE DEF N
  <2>1. N \in SUBSET Nat
    BY DEF N
  <2> QED
    BY <1>1, <1>2, <2>1, SetInduction
<1>4. PICK g \in [1 .. Len(ss) -> Seq(S)] : \A i \in 1 .. Len(ss) : Step(g, i)
  <2>1. Len(ss) \in Nat
    OBVIOUS
  <2>2. Len(ss) \in N
    <3> HIDE DEF N
    <3> QED
      BY <1>3, <2>1
  <2> HIDE DEF Step
  <2> QED
    BY <2>1, <2>2
<1>5. Joins(ss, g)
  BY <1>4 DEF Joins
<1> QED
  BY <1>5

LEMMA JoinsUnique ==
    ASSUME NEW ss, Len(ss) \in Nat, NEW g, NEW h, Joins(ss, g), Joins(ss, h)
    PROVE  g = h
<1> DEFINE N == {n \in Nat : n \in 1 .. Len(ss) => g[n] = h[n]}
<1>1. 0 \in N
  OBVIOUS
<1>2. ASSUME NEW n \in N PROVE n + 1 \in N
  <2>1. SUFFICES ASSUME n + 1 \in 1 .. Len(ss) PROVE g[n + 1] = h[n + 1]
    OBVIOUS
  <2>2. n # 0 => g[n] = h[n]
    BY <2>1
  <2>3. ASSUME NEW f, Joins(ss, f)
        PROVE  f[n + 1] = IF n + 1 = 1 THEN ss[n + 1] ELSE f[n] \o ss[n + 1]
    <3> DEFINE F == [i \in 1 .. Len(ss) |-> IF i = 1 THEN ss[i] ELSE f[i - 1] \o ss[i]]
    <3>1. f = F
      BY <2>3, Zenon DEF Joins
    <3>2. F[n + 1] = IF n + 1 = 1 THEN ss[n + 1] ELSE f[n] \o ss[n + 1]
      <4>1. (n + 1) - 1 = n
        OBVIOUS
      <4>2. F[n + 1] = IF n + 1 = 1 THEN ss[n + 1] ELSE f[(n + 1) - 1] \o ss[n + 1]
        BY <2>1, Zenon
      <4> QED
        BY <4>1, <4>2, Zenon
    <3> HIDE DEF F
    <3> QED
      BY <3>1, <3>2, Zenon
  <2> QED
    BY <2>2, <2>3
<1>3. N = Nat
  <2> HIDE DEF N
  <2>1. N \in SUBSET Nat
    BY DEF N
  <2> QED
    BY <1>1, <1>2, <2>1, SetInduction
<1>4. \A n \in 1 .. Len(ss) : g[n] = h[n]
  BY <1>3
<1> QED
  BY <1>4 DEF Joins

(* FlattenSeq of a sequence that is not empty is the last of its joins. *)
LEMMA FlattenIs ==
    ASSUME NEW S, NEW ss \in Seq(Seq(S)), NEW g, Joins(ss, g)
    PROVE  FlattenSeq(ss) = IF ss = <<>> THEN <<>> ELSE g[Len(ss)]
<1>1. Len(ss) \in Nat
  OBVIOUS
<1>2. CASE ss = <<>>
  BY <1>2 DEF FlattenSeq
<1>3. CASE ss # <<>>
  <2>1. Len(ss) # 0
    BY <1>3
  <2>2. g = CHOOSE f : Joins(ss, f)
    <3>1. \A f : Joins(ss, f) => f = g
      BY <1>1, JoinsUnique, Zenon
    <3> QED
      BY <3>1, Zenon
  <2>3. FlattenSeq(ss) = (CHOOSE f : Joins(ss, f))[Len(ss)]
    BY <2>1, Zenon DEF FlattenSeq, Joins
  <2> QED
    BY <1>3, <2>2, <2>3, Zenon
<1> QED
  BY <1>2, <1>3

JoiningAssociates(S) ==
    \A s, t, u \in Seq(S) : (s \o t) \o u = s \o (t \o u)

LEMMA Associates == ASSUME NEW S PROVE JoiningAssociates(S)
BY ConcatAssociative DEF JoiningAssociates

(* A sequence with one more element, and one without its last.              *)
LEMMA Longer ==
    ASSUME NEW T, NEW s \in Seq(T), NEW x \in T
    PROVE  /\ Append(s, x) \in Seq(T) /\ Append(s, x) # <<>>
           /\ Len(Append(s, x)) = Len(s) + 1 /\ Len(s) \in Nat
OBVIOUS

LEMMA Shorter ==
    ASSUME NEW T, NEW s \in Seq(T), s # <<>>
    PROVE  \E f \in Seq(T), x \in T :
              /\ s = Append(f, x) /\ Len(s) = Len(f) + 1
              /\ f = <<>> => s[1] = x /\ Tail(s) = <<>>
              /\ f # <<>> => /\ s[1] = f[1] /\ f[1] \in T
                            /\ Tail(f) \in Seq(T) /\ Tail(s) = Append(Tail(f), x)
<1>1. PICK f \in Seq(T), x \in T : s = Append(f, x)
  BY SequenceEmptyOrAppend
<1>2. Len(s) = Len(f) + 1
  BY <1>1
<1>3. f = <<>> => s[1] = x /\ Tail(s) = <<>>
  BY <1>1, HeadTailAppend
<1>4. f # <<>> => s[1] = f[1] /\ f[1] \in T /\ Tail(f) \in Seq(T)
  BY <1>1
<1>5. f # <<>> => Tail(s) = Append(Tail(f), x)
  BY <1>1, HeadTailAppend
<1> QED
  BY <1>1, <1>2, <1>3, <1>4, <1>5

(* FlattenSeq joins sequences into one, the last one last ...               *)
LEMMA FlattenAppend ==
    ASSUME NEW S, NEW ss \in Seq(Seq(S)), NEW x \in Seq(S)
    PROVE  /\ FlattenSeq(<<>>) = <<>>
           /\ FlattenSeq(ss) \in Seq(S)
           /\ FlattenSeq(Append(ss, x)) = FlattenSeq(ss) \o x
<1> DEFINE tt == Append(ss, x)
<1>1. PICK g \in [1 .. Len(ss) -> Seq(S)] : Joins(ss, g)
  BY JoinsExists, Zenon
<1>2. tt \in Seq(Seq(S)) /\ Len(tt) = Len(ss) + 1 /\ tt # <<>> /\ Len(ss) \in Nat
  BY Longer
<1>3. \A i \in 1 .. Len(ss) : tt[i] = ss[i]
  OBVIOUS
<1>4. tt[Len(ss) + 1] = x
  OBVIOUS
<1> HIDE DEF tt
<1> DEFINE y == IF ss = <<>> THEN x ELSE g[Len(ss)] \o x
           h == [i \in 1 .. Len(tt) |-> IF i = Len(tt) THEN y ELSE g[i]]
           e(i) == IF i = 1 THEN tt[i] ELSE h[i - 1] \o tt[i]
<1>5. ASSUME NEW i \in 1 .. Len(tt) PROVE h[i] = e(i)
  <2>1. CASE i = Len(tt)
    <3>1. h[i] = y /\ tt[i] = x
      BY <1>2, <1>4, <2>1
    <3>2. CASE ss = <<>>
      BY <1>2, <2>1, <3>1, <3>2
    <3>3. CASE ss # <<>>
      <4>1. i # 1 /\ h[i - 1] = g[Len(ss)]
        BY <1>2, <2>1, <3>3
      <4> QED
        BY <3>1, <3>3, <4>1
    <3> QED
      BY <3>2, <3>3
  <2>2. CASE i # Len(tt)
    <3>1. /\ i \in 1 .. Len(ss) /\ h[i] = g[i] /\ tt[i] = ss[i]
          /\ i # 1 => h[i - 1] = g[i - 1]
      BY <1>2, <1>3, <2>2
    <3>2. g[i] = IF i = 1 THEN ss[i] ELSE g[i - 1] \o ss[i]
      <4> DEFINE F == [j \in 1 .. Len(ss) |-> IF j = 1 THEN ss[j] ELSE g[j - 1] \o ss[j]]
      <4>1. F[i] = IF i = 1 THEN ss[i] ELSE g[i - 1] \o ss[i]
        BY <3>1, Zenon
      <4>2. g = F
        BY <1>1, Zenon DEF Joins
      <4> HIDE DEF F
      <4> QED
        BY <4>1, <4>2, Zenon
    <3> QED
      BY <3>1, <3>2, Zenon
  <2> QED
    BY <2>1, <2>2
<1>6. h = [i \in 1 .. Len(tt) |-> e(i)]
  <2> HIDE DEF e
  <2> QED
    BY <1>5, Zenon
<1>7. Joins(tt, h)
  BY <1>6, Zenon DEF Joins
<1>8. FlattenSeq(tt) = y
  <2>1. h[Len(tt)] = y
    BY <1>2
  <2> HIDE DEF h, y
  <2>2. FlattenSeq(tt) = h[Len(tt)]
    BY <1>2, <1>7, FlattenIs
  <2> QED
    BY <2>1, <2>2
<1>9. FlattenSeq(<<>>) = <<>>
  BY DEF FlattenSeq
<1>10. FlattenSeq(ss) = IF ss = <<>> THEN <<>> ELSE g[Len(ss)]
  BY <1>1, FlattenIs
<1>11. ss # <<>> => g[Len(ss)] \in Seq(S)
  <2>1. ss # <<>> => Len(ss) \in 1 .. Len(ss)
    OBVIOUS
  <2> QED
    BY <2>1
<1>12. y = FlattenSeq(ss) \o x
  <2>1. <<>> \o x = x
    OBVIOUS
  <2> QED
    BY <1>10, <2>1, Zenon
<1>13. FlattenSeq(ss) \in Seq(S)
  <2>1. <<>> \in Seq(S)
    OBVIOUS
  <2> QED
    BY <1>10, <1>11, <2>1, Zenon
<1> QED
  BY <1>8, <1>9, <1>12, <1>13, Zenon DEF tt

(* ... and the first one first.                                             *)
LEMMA FlattenCons ==
    ASSUME NEW S, NEW ss \in Seq(Seq(S)), ss # <<>>
    PROVE  FlattenSeq(ss) = ss[1] \o FlattenSeq(Tail(ss))
<1> DEFINE P(tt) == tt # <<>> => FlattenSeq(tt) = tt[1] \o FlattenSeq(Tail(tt))
           N == {n \in Nat : \A tt \in Seq(Seq(S)) : Len(tt) = n => P(tt)}
<1>1. 0 \in N
  <2>1. \A tt \in Seq(Seq(S)) : Len(tt) = 0 => tt = <<>>
    OBVIOUS
  <2> QED
    BY <2>1
<1>2. ASSUME NEW n \in N PROVE n + 1 \in N
  <2>1. SUFFICES ASSUME NEW tt \in Seq(Seq(S)), Len(tt) = n + 1
                 PROVE  FlattenSeq(tt) = tt[1] \o FlattenSeq(Tail(tt))
    <3>1. n + 1 \in Nat
      OBVIOUS
    <3> QED
      BY <3>1, Zenon
  <2>2. PICK f \in Seq(Seq(S)), x \in Seq(S) :
          /\ tt = Append(f, x) /\ Len(tt) = Len(f) + 1
          /\ f = <<>> => tt[1] = x /\ Tail(tt) = <<>>
          /\ f # <<>> => /\ tt[1] = f[1] /\ f[1] \in Seq(S)
                        /\ Tail(f) \in Seq(Seq(S)) /\ Tail(tt) = Append(Tail(f), x)
    <3>1. tt # <<>>
      BY <2>1
    <3> DEFINE T == Seq(S)
    <3>2. tt \in Seq(T)
      OBVIOUS
    <3> HIDE DEF T
    <3>3. \E f \in Seq(T), x \in T :
            /\ tt = Append(f, x) /\ Len(tt) = Len(f) + 1
            /\ f = <<>> => tt[1] = x /\ Tail(tt) = <<>>
            /\ f # <<>> => /\ tt[1] = f[1] /\ f[1] \in T
                          /\ Tail(f) \in Seq(T) /\ Tail(tt) = Append(Tail(f), x)
      BY <3>1, <3>2, Shorter
    <3> QED
      BY <3>3, Zenon DEF T
  <2>3. FlattenSeq(tt) = FlattenSeq(f) \o x
    BY <2>2, FlattenAppend
  <2>4. CASE f = <<>>
    <3>1. x \o <<>> = x /\ <<>> \o x = x
      OBVIOUS
    <3>2. FlattenSeq(<<>>) = <<>>
      BY FlattenAppend
    <3> QED
      BY <2>2, <2>3, <2>4, <3>1, <3>2, Zenon
  <2>5. CASE f # <<>>
    <3>1. FlattenSeq(f) = f[1] \o FlattenSeq(Tail(f))
      <4>1. Len(f) = n
        BY <2>1, <2>2
      <4> QED
        BY <2>5, <4>1
    <3>2. FlattenSeq(Tail(tt)) = FlattenSeq(Tail(f)) \o x /\ FlattenSeq(Tail(f)) \in Seq(S)
      BY <2>2, <2>5, FlattenAppend
    <3>3. (f[1] \o FlattenSeq(Tail(f))) \o x = f[1] \o (FlattenSeq(Tail(f)) \o x)
      <4>1. f[1] \in Seq(S) /\ FlattenSeq(Tail(f)) \in Seq(S) /\ x \in Seq(S)
        BY <2>2, <2>5, <3>2, Zenon
      <4>2. JoiningAssociates(S)
        BY Associates
      <4> QED
        BY <4>1, <4>2, Zenon DEF JoiningAssociates
    <3> QED
      BY <2>2, <2>3, <2>5, <3>1, <3>2, <3>3, Zenon
  <2> QED
    BY <2>4, <2>5
<1>3. N = Nat
  <2> HIDE DEF N
  <2>1. N \in SUBSET Nat
    BY DEF N
  <2> QED
    BY <1>1, <1>2, <2>1, SetInduction
<1>4. Len(ss) \in N
  <2>1. Len(ss) \in Nat
    OBVIOUS
  <2> HIDE DEF N
  <2> QED
    BY <1>3, <2>1
<1> HIDE DEF P
<1>5. P(ss)
  BY <1>4
<1> QED
  BY <1>5 DEF P

-----------------------------------------------------------------------------
(* One more entry of the walk along the forward links.                      *)
Grow(w) ==
    LET f == forward[IF w = <<>> THEN head ELSE Last(w)]
    IN  IF f \in alive \ {head} /\ ~Contains(w, f) THEN Append(w, f) ELSE w

Walks(g) == g = [n \in 0 .. MaxWrites |-> IF n = 0 THEN <<>> ELSE Grow(g[n - 1])]

(* A ring has no more entries than calls made them.                         *)
LEMMA RingIsShort ==
    ASSUME NEW m \in Nat, NEW R \in Seq(1 .. m), \A i, j \in DOMAIN R : R[i] = R[j] => i = j
    PROVE  Len(R) <= m
<1>1. ASSUME NEW n \in Nat PROVE IsFiniteSet(1 .. n) /\ Cardinality(1 .. n) = n
  <2>1. IsFiniteSet(1 .. n) /\ Cardinality(1 .. n) = IF 1 > n THEN 0 ELSE n - 1 + 1
    BY FS_Interval
  <2> QED
    BY <2>1
<1>2. Len(R) \in Nat
  OBVIOUS
<1>3. R \in [1 .. Len(R) -> 1 .. m]
  OBVIOUS
<1>4. SUFFICES ASSUME ~(Len(R) <= m) PROVE FALSE
  OBVIOUS
<1>5. m < Len(R)
  BY <1>4
<1>6. \E x, y \in 1 .. Len(R) : x # y /\ R[x] = R[y]
  <2>1. /\ IsFiniteSet(1 .. m) /\ IsFiniteSet(1 .. Len(R))
        /\ Cardinality(1 .. m) < Cardinality(1 .. Len(R))
    BY <1>1, <1>2, <1>5
  <2> QED
    BY <1>3, <2>1, FS_PigeonHole
<1> QED
  BY <1>6

LEMMA Begins ==
    ASSUME NEW S, NEW s \in Seq(S), NEW k \in 0 .. Len(s)
    PROVE  /\ SubSeq(s, 1, k) \in Seq(S) /\ Len(SubSeq(s, 1, k)) = k
           /\ \A i \in 1 .. k : SubSeq(s, 1, k)[i] = s[i]
OBVIOUS

LEMMA Grows ==
    ASSUME ListTypes, NEW R, Linked(R), Allocated(R), NEW k \in 0 .. Len(R)
    PROVE  Grow(SubSeq(R, 1, k)) = IF k < Len(R) THEN SubSeq(R, 1, k + 1) ELSE R
<1> DEFINE w == SubSeq(R, 1, k)
           f == forward[IF w = <<>> THEN head ELSE Last(w)]
<1>1. R \in Seq(1 .. writes) /\ Len(R) \in Nat
  BY DEF Linked
<1>2. w \in Seq(1 .. writes) /\ Len(w) = k /\ \A i \in 1 .. k : w[i] = R[i]
  BY <1>1, Begins
<1> HIDE DEF w
<1>3. (IF w = <<>> THEN head ELSE Last(w)) = At(R, k)
  BY <1>1, <1>2 DEF At, Last
<1>4. f = At(R, k + 1)
  BY <1>3 DEF Linked
<1>5. CASE k < Len(R)
  <2>1. f = R[k + 1] /\ f # head /\ f \in alive
    <3>1. k + 1 \in DOMAIN R
      BY <1>1, <1>5
    <3>2. R[k + 1] \in 1 .. writes /\ R[k + 1] \in alive
      <4>1. R[k + 1] \in 1 .. writes
        <5>1. k + 1 \in 1 .. Len(R)
          BY <1>1, <1>5
        <5> QED
          BY <1>1, <5>1, ElementOfSeq
      <4> QED
        BY <3>1, <4>1 DEF Allocated
    <3>3. R[k + 1] # head
      BY <3>2 DEF ListTypes, head
    <3> QED
      BY <1>4, <3>1, <3>2, <3>3 DEF At
  <2>2. ~Contains(w, f)
    BY <1>1, <1>2, <1>5, <2>1 DEF Contains, Linked
  <2>3. Grow(w) = Append(w, f)
    BY <2>1, <2>2 DEF Grow
  <2>4. Append(w, R[k + 1]) = SubSeq(R, 1, k + 1)
    BY <1>1, <1>5 DEF w
  <2> QED
    BY <1>5, <2>1, <2>3, <2>4 DEF w
<1>6. CASE k = Len(R)
  <2>1. f = head
    BY <1>1, <1>4, <1>6 DEF At
  <2>2. Grow(w) = w
    BY <2>1 DEF Grow
  <2>3. w = R
    BY <1>1, <1>6 DEF w
  <2> QED
    BY <1>6, <2>2, <2>3 DEF w
<1> QED
  BY <1>1, <1>5, <1>6

(* The ring that Ring finds is the one that is linked.                      *)
LEMMA RingIs ==
    ASSUME SizesAssumption, ListTypes, NEW R, Linked(R), Allocated(R)
    PROVE  Ring = R
<1> DEFINE V == [n \in 0 .. MaxWrites |-> SubSeq(R, 1, IF n < Len(R) THEN n ELSE Len(R))]
<1>1. R \in Seq(1 .. writes) /\ Len(R) \in Nat /\ MaxWrites \in Nat /\ writes \in 0 .. MaxWrites
  BY DEF Linked, ListTypes, SizesAssumption
<1>2. Len(R) <= MaxWrites
  <2>1. Len(R) <= writes
    BY <1>1, RingIsShort DEF Linked
  <2> QED
    BY <1>1, <2>1
<1>3. V[MaxWrites] = R
  BY <1>1, <1>2
<1>4. ASSUME NEW n \in 0 .. MaxWrites PROVE V[n] = IF n = 0 THEN <<>> ELSE Grow(V[n - 1])
  <2>1. CASE n = 0
    BY <1>1, <2>1
  <2>2. CASE n # 0 /\ n <= Len(R)
    <3>0. n - 1 \in 0 .. Len(R) /\ n - 1 < Len(R) /\ n - 1 \in 0 .. MaxWrites
      BY <1>1, <2>2
    <3>1. V[n - 1] = SubSeq(R, 1, n - 1) /\ V[n] = SubSeq(R, 1, n)
      <4>1. /\ (IF n - 1 < Len(R) THEN n - 1 ELSE Len(R)) = n - 1
            /\ (IF n < Len(R) THEN n ELSE Len(R)) = n
        BY <1>1, <2>2, <3>0
      <4> QED
        BY <3>0, <4>1, Zenon
    <3>2. Grow(SubSeq(R, 1, n - 1)) = SubSeq(R, 1, (n - 1) + 1)
      BY <3>0, Grows
    <3>3. (n - 1) + 1 = n
      OBVIOUS
    <3> HIDE DEF V
    <3> QED
      BY <2>2, <3>1, <3>2, <3>3
  <2>3. CASE n # 0 /\ n > Len(R)
    <3>1. V[n - 1] = SubSeq(R, 1, Len(R)) /\ V[n] = SubSeq(R, 1, Len(R))
      BY <1>1, <2>3
    <3>2. Grow(SubSeq(R, 1, Len(R))) = R
      BY <1>1, Grows
    <3>3. SubSeq(R, 1, Len(R)) = R
      BY <1>1
    <3> HIDE DEF V
    <3> QED
      BY <2>3, <3>1, <3>2, <3>3
  <2>4. n = 0 \/ (n # 0 /\ n <= Len(R)) \/ (n # 0 /\ n > Len(R))
    BY <1>1
  <2> HIDE DEF V
  <2> QED
    BY <2>1, <2>2, <2>3, <2>4
<1>5. Walks(V)
  <2> DEFINE e(n) == IF n = 0 THEN <<>> ELSE Grow(V[n - 1])
             v(n) == SubSeq(R, 1, IF n < Len(R) THEN n ELSE Len(R))
  <2>1. V = [n \in 0 .. MaxWrites |-> V[n]]
    OBVIOUS
  <2> HIDE DEF V
  <2>2. V = [n \in 0 .. MaxWrites |-> e(n)]
    BY <1>4, <2>1, Zenon
  <2> QED
    BY <2>2, Zenon DEF Walks
<1> HIDE DEF V
<1>6. ASSUME NEW g, Walks(g) PROVE g = V
  <2> DEFINE N == {n \in Nat : n \in 0 .. MaxWrites => g[n] = V[n]}
  <2>1. ASSUME NEW n \in 0 .. MaxWrites PROVE g[n] = IF n = 0 THEN <<>> ELSE Grow(g[n - 1])
    <3> DEFINE F == [m \in 0 .. MaxWrites |-> IF m = 0 THEN <<>> ELSE Grow(g[m - 1])]
    <3>1. F[n] = IF n = 0 THEN <<>> ELSE Grow(g[n - 1])
      BY Zenon
    <3>2. g = F
      BY <1>6, Zenon DEF Walks
    <3> HIDE DEF F
    <3> QED
      BY <3>1, <3>2, Zenon
  <2>2. 0 \in N
    <3>1. 0 \in 0 .. MaxWrites
      BY <1>1
    <3> QED
      BY <1>4, <2>1, <3>1
  <2>3. ASSUME NEW n \in N PROVE n + 1 \in N
    <3>1. SUFFICES ASSUME n + 1 \in 0 .. MaxWrites PROVE g[n + 1] = V[n + 1]
      OBVIOUS
    <3>2. g[n] = V[n] /\ n + 1 # 0 /\ (n + 1) - 1 = n
      BY <1>1, <3>1
    <3> QED
      BY <1>4, <2>1, <3>1, <3>2
  <2>4. N = Nat
    <3> HIDE DEF N
    <3>1. N \in SUBSET Nat
      BY DEF N
    <3> QED
      BY <2>2, <2>3, <3>1, SetInduction
  <2>5. \A n \in 0 .. MaxWrites : g[n] = V[n]
    BY <1>1, <2>4
  <2>6. /\ g = [n \in 0 .. MaxWrites |-> g[n]]
        /\ V = [n \in 0 .. MaxWrites |-> V[n]]
    BY <1>5, <1>6 DEF Walks
  <2> QED
    BY <2>5, <2>6, Zenon
<1>7. V = CHOOSE g : Walks(g)
  BY <1>5, <1>6, Zenon
<1>8. Ring = (CHOOSE g : Walks(g))[MaxWrites]
  BY Zenon DEF Ring, Walks, Grow
<1> QED
  BY <1>3, <1>7, <1>8, Zenon

-----------------------------------------------------------------------------
(* At, when an entry is added at the end or taken from the front.           *)
LEMMA AtEntries ==
    ASSUME NEW m \in Nat, NEW R \in Seq(1 .. m)
    PROVE  /\ Len(R) \in Nat /\ DOMAIN R = 1 .. Len(R)
           /\ \A i \in Nat : At(R, i) \in 0 .. m
           /\ \A i \in Nat : At(R, i) = head <=> ~(i \in 1 .. Len(R))
           /\ \A i \in DOMAIN R : At(R, i) = R[i] /\ R[i] \in 1 .. m
BY DEF At, head

LEMMA AtAppend ==
    ASSUME NEW m \in Nat, NEW R \in Seq(1 .. m), NEW e \in 1 .. m
    PROVE  /\ Append(R, e) \in Seq(1 .. m) /\ Len(Append(R, e)) = Len(R) + 1
           /\ DOMAIN Append(R, e) = 1 .. Len(R) + 1
           /\ \A i \in 1 .. Len(R) : Append(R, e)[i] = R[i]
           /\ Append(R, e)[Len(R) + 1] = e
           /\ \A i \in Nat : At(Append(R, e), i) = IF i = Len(R) + 1 THEN e ELSE At(R, i)
BY DEF At, head

LEMMA AtTail ==
    ASSUME NEW m \in Nat, NEW R \in Seq(1 .. m), R # <<>>
    PROVE  /\ Tail(R) \in Seq(1 .. m) /\ Len(Tail(R)) = Len(R) - 1 /\ Len(R) \in Nat \ {0}
           /\ DOMAIN Tail(R) = 1 .. Len(R) - 1
           /\ \A i \in 1 .. Len(R) - 1 : Tail(R)[i] = R[i + 1]
           /\ \A i \in Nat : At(Tail(R), i) = IF i = 0 THEN head ELSE At(R, i + 1)
BY DEF At, head

(* Where some thread is still at work, no thread is aborted.                *)
LEMMA Running ==
    ASSUME ListTypes, NEW t \in Thread, pc[t] # "aborted"
    PROVE  \A u \in Thread : pc[u] # "aborted"
BY DEF ListTypes, AbortEndsAll

(* A step moves one thread that was not aborted, or aborts them all.        *)
Moves ==
    \/ pc' = pc
    \/ pc' = [u \in Thread |-> "aborted"]
    \/ \E t \in Thread : /\ pc[t] # "aborted" /\ pc'[t] # "aborted"
                         /\ \A u \in Thread : u # t => pc'[u] = pc[u]

LEMMA StepMoves == ASSUME SizesAssumption, ListTypes, [Next]_vars PROVE Moves
<1>t. /\ Writer \subseteq Thread /\ Reader \subseteq Thread
      /\ DOMAIN pc = Thread
  BY DEF Thread, ListTypes
<1>1. ASSUME NEW t \in Thread, NEW l, pc' = [pc EXCEPT ![t] = l], l # "aborted", pc[t] # "aborted"
      PROVE  Moves
  BY <1>1, <1>t DEF Moves
<1>2. ASSUME NEW t \in Writer, WriteData(t) PROVE Moves
  <2>1. \/ pc' = pc
        \/ /\ pc[t] # "aborted"
           /\ \E l \in {"enter", "append", "loop", "link", "leave", "idle", "assert"} :
                 pc' = [pc EXCEPT ![t] = l]
    BY <1>2 DEF WriteData, Allocate, EnterCriticalSection, AppendTailReads, AppendTailLinks,
                LeaveCriticalSection, Goto
  <2> QED
    BY <1>1, <1>t, <2>1 DEF Moves
<1>3. ASSUME NEW t \in Reader, ReadData(t) PROVE Moves
  <2>1. \/ pc' = pc \/ pc' = [u \in Thread |-> "aborted"]
        \/ /\ pc[t] # "aborted"
           /\ \E l \in {"enter", "append", "loop", "leave", "idle", "assert", "remove", "unlink"} :
                 pc' = [pc EXCEPT ![t] = l]
    BY <1>3 DEF ReadData, BeginRead, EnterCriticalSection, ReadLoop, RemoveHeadReads,
                RemoveHeadUnlinks, LeaveCriticalSection, Return, Goto
  <2> QED
    BY <1>1, <1>t, <2>1 DEF Moves
<1> QED
  BY <1>2, <1>3 DEF Next, Moves, vars

(* The entries and links stay numbers of entries.                           *)
LEMMA ListTyped ==
    ASSUME SizesAssumption, ListTypes, NEW R, RingInv(R), [Next]_vars
    PROVE  ListTypes'
<1> USE DEF ListTypes, Goto, Forget
<1>t. /\ Writer \subseteq Thread /\ Reader \subseteq Thread
      /\ \A t \in Writer : t \notin Reader
      /\ writes \in Nat /\ MaxWrites \in Nat
      /\ NoNode \in Node \cup {NoNode} /\ head \in Node
  BY DEF SizesAssumption, Thread, Node, head
<1>a. AbortEndsAll'
  BY StepMoves DEF Moves, AbortEndsAll
<1>1. ASSUME NEW t \in Writer, Allocate(t) PROVE ListTypes'
  <2>1. /\ UNCHANGED <<forward, backward, lock, last, next>>
        /\ writes' = writes + 1 /\ writes < MaxWrites
        /\ \/ UNCHANGED <<entry, pc>>
           \/ /\ pc' = [pc EXCEPT ![t] = "enter"]
              /\ entry' = [entry EXCEPT ![t] = writes + 1]
    BY <1>1 DEF Allocate
  <2>2. writes' \in 0 .. MaxWrites /\ writes + 1 \in Node
    BY <1>t, <2>1 DEF Node
  <2> QED
    BY <1>t, <1>a, <2>1, <2>2
<1>2. ASSUME NEW t \in Thread, EnterCriticalSection(t) PROVE ListTypes'
  <2>1. pc' = [pc EXCEPT ![t] = IF t \in Writer THEN "append" ELSE "loop"]
        /\ lock' = t /\ UNCHANGED <<forward, backward, entry, last, next, writes>>
    BY <1>2 DEF EnterCriticalSection, fields, counts, locals
  <2>2. CASE t \in Writer
    BY <2>1, <2>2, <1>t, <1>a
  <2>3. CASE t \in Reader
    BY <2>1, <2>3, <1>t, <1>a
  <2> QED
    BY <2>2, <2>3 DEF Thread
<1>3. ASSUME NEW t \in Writer, AppendTailReads(t) PROVE ListTypes'
  <2>1. /\ backward[head] \in Node \cup {NoNode}
        /\ forward[backward[head]] \in Node \cup {NoNode}
    <3>1. R \in Seq(1 .. writes) /\ Len(R) \in 0 .. Len(R)
      BY <1>t, AtEntries DEF RingInv, Linked
    <3>2. backward[At(R, Len(R) + 1)] = At(R, Len(R)) /\ At(R, Len(R) + 1) = head
      BY <3>1, <1>t, AtEntries DEF RingInv, Linked
    <3>3. At(R, Len(R)) \in Node
      BY <3>1, <1>t, AtEntries DEF Node
    <3> QED
      BY <3>2, <3>3, <1>t
  <2> QED
    BY <1>3, <1>t, <1>a, <2>1 DEF AppendTailReads, fields, counts
<1>4. ASSUME NEW t \in Writer, AppendTailLinks(t) PROVE ListTypes'
  <2>1. entry[t] \in Node /\ last[t] \in Node \cup {NoNode} /\ next[t] \in Node \cup {NoNode}
    BY <1>4, <1>t DEF AppendTailLinks, RingInv, Handed, Making, Node
  <2> QED
    BY <1>4, <1>t, <1>a, <2>1 DEF AppendTailLinks, counts
<1>5. ASSUME NEW t \in Thread, LeaveCriticalSection(t) PROVE ListTypes'
  <2>1. /\ pc' = [pc EXCEPT ![t] = IF t \in Writer THEN "idle" ELSE "assert"]
        /\ pc[t] = "leave" /\ lock' = "free"
        /\ UNCHANGED <<forward, backward, entry, last, next, writes>>
    BY <1>5 DEF LeaveCriticalSection, fields, counts, locals
  <2>2. CASE t \in Writer
    BY <2>1, <2>2, <1>t, <1>a
  <2>3. CASE t \in Reader
    BY <2>1, <2>3, <1>t, <1>a
  <2> QED
    BY <2>2, <2>3 DEF Thread
<1>6. ASSUME NEW t \in Reader, BeginRead(t) PROVE ListTypes'
  BY <1>6, <1>t, <1>a DEF BeginRead, fields
<1>7. ASSUME NEW t \in Reader, ReadLoop(t) PROVE ListTypes'
  BY <1>7, <1>t, <1>a DEF ReadLoop, counts
<1>8. ASSUME NEW t \in Reader, RemoveHeadReads(t) PROVE ListTypes'
  <2>1. /\ backward[forward[head]] \in Node \cup {NoNode}
        /\ forward[forward[head]] \in Node \cup {NoNode}
    <3>1. R \in Seq(1 .. writes) /\ 0 \in 0 .. Len(R)
      BY <1>t, AtEntries DEF RingInv, Linked
    <3>2. forward[At(R, 0)] = At(R, 1) /\ At(R, 0) = head
      BY <3>1, <1>t, AtEntries DEF RingInv, Linked
    <3>3. At(R, 1) \in Node
      BY <3>1, <1>t, AtEntries DEF Node
    <3> QED
      BY <3>2, <3>3, <1>t
  <2> QED
    BY <1>8, <1>t, <1>a, <2>1 DEF RemoveHeadReads, fields, counts
<1>9. ASSUME NEW t \in Reader, RemoveHeadUnlinks(t) PROVE ListTypes'
  BY <1>9, <1>t, <1>a DEF RemoveHeadUnlinks, counts
<1>10. CASE UNCHANGED vars
  BY <1>10, <1>a DEF vars, fields, locals, counts
<1>11. ASSUME NEW t \in Reader, Return(t) PROVE ListTypes'
  BY <1>11, <1>t, <1>a DEF Return, fields, counts
<1> QED
  BY <1>1, <1>2, <1>3, <1>4, <1>5, <1>6, <1>7, <1>8, <1>9, <1>10, <1>11, <1>t
     DEF Next, WriteData, ReadData

-----------------------------------------------------------------------------
(* A step that leaves the links alone leaves the ring linked.               *)
LEMMA StillLinked ==
    ASSUME NEW R, Linked(R), writes \in Nat, writes' \in Nat, writes <= writes',
           UNCHANGED <<forward, backward>>
    PROVE  Linked(R)'
<1>1. R \in Seq(1 .. writes')
  BY DEF Linked
<1> QED
  BY <1>1 DEF Linked, At, head

(* A thread that comes into the critical section or moves in it.            *)
LEMMA StillStanding ==
    ASSUME ListTypes, NEW R, Standing(R), NEW t \in Thread, \A u \in Thread : u # t => pc[u] \notin Inside,
           \A u \in Thread : u # t => pc'[u] = pc[u],
           pc'[t] \in Inside => lock' = t,
           pc'[t] = "link" => last'[t] = At(R, Len(R)) /\ next'[t] = head,
           pc'[t] \in {"remove", "unlink"} => R # <<>> /\ entry'[t] = R[1],
           pc'[t] = "unlink" => last'[t] = head /\ next'[t] = At(R, 2)
    PROVE  Standing(R)'
BY DEF Standing, Inside, At, head

(* Only one thread is in the critical section.                              *)
LEMMA Alone ==
    ASSUME SizesAssumption, NEW R, Standing(R), NEW t \in Thread, lock \in {t, "free"}
    PROVE  \A u \in Thread : u # t => pc[u] \notin Inside
BY DEF Standing, SizesAssumption

(* A thread that makes nothing and drops nothing that is made.              *)
LEMMA StillHanded ==
    ASSUME SizesAssumption, ListTypes, NEW R, Handed(R), Allocated(R), NEW t \in Thread,
           writes' = writes, alive' = alive,
           \A u \in Thread : u # t => pc'[u] = pc[u] /\ entry'[u] = entry[u],
           t \in Writer => /\ entry'[t] = entry[t]
                           /\ pc'[t] \in Making => pc[t] \in Making
                           /\ pc'[t] \in {"idle", "leave"} => pc[t] \in {"idle", "leave"}
    PROVE  Handed(R)' /\ Allocated(R)'
<1>1. ASSUME NEW u \in Writer
      PROVE  /\ entry'[u] = entry[u]
             /\ pc'[u] \in Making => pc[u] \in Making
             /\ pc'[u] \in {"idle", "leave"} => pc[u] \in {"idle", "leave"}
  <2>1. CASE u = t
    <3>1. t \in Writer
      BY <2>1
    <3>2. /\ entry'[t] = entry[t]
          /\ pc'[t] \in Making => pc[t] \in Making
          /\ pc'[t] \in {"idle", "leave"} => pc[t] \in {"idle", "leave"}
      BY <3>1
    <3> QED
      BY <2>1, <3>2, Zenon
  <2>2. CASE u # t
    BY <2>2 DEF Thread
  <2> QED
    BY <2>1, <2>2
<1>2. Handed(R)'
  BY <1>1 DEF Handed, Making
<1> QED
  BY <1>1, <1>2 DEF Allocated

(* Every step that leaves the ring as it is.                                *)
LEMMA RingStands ==
    ASSUME SizesAssumption, ListTypes, NEW R, RingInv(R),
           \/ UNCHANGED vars
           \/ \E t \in Writer : Allocate(t) \/ AppendTailReads(t)
           \/ \E t \in Reader :
                BeginRead(t) \/ ReadLoop(t) \/ RemoveHeadReads(t) \/ Return(t)
           \/ \E t \in Thread : EnterCriticalSection(t) \/ LeaveCriticalSection(t)
    PROVE  RingInv(R)'
<1>t. /\ Writer \subseteq Thread /\ Reader \subseteq Thread
      /\ \A t \in Writer : t \notin Reader
      /\ writes \in Nat /\ MaxWrites \in Nat
      /\ pc \in [Thread -> {"idle", "enter", "append", "link", "leave", "loop", "remove", "unlink",
                            "assert", "aborted"}]
      /\ entry \in [Thread -> Node \cup {NoNode}]
      /\ last \in [Thread -> Node \cup {NoNode}] /\ next \in [Thread -> Node \cup {NoNode}]
  BY DEF SizesAssumption, Thread, ListTypes
<1>r. /\ R \in Seq(1 .. writes) /\ Len(R) \in Nat
      /\ Linked(R) /\ Handed(R) /\ Allocated(R) /\ Standing(R)
  BY <1>t, AtEntries DEF RingInv, Linked
<1>1. CASE UNCHANGED vars
  BY <1>1 DEF vars, fields, locals, counts, RingInv, Linked, Handed, Allocated, Standing, At, head
<1>2. ASSUME NEW t \in Writer, Allocate(t) PROVE RingInv(R)'
  <2>1. CASE UNCHANGED <<alive, entry, size, pc>>
    <3>1. /\ UNCHANGED <<forward, backward, alive, entry, pc, lock, last, next>>
          /\ writes' = writes + 1
      BY <1>2, <2>1 DEF Allocate
    <3>2. Linked(R)'
      BY <1>t, <1>r, <3>1, StillLinked
    <3>3. Handed(R)' /\ Allocated(R)' /\ Standing(R)'
      BY <1>t, <1>r, <3>1 DEF Handed, Allocated, Standing, At, head
    <3> QED
      BY <3>2, <3>3 DEF RingInv
  <2>2. CASE ~ UNCHANGED <<alive, entry, size, pc>>
    <3>1. /\ UNCHANGED <<forward, backward, lock, last, next>>
          /\ writes' = writes + 1 /\ alive' = alive \cup {writes + 1}
          /\ entry' = [entry EXCEPT ![t] = writes + 1]
          /\ pc[t] = "idle" /\ pc' = [pc EXCEPT ![t] = "enter"]
      BY <1>2, <2>2 DEF Allocate, Goto
    <3>2. Linked(R)'
      BY <1>t, <1>r, <3>1, StillLinked
    <3>3. \A u \in Writer : entry[u] \in 1 .. writes \/ entry[u] = NoNode
      <4>1. \A u \in Writer : pc[u] \in Making \cup {"idle", "leave"}
        BY <1>t, <3>1, Running DEF ListTypes, Making
      <4> QED
        BY <1>r, <4>1 DEF Handed
    <3>4. \A i \in DOMAIN R : R[i] \in 1 .. writes
      BY <1>r, <1>t, AtEntries
    <3>5. Handed(R)'
      BY <1>t, <1>r, <3>1, <3>3, <3>4 DEF Handed, Making, NoNode
    <3>6. Allocated(R)'
      <4>1. entry[t] = NoNode /\ writes + 1 # NoNode
        BY <1>t, <1>r, <3>1 DEF Handed, NoNode
      <4>2. {entry'[u] : u \in {v \in Writer : entry'[v] # NoNode}}
              = {entry[u] : u \in {v \in Writer : entry[v] # NoNode}} \cup {writes + 1}
        BY <1>t, <3>1, <4>1
      <4> QED
        BY <1>r, <3>1, <4>2 DEF Allocated
    <3>7. Standing(R)'
      BY <1>t, <1>r, <3>1 DEF Standing, Inside, At, head
    <3> QED
      BY <3>2, <3>5, <3>6, <3>7 DEF RingInv
  <2> QED
    BY <2>1, <2>2
<1>3. ASSUME NEW t \in Writer, AppendTailReads(t) PROVE RingInv(R)'
  <2>1. /\ UNCHANGED <<lock, forward, backward, alive, entry, writes>>
        /\ last' = [last EXCEPT ![t] = backward[head]]
        /\ next' = [next EXCEPT ![t] = forward[backward[head]]]
        /\ pc[t] = "append" /\ pc' = [pc EXCEPT ![t] = "link"]
    BY <1>3 DEF AppendTailReads, Goto, fields, counts
  <2>2. backward[head] = At(R, Len(R)) /\ forward[backward[head]] = head
    <3>1. Len(R) \in 0 .. Len(R) /\ At(R, Len(R) + 1) = head
      BY <1>t, <1>r, AtEntries
    <3> QED
      BY <1>r, <3>1 DEF Linked
  <2>3. lock = t /\ \A u \in Thread : u # t => pc[u] \notin Inside
    BY <1>t, <1>r, <2>1, Alone DEF Standing, Inside
  <2>4. Standing(R)'
    BY <1>t, <1>r, <2>1, <2>2, <2>3, StillStanding DEF Inside
  <2>5. Handed(R)' /\ Allocated(R)'
    BY <1>t, <1>r, <2>1, StillHanded DEF Making
  <2> QED
    BY <1>t, <1>r, <2>1, <2>4, <2>5, StillLinked DEF RingInv
<1>4. ASSUME NEW t \in Reader, BeginRead(t) PROVE RingInv(R)'
  <2>1. /\ UNCHANGED <<lock, forward, backward, alive, entry, last, next, writes>>
        /\ pc[t] = "idle"
        /\ \/ pc' = pc
           \/ pc' = [pc EXCEPT ![t] = "enter"]
    BY <1>4 DEF BeginRead, Goto, fields
  <2>2. Standing(R)'
    BY <1>t, <1>r, <2>1 DEF Standing, Inside, At, head
  <2>3. Handed(R)' /\ Allocated(R)'
    BY <1>t, <1>r, <2>1, StillHanded
  <2> QED
    BY <1>t, <1>r, <2>1, <2>2, <2>3, StillLinked DEF RingInv
<1>5. ASSUME NEW t \in Reader, ReadLoop(t) PROVE RingInv(R)'
  <2>1. /\ UNCHANGED <<lock, forward, backward, alive, last, next, writes>>
        /\ pc[t] = "loop" /\ \A u \in Thread : u # t => pc'[u] = pc[u] /\ entry'[u] = entry[u]
        /\ \/ pc'[t] \in {"leave", "loop"}
           \/ ~IsEmpty /\ pc'[t] = "remove" /\ entry'[t] = forward[head]
    BY <1>5, <1>t DEF ReadLoop, Goto, counts
  <2>2. lock = t /\ \A u \in Thread : u # t => pc[u] \notin Inside
    BY <1>t, <1>r, <2>1, Alone DEF Standing, Inside
  <2>3. ~IsEmpty => R # <<>> /\ forward[head] = R[1]
    <3>1. 0 \in 0 .. Len(R) /\ At(R, 0) = head
      BY <1>t, <1>r, AtEntries
    <3>2. forward[head] = At(R, 1) /\ backward[At(R, 1)] = head
      BY <1>r, <3>1 DEF Linked
    <3>3. At(R, 1) = IF R = <<>> THEN head ELSE R[1]
      BY <1>r DEF At
    <3> QED
      BY <3>2, <3>3 DEF IsEmpty
  <2>4. Standing(R)'
    BY <1>t, <1>r, <2>1, <2>2, <2>3, StillStanding DEF Inside
  <2>5. Handed(R)' /\ Allocated(R)'
    BY <1>t, <1>r, <2>1, StillHanded
  <2> QED
    BY <1>t, <1>r, <2>1, <2>4, <2>5, StillLinked DEF RingInv
<1>6. ASSUME NEW t \in Reader, RemoveHeadReads(t) PROVE RingInv(R)'
  <2>1. /\ UNCHANGED <<lock, forward, backward, alive, entry, writes>>
        /\ last' = [last EXCEPT ![t] = backward[forward[head]]]
        /\ next' = [next EXCEPT ![t] = forward[forward[head]]]
        /\ pc[t] = "remove" /\ pc' = [pc EXCEPT ![t] = "unlink"]
    BY <1>6 DEF RemoveHeadReads, Goto, fields, counts
  <2>2. lock = t /\ (\A u \in Thread : u # t => pc[u] \notin Inside) /\ R # <<>> /\ entry[t] = R[1]
    BY <1>t, <1>r, <2>1, Alone DEF Standing, Inside
  <2>3. backward[forward[head]] = head /\ forward[forward[head]] = At(R, 2)
    <3>1. 0 \in 0 .. Len(R) /\ 1 \in 0 .. Len(R) /\ At(R, 0) = head
      BY <1>t, <1>r, <2>2, AtEntries
    <3>2. forward[head] = At(R, 1) /\ backward[At(R, 1)] = head
      BY <1>r, <3>1 DEF Linked
    <3>3. forward[At(R, 1)] = At(R, 1 + 1)
      BY <1>r, <3>1 DEF Linked
    <3> QED
      BY <3>2, <3>3
  <2>4. Standing(R)'
    BY <1>t, <1>r, <2>1, <2>2, <2>3, StillStanding DEF Inside
  <2>5. Handed(R)' /\ Allocated(R)'
    BY <1>t, <1>r, <2>1, StillHanded
  <2> QED
    BY <1>t, <1>r, <2>1, <2>4, <2>5, StillLinked DEF RingInv
<1>7. ASSUME NEW t \in Thread, EnterCriticalSection(t) \/ LeaveCriticalSection(t) PROVE RingInv(R)'
  <2>1. /\ UNCHANGED <<forward, backward, alive, entry, last, next, writes>>
        /\ \A u \in Thread : u # t => pc'[u] = pc[u]
        /\ \/ /\ pc[t] = "enter" /\ lock = "free" /\ lock' = t
              /\ pc'[t] = IF t \in Writer THEN "append" ELSE "loop"
           \/ /\ pc[t] = "leave" /\ lock' = "free"
              /\ pc'[t] = IF t \in Writer THEN "idle" ELSE "assert"
    BY <1>7, <1>t DEF EnterCriticalSection, LeaveCriticalSection, Goto, fields, counts, locals
  <2>2. lock \in {t, "free"} /\ \A u \in Thread : u # t => pc[u] \notin Inside
    BY <1>t, <1>r, <2>1, Alone DEF Standing, Inside
  <2>3. Standing(R)'
    BY <1>t, <1>r, <2>1, <2>2, StillStanding DEF Inside
  <2>4. Handed(R)' /\ Allocated(R)'
    BY <1>t, <1>r, <2>1, StillHanded DEF Making
  <2> QED
    BY <1>t, <1>r, <2>1, <2>3, <2>4, StillLinked DEF RingInv
<1>8. ASSUME NEW t \in Reader, Return(t) PROVE RingInv(R)'
  <2>1. /\ UNCHANGED <<lock, forward, backward, alive, entry, last, next, writes>>
        /\ pc[t] = "assert"
        /\ \/ pc' = [pc EXCEPT ![t] = "idle"]
           \/ pc' = [u \in Thread |-> "aborted"]
    BY <1>8 DEF Return, Goto, fields, counts
  <2>2. Standing(R)'
    BY <1>t, <1>r, <2>1 DEF Standing, Inside, At, head
  <2>3. Handed(R)' /\ Allocated(R)'
    BY <1>t, <1>r, <2>1 DEF Handed, Making, Allocated
  <2> QED
    BY <1>t, <1>r, <2>1, <2>2, <2>3, StillLinked DEF RingInv
<1> QED
  BY <1>1, <1>2, <1>3, <1>4, <1>5, <1>6, <1>7, <1>8

-----------------------------------------------------------------------------
(* No two places of the ring are the same, the head's included.             *)
LEMMA Places ==
    ASSUME NEW m \in Nat, NEW R \in Seq(1 .. m), \A i, j \in DOMAIN R : R[i] = R[j] => i = j,
           NEW i \in 0 .. Len(R), NEW j \in 0 .. Len(R), At(R, i) = At(R, j)
    PROVE  i = j
<1>1. Len(R) \in Nat /\ DOMAIN R = 1 .. Len(R)
  BY AtEntries
<1>2. CASE i = 0 \/ j = 0
  <2>1. \A n \in Nat : At(R, n) = head <=> ~(n \in 1 .. Len(R))
    BY AtEntries
  <2>2. i \in Nat /\ j \in Nat /\ (i = 0 <=> ~(i \in 1 .. Len(R)))
        /\ (j = 0 <=> ~(j \in 1 .. Len(R)))
    BY <1>1
  <2>3. At(R, i) = head /\ At(R, j) = head
    BY <1>2, <2>1, <2>2
  <2> QED
    BY <2>1, <2>2, <2>3
<1>3. CASE i # 0 /\ j # 0
  <2>1. i \in DOMAIN R /\ j \in DOMAIN R
    BY <1>1, <1>3
  <2>2. R[i] = R[j]
    BY <2>1 DEF At
  <2> QED
    BY <2>1, <2>2
<1> QED
  BY <1>2, <1>3

(* AppendTail puts the entry behind the last.                               *)
LEMMA RingGrows ==
    ASSUME SizesAssumption, ListTypes, NEW R, RingInv(R), NEW t \in Writer, AppendTailLinks(t),
           NEW e, e = entry[t]
    PROVE  /\ e \in 1 .. writes /\ (\A i \in DOMAIN R : R[i] # e)
           /\ RingInv(Append(R, e))'
<1>q. PICK Q : Q = Append(R, e)
  OBVIOUS
<1>l. PICK L : L = Len(R)
  OBVIOUS
<1>t. /\ Writer \subseteq Thread
      /\ writes \in Nat /\ MaxWrites \in Nat /\ writes <= MaxWrites
      /\ pc \in [Thread -> {"idle", "enter", "append", "link", "leave", "loop", "remove", "unlink",
                            "assert", "aborted"}]
      /\ entry \in [Thread -> Node \cup {NoNode}]
      /\ forward \in [Node -> Node \cup {NoNode}] /\ backward \in [Node -> Node \cup {NoNode}]
  BY DEF SizesAssumption, Thread, ListTypes
<1>r. /\ R \in Seq(1 .. writes) /\ L \in Nat /\ DOMAIN R = 1 .. L
      /\ Linked(R) /\ Handed(R) /\ Allocated(R) /\ Standing(R)
  BY <1>t, <1>l, AtEntries DEF RingInv, Linked
<1>1. /\ pc[t] = "link" /\ pc' = [pc EXCEPT ![t] = "leave"]
      /\ forward' = [forward EXCEPT ![last[t]] = e, ![e] = next[t]]
      /\ backward' = [backward EXCEPT ![next[t]] = e, ![e] = last[t]]
      /\ entry' = [entry EXCEPT ![t] = NoNode]
      /\ UNCHANGED <<alive, writes>>
  BY DEF AppendTailLinks, Forget, Goto, counts
<1>2. /\ e \in 1 .. writes /\ \A i \in DOMAIN R : R[i] # e
      /\ \A u \in Writer : u # t => entry[u] # e
  BY <1>r, <1>1 DEF Handed, Making
<1>3. lock = t /\ last[t] = At(R, L) /\ next[t] = head
  BY <1>r, <1>t, <1>1, <1>l DEF Standing, Inside
<1>4. \A u \in Thread : u # t => pc[u] \notin Inside
  BY <1>3, <1>r, <1>t, Alone
<1>a. /\ Q \in Seq(1 .. writes) /\ Len(Q) = L + 1 /\ DOMAIN Q = 1 .. L + 1
      /\ \A i \in 1 .. L : Q[i] = R[i]
      /\ Q[L + 1] = e
      /\ \A i \in Nat : At(Q, i) = IF i = L + 1 THEN e ELSE At(R, i)
  BY <1>t, <1>r, <1>2, <1>q, <1>l, AtAppend
<1>b. /\ \A i \in Nat : At(R, i) \in Node /\ At(R, i) # e
      /\ At(R, L + 1) = head /\ At(R, L + 2) = head /\ At(R, 0) = head
      /\ e \in Node /\ head \in Node /\ e # head
      /\ \A i \in 0 .. L : At(R, i) = At(R, L) => i = L
      /\ \A i \in 0 .. L : At(R, i + 1) = head => i = L
  <2>1. \A i \in Nat : At(R, i) \in 0 .. writes
    BY <1>t, <1>r, AtEntries
  <2>2. ASSUME NEW i \in Nat PROVE At(R, i) # e
    BY <1>t, <1>r, <1>2 DEF At, head
  <2>3. ASSUME NEW i \in 0 .. L, At(R, i) = At(R, L) PROVE i = L
    <3>1. \A k, j \in DOMAIN R : R[k] = R[j] => k = j
      BY <1>r DEF Linked
    <3>2. i \in 0 .. Len(R) /\ Len(R) \in 0 .. Len(R) /\ At(R, i) = At(R, Len(R))
      BY <1>r, <1>l, <2>3
    <3> QED
      BY <1>t, <1>r, <1>l, <3>1, <3>2, Places
  <2>4. \A i \in Nat : At(R, i) = head <=> ~(i \in 1 .. L)
    BY <1>t, <1>r, <1>l, AtEntries
  <2>5. /\ \A i \in 0 .. L : At(R, i + 1) = head => i = L
        /\ At(R, L + 1) = head /\ At(R, L + 2) = head /\ At(R, 0) = head
    <3>1. L \in Nat
      BY <1>r
    <3> QED
      BY <2>4, <3>1
  <2>6. e \in Node /\ head \in Node /\ e # head
    BY <1>t, <1>2 DEF Node, head
  <2>7. 0 .. writes \subseteq Node
    BY <1>t DEF Node
  <2> QED
    BY <2>1, <2>2, <2>3, <2>5, <2>6, <2>7
<1>5. ASSUME NEW i \in 0 .. L + 1
      PROVE  forward'[At(Q, i)] = At(Q, i + 1) /\ backward'[At(Q, i + 1)] = At(Q, i)
  <2>1. /\ \A n \in Node : forward'[n] = IF n = e THEN head ELSE IF n = At(R, L) THEN e ELSE forward[n]
        /\ \A n \in Node : backward'[n] = IF n = e THEN At(R, L) ELSE IF n = head THEN e ELSE backward[n]
    BY <1>t, <1>r, <1>1, <1>3, <1>b
  <2>2. CASE i < L
    <3>1. i \in 0 .. L /\ i + 1 # L + 1 /\ i # L + 1 /\ i \in Nat /\ i + 1 \in Nat
      BY <1>r, <2>2
    <3>2. forward[At(R, i)] = At(R, i + 1) /\ backward[At(R, i + 1)] = At(R, i)
      BY <1>r, <1>l, <3>1 DEF Linked
    <3>3. At(Q, i) = At(R, i) /\ At(Q, i + 1) = At(R, i + 1)
      BY <1>a, <3>1
    <3>4. At(R, i) # At(R, L) /\ At(R, i + 1) # head
      BY <1>b, <2>2, <3>1
    <3> QED
      BY <1>b, <2>1, <3>1, <3>2, <3>3, <3>4
  <2>3. CASE i = L
    <3>1. At(Q, i) = At(R, L) /\ At(Q, i + 1) = e
      BY <1>a, <1>r, <2>3
    <3> QED
      BY <1>b, <1>r, <2>1, <3>1
  <2>4. CASE i = L + 1
    <3>1. At(Q, i) = e /\ At(Q, i + 1) = head
      BY <1>a, <1>b, <1>r, <2>4
    <3> QED
      BY <1>b, <2>1, <3>1
  <2> QED
    BY <1>r, <2>2, <2>3, <2>4
<1>6. Linked(Q)'
  <2>1. \A i, j \in DOMAIN Q : Q[i] = Q[j] => i = j
    <3>1. \A i, j \in 1 .. L : R[i] = R[j] => i = j
      BY <1>r DEF Linked
    <3>2. \A i \in 1 .. L : Q[i] # e
      BY <1>r, <1>2, <1>a
    <3> QED
      BY <1>r, <1>a, <3>1, <3>2
  <2>2. \A i \in 0 .. Len(Q) : /\ forward'[At(Q, i)] = At(Q, i + 1)
                               /\ backward'[At(Q, i + 1)] = At(Q, i)
    BY <1>5, <1>a
  <2>3. Q \in Seq(1 .. writes')
    BY <1>1, <1>a
  <2> QED
    BY <2>1, <2>2, <2>3 DEF Linked, At, head
<1>7. Handed(Q)'
  <2>1. \A u \in Writer : u # t => pc'[u] = pc[u] /\ entry'[u] = entry[u]
    BY <1>t, <1>1
  <2>2. pc'[t] = "leave" /\ entry'[t] = NoNode
    BY <1>t, <1>1
  <2>3. ASSUME NEW u \in Writer, u # t, pc[u] \in Making
        PROVE  /\ entry[u] \in 1 .. writes /\ (\A i \in DOMAIN Q : Q[i] # entry[u])
               /\ \A v \in Writer : v # u => entry'[v] # entry[u]
    <3>1. /\ entry[u] \in 1 .. writes /\ (\A i \in DOMAIN R : R[i] # entry[u])
          /\ \A v \in Writer : v # u => entry[v] # entry[u]
      BY <1>r, <2>3 DEF Handed
    <3>2. \A i \in DOMAIN Q : Q[i] # entry[u]
      BY <1>2, <1>a, <1>r, <2>3, <3>1
    <3>3. NoNode # entry[u]
      BY <3>1, <1>t DEF NoNode
    <3> QED
      BY <2>1, <2>2, <3>1, <3>2, <3>3
  <2>4. ASSUME NEW u \in Writer, u # t, pc[u] \in {"idle", "leave"} PROVE entry[u] = NoNode
    BY <1>r, <2>4 DEF Handed
  <2>5. "leave" \notin Making
    BY DEF Making
  <2>6. ASSUME NEW u \in Writer
        PROVE  /\ pc'[u] \in {"idle", "leave"} => entry'[u] = NoNode
               /\ pc'[u] \in Making =>
                     /\ entry'[u] \in 1 .. writes' /\ (\A i \in DOMAIN Q : Q[i] # entry'[u])
                     /\ \A v \in Writer : v # u => entry'[v] # entry'[u]
    <3>1. CASE u = t
      BY <2>2, <2>5, <3>1
    <3>2. CASE u # t
      BY <1>1, <2>1, <2>3, <2>4, <3>2
    <3> QED
      BY <3>1, <3>2
  <2> QED
    BY <2>6 DEF Handed, Making
<1>8. Allocated(Q)'
  <2>1. {Q[i] : i \in DOMAIN Q} = {R[i] : i \in DOMAIN R} \cup {e}
    BY <1>a, <1>r
  <2>2. e # NoNode
    BY <1>2, <1>t DEF NoNode
  <2>3. \A u \in Writer : entry'[u] = IF u = t THEN NoNode ELSE entry[u]
    BY <1>t, <1>1
  <2>4. {entry[u] : u \in {v \in Writer : entry[v] # NoNode}}
          = {entry'[u] : u \in {v \in Writer : entry'[v] # NoNode}} \cup {e}
    BY <2>2, <2>3
  <2> QED
    BY <1>r, <1>1, <2>1, <2>4 DEF Allocated
<1>9. Standing(Q)'
  <2>1. \A u \in Thread : u # t => pc'[u] = pc[u]
    BY <1>t, <1>1
  <2>2. pc'[t] = "leave" /\ lock' = t
    BY <1>t, <1>1, <1>3 DEF AppendTailLinks
  <2> QED
    BY <1>4, <2>1, <2>2 DEF Standing, Inside
<1> QED
  BY <1>2, <1>6, <1>7, <1>8, <1>9, <1>q DEF RingInv

(* RemoveHead takes the first entry out and deletes it.                     *)
LEMMA RingShrinks ==
    ASSUME SizesAssumption, ListTypes, NEW R, RingInv(R), NEW t \in Reader, RemoveHeadUnlinks(t)
    PROVE  R # <<>> /\ RingInv(Tail(R))'
<1>q. PICK Q : Q = Tail(R)
  OBVIOUS
<1>l. PICK L : L = Len(R)
  OBVIOUS
<1>t. /\ Reader \subseteq Thread /\ Writer \subseteq Thread /\ t \notin Writer
      /\ writes \in Nat /\ MaxWrites \in Nat /\ writes <= MaxWrites
      /\ pc \in [Thread -> {"idle", "enter", "append", "link", "leave", "loop", "remove", "unlink",
                            "assert", "aborted"}]
      /\ entry \in [Thread -> Node \cup {NoNode}]
      /\ forward \in [Node -> Node \cup {NoNode}] /\ backward \in [Node -> Node \cup {NoNode}]
  BY DEF SizesAssumption, Thread, ListTypes
<1>r. /\ R \in Seq(1 .. writes) /\ L \in Nat /\ DOMAIN R = 1 .. L
      /\ Linked(R) /\ Handed(R) /\ Allocated(R) /\ Standing(R)
  BY <1>t, <1>l, AtEntries DEF RingInv, Linked
<1>1. /\ pc[t] = "unlink" /\ pc' = [pc EXCEPT ![t] = "loop"]
      /\ forward' = [forward EXCEPT ![last[t]] = next[t]]
      /\ backward' = [backward EXCEPT ![next[t]] = last[t]]
      /\ entry' = [entry EXCEPT ![t] = NoNode]
      /\ alive' = alive \ {entry[t]} /\ UNCHANGED <<lock, writes>>
  BY DEF RemoveHeadUnlinks, Forget, Goto, counts
<1>3. lock = t /\ last[t] = head /\ next[t] = At(R, 2) /\ R # <<>> /\ entry[t] = R[1]
  BY <1>r, <1>t, <1>1 DEF Standing, Inside
<1>4. \A u \in Thread : u # t => pc[u] \notin Inside
  BY <1>3, <1>r, <1>t, Alone
<1>a. /\ Q \in Seq(1 .. writes) /\ Len(Q) = L - 1 /\ DOMAIN Q = 1 .. L - 1 /\ L \in Nat \ {0}
      /\ \A i \in 1 .. L - 1 : Q[i] = R[i + 1]
      /\ \A i \in Nat : At(Q, i) = IF i = 0 THEN head ELSE At(R, i + 1)
  BY <1>t, <1>r, <1>3, <1>q, <1>l, AtTail
<1>d. /\ L \in Nat \ {0} /\ DOMAIN R = 1 .. L /\ DOMAIN Q = 1 .. L - 1
      /\ \A i \in 1 .. L - 1 : Q[i] = R[i + 1]
  BY <1>a, <1>r
<1>b. /\ \A i \in Nat : At(R, i) \in Node
      /\ head \in Node
      /\ \A i \in 1 .. L : At(R, i) # head
      /\ \A i \in 3 .. L + 1 : At(R, i) # At(R, 2)
  <2>1. \A i \in Nat : At(R, i) \in 0 .. writes
    BY <1>t, <1>r, AtEntries, <1>l
  <2>2. \A i \in 1 .. L : At(R, i) # head
    BY <1>t, <1>r, AtEntries, <1>l
  <2>3. ASSUME NEW i \in 3 .. L + 1 PROVE At(R, i) # At(R, 2)
    <3>1. 2 \in 1 .. L /\ 2 \in 0 .. L
      BY <1>r, <2>3
    <3>2. CASE i = L + 1
      <4>1. At(R, i) = head
        BY <1>t, <1>r, <3>2, AtEntries, <1>l
      <4> QED
        BY <2>2, <3>1, <4>1
    <3>3. CASE i # L + 1
      <4>1. i \in 0 .. L /\ i # 2
        BY <1>r, <3>3
      <4> QED
        BY <1>t, <1>r, <3>1, <4>1, <1>l, Places DEF Linked
    <3> QED
      BY <3>2, <3>3
  <2> QED
    BY <1>t, <2>1, <2>2, <2>3 DEF Node, head
<1>5. ASSUME NEW i \in 0 .. L - 1
      PROVE  forward'[At(Q, i)] = At(Q, i + 1) /\ backward'[At(Q, i + 1)] = At(Q, i)
  <2>1. /\ \A n \in Node : forward'[n] = IF n = head THEN At(R, 2) ELSE forward[n]
        /\ \A n \in Node : backward'[n] = IF n = At(R, 2) THEN head ELSE backward[n]
    BY <1>t, <1>r, <1>1, <1>3, <1>b
  <2>2. i \in Nat /\ i + 1 \in Nat /\ i + 2 \in Nat /\ i + 1 # 0 /\ (i + 1) + 1 = i + 2
    BY <1>a
  <2>3. At(Q, i + 1) = At(R, i + 2)
    BY <1>a, <2>2
  <2>4. CASE i = 0
    <3>1. At(Q, i) = head /\ At(R, i + 2) = At(R, 2)
      BY <1>a, <2>4
    <3> QED
      BY <1>b, <2>1, <2>3, <3>1
  <2>5. CASE i # 0
    <3>1. At(Q, i) = At(R, i + 1)
      BY <1>a, <2>2, <2>5
    <3>2. i + 1 \in 0 .. L /\ i + 1 \in 1 .. L /\ i + 2 \in 3 .. L + 1
      BY <1>a, <2>5
    <3>3. forward[At(R, i + 1)] = At(R, i + 2) /\ backward[At(R, i + 2)] = At(R, i + 1)
      <4>1. forward[At(R, i + 1)] = At(R, (i + 1) + 1) /\ backward[At(R, (i + 1) + 1)] = At(R, i + 1)
        BY <1>r, <1>l, <3>2 DEF Linked
      <4> QED
        BY <2>2, <4>1
    <3> QED
      BY <1>b, <2>1, <2>2, <2>3, <3>1, <3>2, <3>3
  <2> QED
    BY <2>4, <2>5
<1>6. Linked(Q)'
  <2>1. \A i, j \in DOMAIN Q : Q[i] = Q[j] => i = j
    <3>1. \A i, j \in 1 .. L : R[i] = R[j] => i = j
      BY <1>r DEF Linked
    <3> QED
      BY <1>d, <3>1
  <2>2. \A i \in 0 .. Len(Q) : /\ forward'[At(Q, i)] = At(Q, i + 1)
                               /\ backward'[At(Q, i + 1)] = At(Q, i)
    BY <1>5, <1>a
  <2>3. Q \in Seq(1 .. writes')
    BY <1>1, <1>a
  <2> QED
    BY <2>1, <2>2, <2>3 DEF Linked, At, head
<1>7. \A u \in Writer : pc'[u] = pc[u] /\ entry'[u] = entry[u]
  BY <1>t, <1>1
<1>8. Handed(Q)'
  <2>1. \A n : (\A i \in DOMAIN R : R[i] # n) => \A i \in DOMAIN Q : Q[i] # n
    BY <1>d
  <2>2. \A u \in Writer : pc[u] \in Making => \A i \in DOMAIN Q : Q[i] # entry[u]
    BY <1>r, <2>1 DEF Handed
  <2>3. writes' = writes
    BY <1>1
  <2> QED
    BY <1>r, <1>7, <2>2, <2>3 DEF Handed, Making
<1>9. Allocated(Q)'
  <2>1. {R[i] : i \in DOMAIN R} = {Q[i] : i \in DOMAIN Q} \cup {R[1]}
    <3>1. ASSUME NEW i \in DOMAIN R PROVE i = 1 \/ R[i] \in {Q[k] : k \in DOMAIN Q}
      <4>1. i # 1 => i - 1 \in 1 .. L - 1 /\ (i - 1) + 1 = i
        BY <1>d
      <4> QED
        BY <1>d, <4>1
    <3>2. ASSUME NEW i \in DOMAIN Q PROVE Q[i] \in {R[k] : k \in DOMAIN R}
      <4>1. i + 1 \in DOMAIN R /\ Q[i] = R[i + 1]
        BY <1>d
      <4> QED
        BY <4>1
    <3>3. 1 \in DOMAIN R
      BY <1>d
    <3> QED
      BY <3>1, <3>2, <3>3
  <2>2. \A i \in DOMAIN Q : Q[i] # R[1]
    <3>1. ASSUME NEW i \in DOMAIN Q PROVE Q[i] # R[1]
      <4>1. i + 1 \in DOMAIN R /\ 1 \in DOMAIN R /\ i + 1 # 1 /\ Q[i] = R[i + 1]
        BY <1>d
      <4> QED
        BY <1>r, <4>1 DEF Linked
    <3> QED
      BY <3>1
  <2>3. head # R[1]
    <3>1. R[1] \in 1 .. writes
      <4>1. 1 \in DOMAIN R
        BY <1>d
      <4> QED
        BY <1>r, <1>t, <4>1, AtEntries
    <3> QED
      BY <1>t, <3>1 DEF head
  <2>4. \A u \in Writer : entry[u] # NoNode => entry[u] # R[1]
    <3>1. \A u \in Writer : pc[u] \in Making \cup {"idle", "leave"}
      BY <1>t, <1>1, Running DEF ListTypes, Making
    <3>2. 1 \in DOMAIN R
      BY <1>d
    <3> QED
      BY <1>r, <3>1, <3>2 DEF Handed
  <2>5. alive' = alive \ {R[1]}
    BY <1>1, <1>3
  <2>6. {entry'[u] : u \in {v \in Writer : entry'[v] # NoNode}}
          = {entry[u] : u \in {v \in Writer : entry[v] # NoNode}}
    BY <1>7
  <2> QED
    BY <1>r, <2>1, <2>2, <2>3, <2>4, <2>5, <2>6 DEF Allocated
<1>10. Standing(Q)'
  <2>1. \A u \in Thread : u # t => pc'[u] = pc[u]
    BY <1>t, <1>1
  <2>2. pc'[t] = "loop" /\ lock' = t
    BY <1>t, <1>1, <1>3
  <2> QED
    BY <1>4, <2>1, <2>2 DEF Standing, Inside
<1> QED
  BY <1>3, <1>6, <1>8, <1>9, <1>10, <1>q DEF RingInv

-----------------------------------------------------------------------------
ListInv == ListTypes /\ \E R : RingInv(R)

LEMMA ListInit == ASSUME SizesAssumption, Init PROVE ListTypes /\ RingInv(<<>>)
<1>t. /\ MaxWrites \in Nat /\ head \in Node /\ Writer \subseteq Thread /\ Reader \subseteq Thread
      /\ \A i \in Nat : At(<<>>, i) = head
      /\ <<>> \in Seq(1 .. writes) /\ Len(<<>>) = 0 /\ DOMAIN <<>> = {}
  BY DEF SizesAssumption, Node, head, Thread, At
<1>1. ListTypes
  BY <1>t DEF Init, ListTypes, AbortEndsAll
<1>2. Linked(<<>>)
  BY <1>t DEF Init, Linked
<1>3. Handed(<<>>) /\ Standing(<<>>)
  BY <1>t DEF Init, Handed, Making, Standing, Inside
<1>4. Allocated(<<>>)
  <2>1. /\ {entry[t] : t \in {u \in Writer : entry[u] # NoNode}} = {}
        /\ {(<<>>)[i] : i \in DOMAIN <<>>} = {}
    BY <1>t DEF Init
  <2> QED
    BY <2>1 DEF Init, Allocated
<1> QED
  BY <1>1, <1>2, <1>3, <1>4 DEF RingInv

LEMMA ListStep == ASSUME SizesAssumption, ListInv, [Next]_vars PROVE ListInv'
<1>1. PICK R : RingInv(R)
  BY DEF ListInv
<1>2. ListTypes
  BY DEF ListInv
<1>3. ListTypes'
  BY <1>1, <1>2, ListTyped
<1>4. Writer \subseteq Thread /\ Reader \subseteq Thread
  BY DEF Thread
<1>5. CASE \E t \in Writer : AppendTailLinks(t)
  BY <1>1, <1>2, <1>3, <1>5, RingGrows DEF ListInv
<1>6. CASE \E t \in Reader : RemoveHeadUnlinks(t)
  BY <1>1, <1>2, <1>3, <1>6, RingShrinks DEF ListInv
<1>7. CASE \/ UNCHANGED vars
           \/ \E t \in Writer : Allocate(t) \/ AppendTailReads(t)
           \/ \E t \in Reader :
                BeginRead(t) \/ ReadLoop(t) \/ RemoveHeadReads(t) \/ Return(t)
           \/ \E t \in Thread : EnterCriticalSection(t) \/ LeaveCriticalSection(t)
  BY <1>1, <1>2, <1>3, <1>7, RingStands DEF ListInv
<1> QED
  BY <1>4, <1>5, <1>6, <1>7 DEF Next, WriteData, ReadData

(* What the invariant says of the ring that Ring finds.                     *)
LEMMA RingWhole == ASSUME SizesAssumption, ListInv PROVE RingInBothDirections /\ NothingLeaks
<1>1. PICK R : RingInv(R)
  BY DEF ListInv
<1>2. Ring = R
  BY <1>1, RingIs DEF ListInv, RingInv
<1>3. writes \in Nat /\ R \in Seq(1 .. writes)
  BY <1>1 DEF ListInv, ListTypes, RingInv, Linked, SizesAssumption
<1>4. ToSet(R) = {R[i] : i \in DOMAIN R}
  BY DEF ToSet
<1>5. NothingLeaks
  BY <1>1, <1>2, <1>4 DEF NothingLeaks, RingInv, Allocated
<1>6. ASSUME NEW n \in ToSet(R) \cup {head}
      PROVE  /\ forward[n] \in ToSet(R) \cup {head} /\ backward[n] \in ToSet(R) \cup {head}
             /\ backward[forward[n]] = n /\ forward[backward[n]] = n
  <2>1. \A i \in Nat : At(R, i) \in ToSet(R) \cup {head}
    BY <1>4 DEF At
  <2>2. /\ Len(R) \in Nat /\ DOMAIN R = 1 .. Len(R)
        /\ At(R, 0) = head /\ At(R, Len(R) + 1) = head
        /\ \A i \in DOMAIN R : At(R, i) = R[i]
    BY <1>3, AtEntries
  <2>3. \A i \in 0 .. Len(R) : forward[At(R, i)] = At(R, i + 1) /\ backward[At(R, i + 1)] = At(R, i)
    BY <1>1 DEF RingInv, Linked
  <2>4. PICK i \in 0 .. Len(R) : n = At(R, i)
    <3>1. CASE n = head
      <4>1. 0 \in 0 .. Len(R)
        BY <2>2
      <4> QED
        BY <2>2, <3>1, <4>1
    <3>2. CASE n # head
      <4>1. PICK i \in DOMAIN R : n = R[i]
        BY <1>4, <3>2
      <4>2. i \in 0 .. Len(R)
        BY <2>2, <4>1
      <4> QED
        BY <2>2, <4>1, <4>2
    <3> QED
      BY <3>1, <3>2
  <2>5. PICK j \in 0 .. Len(R) : n = At(R, j + 1)
    <3>1. CASE i = 0
      BY <2>2, <2>4, <3>1
    <3>2. CASE i # 0
      <4>1. i - 1 \in 0 .. Len(R) /\ (i - 1) + 1 = i
        BY <2>2, <2>4, <3>2
      <4> QED
        BY <2>4, <4>1
    <3> QED
      BY <3>1, <3>2
  <2>6. forward[n] = At(R, i + 1) /\ backward[n] = At(R, j)
    BY <2>3, <2>4, <2>5
  <2>7. backward[forward[n]] = n /\ forward[backward[n]] = n
    BY <2>3, <2>4, <2>5, <2>6
  <2>8. i + 1 \in Nat /\ j \in Nat
    BY <2>2
  <2> QED
    BY <2>1, <2>6, <2>7, <2>8
<1>7. RingInBothDirections
  BY <1>2, <1>6 DEF RingInBothDirections
<1> QED
  BY <1>5, <1>7

(* Lengths are within what a ULONG holds.                                   *)
LEMMA Small == ASSUME NEW n \in Nat \ {0}, NEW k \in Nat, k < n PROVE k % n = k
OBVIOUS

LEMMA Fits ==
    /\ ULong \in Nat \ {0}
    /\ \A n \in 0 .. ULong - 1 : n % ULong = n
    /\ \A n, m \in 0 .. ULong - 1 : n <= m => (m - n) % ULong = m - n
<1>1. ULong \in Nat \ {0}
  BY DEF ULong
<1>2. \A n \in 0 .. ULong - 1 : n % ULong = n
  BY <1>1, Small
<1>3. \A n, m \in 0 .. ULong - 1 : n <= m => m - n \in 0 .. ULong - 1
  BY <1>1
<1> QED
  BY <1>1, <1>2, <1>3

LEMMA Smaller ==
    /\ \A n \in 0 .. ULong - 1 : n \in Nat
    /\ \A n \in Nat, m \in 0 .. ULong - 1 : n <= m => n \in 0 .. ULong - 1
    /\ \A n, m \in 0 .. ULong - 1 : n <= m => (m - n) % ULong = m - n /\ m - n \in Nat
<1>1. ULong \in Nat \ {0}
  BY Fits
<1>2. \A n, m \in 0 .. ULong - 1 : n <= m => m - n \in Nat
  BY <1>1
<1>3. \A n \in Nat, m \in 0 .. ULong - 1 : n <= m => n \in 0 .. ULong - 1
  BY <1>1
<1>4. \A n \in 0 .. ULong - 1 : n \in Nat
  BY <1>1
<1> QED
  BY <1>2, <1>3, <1>4, Fits

(* The first entry of a ring that is not empty.                             *)
LEMMA FirstEntry ==
    ASSUME ListTypes, SizesAssumption, NEW R, Linked(R), ~IsEmpty
    PROVE  R # <<>> /\ forward[head] = R[1] /\ 1 \in DOMAIN R /\ R[1] \in 1 .. writes
<1>1. writes \in Nat /\ R \in Seq(1 .. writes)
  BY DEF ListTypes, Linked, SizesAssumption
<1>2. /\ Len(R) \in Nat /\ 0 \in 0 .. Len(R) /\ At(R, 0) = head /\ At(R, 0 + 1) = At(R, 1)
      /\ DOMAIN R = 1 .. Len(R)
  BY <1>1, AtEntries
<1>3. forward[head] = At(R, 1) /\ backward[At(R, 1)] = head
  BY <1>2 DEF Linked
<1>4. 1 \in DOMAIN R
  BY <1>3 DEF At, IsEmpty
<1>5. R[1] \in 1 .. writes /\ R # <<>>
  <2>1. R[1] \in 1 .. writes
    BY <1>1, <1>4, AtEntries
  <2>2. Len(R) # 0
    BY <1>2, <1>4
  <2> QED
    BY <1>1, <2>1, <2>2
<1> QED
  BY <1>3, <1>4, <1>5 DEF At

(* What SubSeq cuts out.                                                    *)
LEMMA Slice ==
    ASSUME NEW s \in Seq(Nat), NEW i \in Nat, NEW n \in Nat, i + n <= Len(s)
    PROVE  /\ SubSeq(s, i + 1, i + n) \in Seq(Nat) /\ Len(SubSeq(s, i + 1, i + n)) = n
           /\ \A k \in 1 .. n : SubSeq(s, i + 1, i + n)[k] = s[i + k]
<1>1. \A k \in (i + 1) .. (i + n) : k \in 1 .. Len(s)
  OBVIOUS
<1>2. PICK c : c = SubSeq(s, i + 1, i + n)
  OBVIOUS
<1>3. c = [k \in 1 .. n |-> s[i + k]]
  BY <1>2
<1>4. \A k \in 1 .. n : i + k \in 1 .. Len(s)
  OBVIOUS
<1>5. \A k \in 1 .. n : s[i + k] \in Nat
  BY <1>4, ElementOfSeq
<1> QED
  BY <1>2, <1>3, <1>5

LEMMA SameBytes ==
    ASSUME NEW a \in Seq(Nat), NEW b \in Seq(Nat), Len(a) = Len(b),
           \A k \in 1 .. Len(a) : a[k] = b[k]
    PROVE  a = b
OBVIOUS

LEMMA Joined ==
    ASSUME NEW a \in Seq(Nat), NEW b \in Seq(Nat)
    PROVE  /\ a \o b \in Seq(Nat) /\ Len(a \o b) = Len(a) + Len(b)
           /\ \A k \in 1 .. Len(a) : (a \o b)[k] = a[k]
           /\ \A k \in 1 .. Len(b) : (a \o b)[Len(a) + k] = b[k]
OBVIOUS

(* CopyTo takes as many bytes as are asked for, up to the entry's size ...   *)
CopyLength(e, n) == IF n < size[e] THEN n ELSE size[e]

LEMMA CopyTyped ==
    ASSUME DataTypes, NEW e \in Node, NEW n \in 0 .. ULong - 1
    PROVE  /\ CopyLength(e, n) \in 0 .. n /\ CopyLength(e, n) \in 0 .. size[e]
           /\ CopyTo(e, n).index = (index[e] + CopyLength(e, n)) % ULong
           /\ CopyTo(e, n).index \in 0 .. ULong - 1
           /\ CopyTo(e, n).bytes \in Seq(Nat) /\ Len(CopyTo(e, n).bytes) = CopyLength(e, n)
           /\ \A i \in 1 .. CopyLength(e, n) : CopyTo(e, n).bytes[i] =
                 IF index[e] + i \in DOMAIN data[e] THEN data[e][index[e] + i] ELSE Stray
<1>1. /\ size[e] \in 0 .. ULong - 1 /\ index[e] \in 0 .. ULong - 1 /\ data[e] \in Seq(Nat)
      /\ ULong \in Nat \ {0}
  BY Fits DEF DataTypes
<1> DEFINE len == CopyLength(e, n)
           byte(i) == IF index[e] + i \in DOMAIN data[e] THEN data[e][index[e] + i] ELSE Stray
           bytes == [i \in 1 .. len |-> byte(i)]
<1>2. len \in 0 .. n /\ len \in 0 .. size[e] /\ len \in Nat
  BY <1>1 DEF CopyLength
<1>3. CopyTo(e, n) = [bytes |-> bytes, index |-> (index[e] + len) % ULong]
  BY Zenon DEF CopyTo, CopyLength
<1> HIDE DEF len
<1>4. (index[e] + len) % ULong \in 0 .. ULong - 1
  BY <1>1, <1>2
<1>5. \A i \in 1 .. len : byte(i) \in Nat
  BY <1>1, ElementOfSeq DEF Stray
<1>6. bytes \in Seq(Nat) /\ Len(bytes) = len /\ \A i \in 1 .. len : bytes[i] = byte(i)
  <2> HIDE DEF byte
  <2> QED
    BY <1>2, <1>5
<1> HIDE DEF byte, bytes
<1>7. CopyTo(e, n).bytes = bytes /\ CopyTo(e, n).index = (index[e] + len) % ULong
  BY <1>3
<1> QED
  BY <1>2, <1>4, <1>6, <1>7 DEF len, byte

(* ... and they are the entry's next ones, unless one of them is a stray.   *)
LEMMA CopyIsNext ==
    ASSUME DataTypes, NEW e \in Node, NEW n \in 0 .. ULong - 1,
           Len(data[e]) = size[e], index[e] <= size[e],
           \A i \in DOMAIN CopyTo(e, n).bytes : CopyTo(e, n).bytes[i] # Stray
    PROVE  /\ index[e] + CopyLength(e, n) <= size[e]
           /\ CopyTo(e, n).index = index[e] + CopyLength(e, n)
           /\ CopyTo(e, n).bytes = SubSeq(data[e], index[e] + 1, index[e] + CopyLength(e, n))
<1> DEFINE len == CopyLength(e, n)
           copy == CopyTo(e, n)
<1>1. /\ size[e] \in Nat /\ index[e] \in Nat /\ data[e] \in Seq(Nat)
      /\ size[e] \in 0 .. ULong - 1
  BY Fits DEF DataTypes
<1>2. /\ len \in Nat /\ copy.bytes \in Seq(Nat) /\ Len(copy.bytes) = len
      /\ copy.index = (index[e] + len) % ULong /\ len <= size[e]
      /\ \A i \in 1 .. len : copy.bytes[i] =
            IF index[e] + i \in DOMAIN data[e] THEN data[e][index[e] + i] ELSE Stray
  <2>1. len \in 0 .. size[e]
    BY CopyTyped
  <2> QED
    BY <1>1, <2>1, CopyTyped
<1>a. DOMAIN copy.bytes = 1 .. len /\ DOMAIN data[e] = 1 .. size[e]
  BY <1>1, <1>2
<1>b. \A i \in 1 .. len : copy.bytes[i] # Stray
  BY <1>a
<1> HIDE DEF len, copy
<1>3. \A i \in 1 .. len : index[e] + i \in 1 .. size[e] /\ copy.bytes[i] = data[e][index[e] + i]
  BY <1>2, <1>a, <1>b
<1>4. index[e] + len <= size[e]
  <2>1. CASE len = 0
    BY <1>1, <2>1
  <2>2. CASE len # 0
    <3>1. len \in 1 .. len
      BY <1>2, <2>2
    <3> QED
      BY <1>1, <1>2, <1>3, <3>1
  <2> QED
    BY <2>1, <2>2
<1>5. copy.index = index[e] + len
  <2>1. index[e] + len \in Nat
    BY <1>1, <1>2
  <2>2. index[e] + len \in 0 .. ULong - 1
    BY <1>1, <1>4, <2>1, Smaller
  <2> QED
    BY <1>2, <2>2, Fits
<1>6. copy.bytes = SubSeq(data[e], index[e] + 1, index[e] + len)
  <2>1. PICK d \in Seq(Nat) : d = data[e]
    BY <1>1
  <2>2. PICK j \in Nat : j = index[e]
    BY <1>1
  <2>3. PICK n_ \in Nat : n_ = len
    BY <1>2
  <2>4. PICK next_ : next_ = SubSeq(d, j + 1, j + n_)
    OBVIOUS
  <2>5. j + n_ <= Len(d)
    BY <1>4, <2>1, <2>2, <2>3
  <2>6. next_ \in Seq(Nat) /\ Len(next_) = n_ /\ \A i \in 1 .. n_ : next_[i] = d[j + i]
    BY <2>4, <2>5, Slice
  <2>7. copy.bytes = next_
    <3>1. PICK b \in Seq(Nat) : b = copy.bytes
      BY <1>2
    <3>2. Len(b) = n_ /\ \A i \in 1 .. n_ : b[i] = d[j + i]
      BY <1>2, <1>3, <2>1, <2>2, <2>3, <3>1
    <3>3. \A i \in 1 .. n_ : b[i] = next_[i]
      BY <2>6, <3>2
    <3>4. b = next_
      BY <2>6, <3>2, <3>3, SameBytes
    <3> QED
      BY <3>1, <3>4
  <2> QED
    BY <2>1, <2>2, <2>3, <2>4, <2>7
<1> QED
  BY <1>4, <1>5, <1>6 DEF len, copy

(* What the loop copies from, and how much.                                 *)
LEMMA LoopCopies ==
    ASSUME SizesAssumption, ListTypes, DataTypes, NEW R, RingInv(R), NEW t \in Reader,
           ReadLoop(t), room[t] > 0, ~IsEmpty
    PROVE  LET e == R[1]
               copy == CopyTo(e, room[t])
           IN /\ R # <<>> /\ 1 \in DOMAIN R /\ e \in Node /\ e \in 1 .. writes
              /\ room[t] \in 1 .. ULong - 1 /\ copied[t] \in Nat
              /\ index' = [index EXCEPT ![e] = copy.index]
              /\ room' = [room EXCEPT ![t] = room[t] - Len(copy.bytes)]
              /\ copied' = [copied EXCEPT ![t] = copied[t] + Len(copy.bytes)]
              /\ read' = read \o copy.bytes
              /\ pc' = IF DataLeft(e, copy.index) = 0 THEN [pc EXCEPT ![t] = "remove"] ELSE pc
              /\ pc[t] = "loop"
<1>t. t \in Thread
  BY DEF Thread
<1>1. writes \in Nat /\ MaxWrites \in Nat /\ writes <= MaxWrites
  BY DEF ListTypes, SizesAssumption
<1>2. 1 .. writes \subseteq Node
  BY <1>1 DEF Node
<1>3. /\ forward[head] = R[1] /\ R # <<>> /\ 1 \in DOMAIN R
      /\ R[1] \in 1 .. writes /\ R[1] \in Node
  BY <1>2, FirstEntry DEF RingInv
<1>4. room[t] \in 1 .. ULong - 1 /\ copied[t] \in Nat
  BY <1>t DEF DataTypes
<1>5. PICK e : e = R[1]
  OBVIOUS
<1>6. PICK copy : copy = CopyTo(e, room[t])
  OBVIOUS
<1>7. /\ index' = [index EXCEPT ![e] = copy.index]
      /\ room' = [room EXCEPT ![t] = room[t] - Len(copy.bytes)]
      /\ copied' = [copied EXCEPT ![t] = copied[t] + Len(copy.bytes)]
      /\ read' = read \o copy.bytes
      /\ pc' = IF DataLeft(e, copy.index) = 0 THEN [pc EXCEPT ![t] = "remove"] ELSE pc
      /\ pc[t] = "loop"
  BY <1>3, <1>4, <1>5, <1>6 DEF ReadLoop, Goto
<1> QED
  BY <1>3, <1>4, <1>5, <1>6, <1>7

(* One turn of the loop, when what was read holds no stray, takes the next  *)
(* bytes of the first entry, or leaves.                                     *)
LEMMA LoopTakes ==
    ASSUME SizesAssumption, ListTypes, DataTypes, NEW R, RingInv(R), Filled(R),
           NEW t \in Reader, ReadLoop(t), CopiesTransportData'
    PROVE  \/ pc' = [pc EXCEPT ![t] = "leave"] /\ UNCHANGED <<index, read>>
           \/ /\ R # <<>>
              /\ \E n \in 0 .. size[R[1]] :
                    /\ index[R[1]] + n <= size[R[1]]
                    /\ pc' = [pc EXCEPT ![t] =
                                IF index[R[1]] + n = size[R[1]] THEN "remove" ELSE "loop"]
                    /\ index' = [index EXCEPT ![R[1]] = index[R[1]] + n]
                    /\ read' = read \o SubSeq(data[R[1]], index[R[1]] + 1, index[R[1]] + n)
<1>t. /\ t \in Thread
      /\ pc \in [Thread -> {"idle", "enter", "append", "link", "leave", "loop", "remove", "unlink",
                            "assert", "aborted"}]
  BY DEF Thread, ListTypes
<1>1. CASE room[t] = 0 \/ IsEmpty
  BY <1>1 DEF ReadLoop, DataTypes, Goto
<1>2. CASE room[t] > 0 /\ ~IsEmpty
  <2>1. PICK e : e = R[1]
    OBVIOUS
  <2>2. PICK copy : copy = CopyTo(e, room[t])
    OBVIOUS
  <2>3. /\ R # <<>> /\ 1 \in DOMAIN R /\ e \in Node /\ room[t] \in 0 .. ULong - 1
        /\ index' = [index EXCEPT ![e] = copy.index] /\ read' = read \o copy.bytes
        /\ pc' = IF DataLeft(e, copy.index) = 0 THEN [pc EXCEPT ![t] = "remove"] ELSE pc
        /\ pc[t] = "loop"
    BY <1>2, <2>1, <2>2, LoopCopies
  <2>4. Len(data[e]) = size[e] /\ index[e] <= size[e]
    BY <2>1, <2>3 DEF Filled
  <2>5. copy.bytes \in Seq(Nat) /\ read \in Seq(Nat)
    BY <2>2, <2>3, CopyTyped DEF DataTypes
  <2>6. \A i \in DOMAIN copy.bytes : copy.bytes[i] # Stray
    <3>1. ASSUME NEW i \in DOMAIN copy.bytes PROVE copy.bytes[i] # Stray
      <4>1. PICK b \in Seq(Nat) : b = copy.bytes
        BY <2>5
      <4>2. i \in 1 .. Len(b) /\ read' = read \o b
        BY <2>3, <4>1
      <4>3. Len(read) + i \in DOMAIN read' /\ read'[Len(read) + i] = b[i]
        BY <2>5, <4>2
      <4> QED
        BY <4>1, <4>3 DEF CopiesTransportData
    <3> QED
      BY <3>1
  <2>7. PICK n : n = CopyLength(e, room[t])
    OBVIOUS
  <2>8. /\ n \in 0 .. size[e] /\ index[e] + n <= size[e] /\ copy.index = index[e] + n
        /\ copy.bytes = SubSeq(data[e], index[e] + 1, index[e] + n)
    BY <2>2, <2>3, <2>4, <2>6, <2>7, CopyTyped, CopyIsNext
  <2>a. PICK z, k, j \in Nat : z = size[e] /\ k = index[e] /\ j = n
    BY <2>3, <2>8, Smaller DEF DataTypes
  <2>9. DataLeft(e, copy.index) = 0 <=> index[e] + n = size[e]
    <3>1. size[e] \in 0 .. ULong - 1 /\ index[e] \in 0 .. ULong - 1
      BY <2>3 DEF DataTypes
    <3>2. k + j \in Nat /\ k + j <= z
      BY <2>8, <2>a
    <3>3. k + j \in 0 .. ULong - 1 /\ z \in 0 .. ULong - 1
      BY <2>a, <3>1, <3>2, Smaller
    <3>4. (z - (k + j)) % ULong = z - (k + j)
      BY <3>2, <3>3, Smaller
    <3>5. DataLeft(e, copy.index) = z - (k + j)
      BY <2>8, <2>a, <3>4 DEF DataLeft
    <3> QED
      BY <2>a, <3>2, <3>5
  <2>10. pc' = [pc EXCEPT ![t] = IF index[e] + n = size[e] THEN "remove" ELSE "loop"]
    BY <1>t, <2>3, <2>9
  <2> QED
    BY <2>1, <2>3, <2>8, <2>10
<1> QED
  BY <1>1, <1>2 DEF ReadLoop

-----------------------------------------------------------------------------
(* What is left of an entry's bytes, before and after one is taken.         *)
LEMMA Cuts ==
    ASSUME NEW s \in Seq(Nat), NEW i \in 0 .. Len(s)
    PROVE  /\ SubSeq(s, i + 1, Len(s)) \in Seq(Nat)
           /\ i = Len(s) => SubSeq(s, i + 1, Len(s)) = <<>>
           /\ SubSeq(s, 1, Len(s)) = s
OBVIOUS

LEMMA CutsOff ==
    ASSUME NEW s \in Seq(Nat), NEW i \in Nat, NEW n \in Nat, i + n <= Len(s)
    PROVE  /\ SubSeq(s, i + 1, i + n) \in Seq(Nat)
           /\ SubSeq(s, (i + n) + 1, Len(s)) \in Seq(Nat)
           /\ SubSeq(s, i + 1, Len(s)) = SubSeq(s, i + 1, i + n) \o SubSeq(s, (i + n) + 1, Len(s))
<1>1. PICK a : a = SubSeq(s, i + 1, i + n)
  OBVIOUS
<1>2. a \in Seq(Nat) /\ Len(a) = n /\ \A k \in 1 .. n : a[k] = s[i + k]
  BY <1>1, Slice
<1>3. PICK m \in Nat : i + n + m = Len(s)
  <2>1. Len(s) - (i + n) \in Nat /\ i + n + (Len(s) - (i + n)) = Len(s)
    OBVIOUS
  <2> QED
    BY <2>1
<1>4. PICK j \in Nat : j = i + n
  OBVIOUS
<1>5. j + m <= Len(s) /\ Len(s) = j + m
  BY <1>3, <1>4
<1>6. PICK b : b = SubSeq(s, j + 1, j + m)
  OBVIOUS
<1>7. b \in Seq(Nat) /\ Len(b) = m /\ \A k \in 1 .. m : b[k] = s[j + k]
  BY <1>5, <1>6, Slice
<1>8. PICK l \in Nat : l = n + m
  BY <1>3
<1>9. i + l <= Len(s) /\ Len(s) = i + l
  BY <1>3, <1>8
<1>10. PICK c : c = SubSeq(s, i + 1, i + l)
  OBVIOUS
<1>11. c \in Seq(Nat) /\ Len(c) = l /\ \A k \in 1 .. l : c[k] = s[i + k]
  BY <1>9, <1>10, Slice
<1>12. PICK ab : ab = a \o b
  OBVIOUS
<1>x. /\ ab \in Seq(Nat) /\ Len(ab) = Len(a) + Len(b)
      /\ \A k \in 1 .. Len(a) : ab[k] = a[k]
      /\ \A k \in 1 .. Len(b) : ab[Len(a) + k] = b[k]
  BY <1>2, <1>7, <1>12, Joined
<1>13. /\ Len(ab) = l /\ \A k \in 1 .. n : ab[k] = a[k]
       /\ \A k \in 1 .. m : ab[n + k] = b[k]
  BY <1>2, <1>7, <1>8, <1>x
<1>14. ASSUME NEW k \in 1 .. l PROVE c[k] = ab[k]
  <2>1. CASE k <= n
    <3>1. k \in 1 .. n
      BY <2>1, <1>8, <1>3
    <3> QED
      BY <3>1, <1>2, <1>11, <1>13
  <2>2. CASE k > n
    <3>1. PICK h \in 1 .. m : n + h = k
      <4>1. k - n \in 1 .. m /\ n + (k - n) = k
        BY <1>3, <1>8, <2>2
      <4> QED
        BY <4>1
    <3>2. ab[k] = b[h]
      BY <1>13, <3>1
    <3>3. b[h] = s[j + h] /\ j + h = i + k
      BY <1>4, <1>7, <3>1
    <3>4. c[k] = s[i + k]
      BY <1>11
    <3> QED
      BY <3>2, <3>3, <3>4
  <2> QED
    BY <1>8, <1>3, <2>1, <2>2
<1>15. c = ab
  BY <1>11, <1>x, <1>13, <1>14, SameBytes
<1> QED
  BY <1>1, <1>2, <1>4, <1>5, <1>6, <1>7, <1>9, <1>10, <1>12, <1>15

LEMMA SameTail ==
    ASSUME NEW T, NEW s \in Seq(T), NEW t \in Seq(T), s # <<>>, Len(t) = Len(s),
           \A i \in 2 .. Len(s) : t[i] = s[i]
    PROVE  Tail(t) = Tail(s) /\ Tail(s) \in Seq(T) /\ t # <<>> /\ s[1] \in T /\ t[1] \in T
OBVIOUS

(* Some bytes less in the first of the entries and as many more that were   *)
(* read.                                                                    *)
LEMMA TakesSome ==
    ASSUME NEW ss \in Seq(Seq(Nat)), NEW tt \in Seq(Seq(Nat)), ss # <<>>, Len(tt) = Len(ss),
           NEW c \in Seq(Nat), ss[1] = c \o tt[1], \A i \in 2 .. Len(ss) : tt[i] = ss[i],
           NEW r \in Seq(Nat)
    PROVE  (r \o c) \o FlattenSeq(tt) = r \o FlattenSeq(ss)
<1> DEFINE T == Seq(Nat)
<1>1. ss \in Seq(T) /\ tt \in Seq(T)
  OBVIOUS
<1>2. Tail(tt) = Tail(ss) /\ Tail(ss) \in Seq(T) /\ tt # <<>> /\ tt[1] \in T
  <2> HIDE DEF T
  <2> QED
    BY <1>1, SameTail
<1>3. PICK f \in Seq(Nat) : f = FlattenSeq(Tail(ss))
  BY <1>2, FlattenAppend, Zenon
<1>4. FlattenSeq(tt) = tt[1] \o f /\ FlattenSeq(ss) = (c \o tt[1]) \o f
  BY <1>2, <1>3, FlattenCons, Zenon
<1>5. PICK u \in Seq(Nat) : u = tt[1]
  BY <1>2, Zenon
<1>7. JoiningAssociates(Nat)
  BY Associates, Zenon
<1>8. (r \o c) \o (u \o f) = r \o (c \o (u \o f)) /\ (c \o u) \o f = c \o (u \o f)
  <2>1. u \o f \in Seq(Nat)
    OBVIOUS
  <2> QED
    BY <1>7, <2>1, Zenon DEF JoiningAssociates
<1> QED
  BY <1>4, <1>5, <1>8, Zenon

-----------------------------------------------------------------------------
(* A sequence with one more element at its end, or without its first.       *)
LEMMA LongerIs ==
    ASSUME NEW T, NEW s \in Seq(T), NEW x \in T
    PROVE  Append(s, x) = [i \in 1 .. Len(s) + 1 |-> IF i = Len(s) + 1 THEN x ELSE s[i]]
<1> DEFINE F == [i \in 1 .. Len(s) + 1 |-> IF i = Len(s) + 1 THEN x ELSE s[i]]
<1>1. F \in [1 .. Len(s) + 1 -> T] /\ Len(s) + 1 \in Nat
  OBVIOUS
<1>2. \A i \in 1 .. Len(s) + 1 : F[i] = Append(s, x)[i]
  OBVIOUS
<1>3. Append(s, x) \in Seq(T) /\ Len(Append(s, x)) = Len(s) + 1
  OBVIOUS
<1> HIDE DEF F
<1>4. F \in Seq(T) /\ Len(F) = Len(s) + 1
  BY <1>1
<1>5. F = Append(s, x)
  BY <1>2, <1>3, <1>4, SeqEqual
<1> QED
  BY <1>5 DEF F

LEMMA ShorterIs ==
    ASSUME NEW T, NEW s \in Seq(T), s # <<>>
    PROVE  Tail(s) = [i \in 1 .. Len(s) - 1 |-> s[i + 1]]
<1> DEFINE F == [i \in 1 .. Len(s) - 1 |-> s[i + 1]]
<1>1. F \in [1 .. Len(s) - 1 -> T] /\ Len(s) - 1 \in Nat
  OBVIOUS
<1>2. \A i \in 1 .. Len(s) - 1 : F[i] = Tail(s)[i]
  OBVIOUS
<1>3. Tail(s) \in Seq(T) /\ Len(Tail(s)) = Len(s) - 1
  OBVIOUS
<1> HIDE DEF F
<1>4. F \in Seq(T) /\ Len(F) = Len(s) - 1
  BY <1>1
<1>5. F = Tail(s)
  BY <1>2, <1>3, <1>4, SeqEqual
<1> QED
  BY <1>5 DEF F

(* What the entries hold is a sequence of sequences of bytes.               *)
LEMMA KeptIs ==
    ASSUME SizesAssumption, ListTypes, DataTypes, NEW R, Linked(R), Filled(R)
    PROVE  /\ R \in Seq(1 .. writes) /\ Len(R) \in Nat /\ DOMAIN R = 1 .. Len(R)
           /\ 1 .. writes \subseteq Node
           /\ \A i \in 1 .. Len(R) : R[i] \in 1 .. writes
           /\ \A i \in 1 .. Len(R) : /\ data[R[i]] \in Seq(Nat) /\ Len(data[R[i]]) = size[R[i]]
                                     /\ index[R[i]] \in 0 .. size[R[i]]
                                     /\ Left(R[i]) \in Seq(Nat)
           /\ Kept(R) \in Seq(Seq(Nat)) /\ Len(Kept(R)) = Len(R)
           /\ \A i \in 1 .. Len(R) : Kept(R)[i] = Left(R[i])
<1>1. writes \in Nat /\ MaxWrites \in Nat /\ writes <= MaxWrites
  BY DEF ListTypes, SizesAssumption
<1>2. /\ R \in Seq(1 .. writes) /\ Len(R) \in Nat /\ DOMAIN R = 1 .. Len(R)
      /\ \A i \in 1 .. Len(R) : R[i] \in 1 .. writes
  BY <1>1, AtEntries DEF Linked
<1>3. 1 .. writes \subseteq Node
  BY <1>1 DEF Node
<1>4. ASSUME NEW i \in 1 .. Len(R)
      PROVE  /\ data[R[i]] \in Seq(Nat) /\ Len(data[R[i]]) = size[R[i]]
             /\ index[R[i]] \in 0 .. size[R[i]]
  <2>1. R[i] \in Node
    BY <1>2, <1>3
  <2>2. /\ data[R[i]] \in Seq(Nat) /\ size[R[i]] \in 0 .. ULong - 1
        /\ index[R[i]] \in 0 .. ULong - 1
    BY <2>1 DEF DataTypes
  <2>3. Len(data[R[i]]) = size[R[i]] /\ index[R[i]] <= size[R[i]]
    BY <1>2 DEF Filled
  <2> QED
    BY <2>2, <2>3, Fits
<1>5. ASSUME NEW i \in 1 .. Len(R) PROVE Left(R[i]) \in Seq(Nat)
  <2>1. PICK s \in Seq(Nat) : s = data[R[i]]
    BY <1>4
  <2>2. PICK k \in 0 .. Len(s) : k = index[R[i]]
    BY <1>4, <2>1
  <2> QED
    BY <2>1, <2>2, Cuts DEF Left
<1>6. /\ DOMAIN Kept(R) = 1 .. Len(R)
      /\ \A i \in 1 .. Len(R) : Kept(R)[i] = Left(R[i])
  BY <1>2 DEF Kept
<1>7. Kept(R) \in Seq(Seq(Nat)) /\ Len(Kept(R)) = Len(R)
  <2>1. Kept(R) \in [1 .. Len(R) -> Seq(Nat)]
    BY <1>2, <1>5, Zenon DEF Kept
  <2> DEFINE T == Seq(Nat)
             K == Kept(R)
  <2>2. K \in [1 .. Len(R) -> T]
    BY <2>1
  <2> HIDE DEF T, K
  <2>3. K \in Seq(T) /\ Len(K) = Len(R)
    BY <1>2, <2>2
  <2> QED
    BY <2>3 DEF T, K
<1> QED
  BY <1>2, <1>3, <1>4, <1>5, <1>6, <1>7

(* The bytes keep their types, whatever lengths are read.                   *)
LEMMA DataTyped ==
    ASSUME SizesAssumption, ListTypes, DataTypes, NEW R, RingInv(R), [Next]_vars
    PROVE  DataTypes'
<1>t. Writer \subseteq Thread /\ Reader \subseteq Thread /\ writes \in Nat /\ MaxWrites \in Nat
  BY DEF Thread, ListTypes, SizesAssumption
<1>d. /\ size \in [Node -> 0 .. ULong - 1] /\ index \in [Node -> 0 .. ULong - 1]
      /\ data \in [Node -> Seq(Nat)]
      /\ room \in [Thread -> 0 .. ULong - 1] /\ copied \in [Thread -> Nat]
      /\ written \in Seq(Nat) /\ read \in Seq(Nat)
  BY DEF DataTypes
<1>1. ASSUME UNCHANGED <<size, index, data, written, read>>,
             room' \in [Thread -> 0 .. ULong - 1], copied' \in [Thread -> Nat]
      PROVE  DataTypes'
  BY <1>1, <1>d DEF DataTypes, Node, Thread
<1>2. CASE UNCHANGED vars
  BY <1>1, <1>2, <1>d DEF vars, fields, locals, counts
<1>3. ASSUME NEW t \in Writer, Allocate(t) PROVE DataTypes'
  <2>1. UNCHANGED <<index, data, written, read, room, copied>>
    BY <1>3 DEF Allocate
  <2>2. size' \in [Node -> 0 .. ULong - 1]
    <3>1. PICK n \in WriteSizes : size' = size \/ size' = [size EXCEPT ![writes + 1] = n]
      BY <1>3 DEF Allocate
    <3>2. n \in 0 .. ULong - 1
      BY <3>1 DEF SizesAssumption
    <3> QED
      BY <1>d, <3>1, <3>2
  <2> QED
    BY <1>d, <2>1, <2>2 DEF DataTypes, Node, Thread
<1>4. ASSUME NEW t \in Writer, AppendTailLinks(t) PROVE DataTypes'
  <2>1. PICK e : e = entry[t]
    OBVIOUS
  <2>2. e \in Node
    <3>1. entry[t] \in 1 .. writes /\ writes <= MaxWrites
      BY <1>4 DEF AppendTailLinks, RingInv, Handed, Making, ListTypes
    <3> QED
      BY <1>t, <2>1, <3>1 DEF Node
  <2>3. PICK d : d = [i \in 1 .. size[e] |-> Len(written) + i]
    OBVIOUS
  <2>4. /\ data' = [data EXCEPT ![e] = d] /\ written' = written \o data'[e]
        /\ UNCHANGED <<size, index, room, copied, read>>
    BY <1>4, <2>1, <2>3 DEF AppendTailLinks, counts
  <2>5. d \in Seq(Nat)
    <3>1. size[e] \in Nat /\ Len(written) \in Nat
      BY <1>d, <2>2, Fits
    <3>2. d \in [1 .. size[e] -> Nat]
      BY <2>3, <3>1
    <3> QED
      BY <3>1, <3>2
  <2>6. data' \in [Node -> Seq(Nat)] /\ data'[e] = d
    <3> DEFINE T == Seq(Nat)
    <3>1. data \in [Node -> T] /\ d \in T
      BY <1>d, <2>5
    <3> HIDE DEF T
    <3>2. data' \in [Node -> T] /\ data'[e] = d
      BY <2>2, <2>4, <3>1
    <3> QED
      BY <3>2 DEF T
  <2>7. written' \in Seq(Nat)
    BY <1>d, <2>4, <2>5, <2>6
  <2> QED
    BY <1>d, <2>4, <2>6, <2>7 DEF DataTypes, Node, Thread
<1>5. ASSUME NEW t \in Reader, BeginRead(t) PROVE DataTypes'
  <2>1. PICK n \in ReadSizes \cup {0} : room' = room \/ room' = [room EXCEPT ![t] = n]
    BY <1>5 DEF BeginRead
  <2>2. n \in 0 .. ULong - 1
    BY <2>1, Fits DEF SizesAssumption
  <2>3. room' \in [Thread -> 0 .. ULong - 1]
    BY <1>d, <2>1, <2>2
  <2> QED
    BY <1>1, <1>5, <1>d, <2>3 DEF BeginRead, fields
<1>6. ASSUME NEW t \in Reader, ReadLoop(t) PROVE DataTypes'
  <2>1. UNCHANGED <<size, data, written>>
    BY <1>6 DEF ReadLoop
  <2>2. CASE room[t] = 0 \/ IsEmpty
    <3>1. UNCHANGED <<index, read, copied>> /\ room' = [room EXCEPT ![t] = 0]
      BY <1>6, <2>2, <1>d, <1>t DEF ReadLoop
    <3>2. 0 \in 0 .. ULong - 1
      BY Fits
    <3>3. room' \in [Thread -> 0 .. ULong - 1]
      <4> DEFINE U == 0 .. ULong - 1
      <4> HIDE DEF U
      <4>1. room \in [Thread -> U] /\ 0 \in U
        BY <1>d, <3>2 DEF U
      <4>2. room' \in [Thread -> U]
        BY <3>1, <4>1
      <4> QED
        BY <4>2 DEF U
    <3> QED
      BY <1>1, <1>d, <2>1, <3>1, <3>3
  <2>3. CASE room[t] > 0 /\ ~IsEmpty
    <3>1. PICK copy : copy = CopyTo(R[1], room[t])
      OBVIOUS
    <3>2. /\ R[1] \in Node /\ room[t] \in 1 .. ULong - 1 /\ copied[t] \in Nat
          /\ index' = [index EXCEPT ![R[1]] = copy.index]
          /\ room' = [room EXCEPT ![t] = room[t] - Len(copy.bytes)]
          /\ copied' = [copied EXCEPT ![t] = copied[t] + Len(copy.bytes)]
          /\ read' = read \o copy.bytes
      BY <1>6, <2>3, <3>1, LoopCopies
    <3>3. /\ copy.index \in 0 .. ULong - 1 /\ copy.bytes \in Seq(Nat)
          /\ Len(copy.bytes) \in 0 .. room[t]
      <4>1. room[t] \in 0 .. ULong - 1
        BY <3>2
      <4> QED
        BY <3>1, <3>2, <4>1, CopyTyped
    <3>4. index' \in [Node -> 0 .. ULong - 1]
      BY <1>d, <3>2, <3>3
    <3>5. room' \in [Thread -> 0 .. ULong - 1]
      <4>1. room[t] - Len(copy.bytes) \in 0 .. ULong - 1
        <5>1. \A a \in 1 .. ULong - 1 : \A b \in 0 .. a : a - b \in 0 .. ULong - 1
          BY Fits
        <5> QED
          BY <3>2, <3>3, <5>1
      <4> QED
        BY <1>d, <3>2, <4>1
    <3>6. copied' \in [Thread -> Nat]
      <4>1. copied[t] + Len(copy.bytes) \in Nat
        BY <3>2, <3>3, Fits
      <4> QED
        BY <1>d, <3>2, <4>1
    <3>7. read' \in Seq(Nat)
      BY <1>d, <3>2, <3>3
    <3> QED
      BY <1>d, <2>1, <3>4, <3>5, <3>6, <3>7 DEF DataTypes, Node, Thread
  <2> QED
    BY <1>6, <2>2, <2>3 DEF ReadLoop
<1>7. ASSUME NEW t \in Reader, Return(t) PROVE DataTypes'
  <2>1. copied' = copied \/ copied' = [copied EXCEPT ![t] = 0]
    BY <1>7 DEF Return
  <2>2. copied' \in [Thread -> Nat]
    <3>1. copied \in [Thread -> Nat] /\ 0 \in Nat
      BY <1>d
    <3> QED
      BY <2>1, <3>1
  <2> QED
    BY <1>1, <1>7, <1>d, <2>2 DEF Return, fields
<1>8. ASSUME NEW t \in Thread,
             \/ AppendTailReads(t) \/ RemoveHeadReads(t) \/ RemoveHeadUnlinks(t)
             \/ EnterCriticalSection(t) \/ LeaveCriticalSection(t)
      PROVE  DataTypes'
  <2>1. UNCHANGED <<size, index, data, written, read, room, copied>>
    BY <1>8 DEF AppendTailReads, RemoveHeadReads, RemoveHeadUnlinks, EnterCriticalSection,
                LeaveCriticalSection, fields, locals
  <2> QED
    BY <1>1, <1>d, <2>1
<1> QED
  BY <1>t, <1>2, <1>3, <1>4, <1>5, <1>6, <1>7, <1>8 DEF Next, WriteData, ReadData

(* A turn of the loop moves bytes from the first entry to the reader.       *)
LEMMA StreamReads ==
    ASSUME SizesAssumption, ListTypes, DataTypes', NEW R, RingInv(R), StreamInv(R),
           NEW t \in Reader, ReadLoop(t), CopiesTransportData'
    PROVE  StreamInv(R)'
<1>t. /\ t \in Thread /\ t \notin Writer /\ Writer \subseteq Thread
      /\ pc \in [Thread -> {"idle", "enter", "append", "link", "leave", "loop", "remove", "unlink",
                            "assert", "aborted"}]
  BY DEF Thread, ListTypes, SizesAssumption
<1>1. /\ DataTypes /\ Filled(R) /\ Fresh(R) /\ Linked(R) /\ Handed(R) /\ Standing(R)
      /\ read \o FlattenSeq(Kept(R)) = written
  BY DEF StreamInv, RingInv, Streams
<1>2. /\ pc[t] = "loop" /\ UNCHANGED <<data, size, written, writes>>
      /\ \A u \in Writer : u # t => entry'[u] = entry[u] /\ pc'[u] = pc[u]
  BY <1>t DEF ReadLoop, counts, Goto, ListTypes
<1>3. \A u \in Thread : pc[u] \notin {"remove", "unlink", "aborted"}
  <2>1. lock = t
    BY <1>t, <1>1, <1>2 DEF Standing, Inside
  <2> QED
    BY <1>t, <1>1, <1>2, <2>1, Alone, Running DEF Inside
<1>4. PICK K : K = Kept(R)
  OBVIOUS
<1>5. /\ Len(R) \in Nat /\ DOMAIN R = 1 .. Len(R) /\ 1 .. writes \subseteq Node
      /\ \A i \in 1 .. Len(R) : R[i] \in 1 .. writes
      /\ \A i \in 1 .. Len(R) : /\ data[R[i]] \in Seq(Nat) /\ Len(data[R[i]]) = size[R[i]]
                                /\ index[R[i]] \in 0 .. size[R[i]]
      /\ K \in Seq(Seq(Nat)) /\ Len(K) = Len(R)
      /\ \A i \in 1 .. Len(R) : K[i] = Left(R[i])
  BY <1>1, <1>4, KeptIs
<1>6. \A i \in 1 .. Len(R) : Used(R[i]) => size[R[i]] = 0
  BY <1>1, <1>3, <1>5 DEF Fresh
<1>7. CASE pc' = [pc EXCEPT ![t] = "leave"] /\ UNCHANGED <<index, read>>
  <2>1. Filled(R)'
    BY <1>t, <1>1, <1>2, <1>7 DEF Filled, Making, Node
  <2>2. Fresh(R)'
    BY <1>t, <1>2, <1>3, <1>5, <1>6, <1>7 DEF Fresh, Used
  <2>3. Streams(R)'
    BY <1>1, <1>2, <1>7 DEF Streams, Kept, Left
  <2> QED
    BY <2>1, <2>2, <2>3 DEF StreamInv
<1>8. ASSUME NEW n \in 0 .. size[R[1]], R # <<>>, index[R[1]] + n <= size[R[1]],
             pc' = [pc EXCEPT ![t] = IF index[R[1]] + n = size[R[1]] THEN "remove" ELSE "loop"],
             index' = [index EXCEPT ![R[1]] = index[R[1]] + n],
             read' = read \o SubSeq(data[R[1]], index[R[1]] + 1, index[R[1]] + n)
      PROVE  StreamInv(R)'
  <2>1. PICK e, s, k, z : e = R[1] /\ s = data[e] /\ k = index[e] /\ z = size[e]
    OBVIOUS
  <2>2. /\ 1 \in 1 .. Len(R) /\ e \in Node /\ e \in 1 .. writes
        /\ s \in Seq(Nat) /\ Len(s) = z /\ z \in Nat /\ k \in 0 .. z /\ k + n <= z
        /\ n \in Nat /\ z \in 0 .. ULong - 1
    <3>1. 1 \in 1 .. Len(R)
      BY <1>5, <1>8
    <3>2. e \in 1 .. writes /\ e \in Node
      BY <1>5, <2>1, <3>1
    <3>3. z \in 0 .. ULong - 1
      BY <2>1, <3>2, <1>1 DEF DataTypes
    <3>4. s \in Seq(Nat) /\ Len(s) = z /\ k \in 0 .. z /\ k + n <= z
      BY <1>5, <1>8, <2>1, <3>1
    <3>5. z \in Nat /\ n \in Nat
      BY <1>8, <2>1, <3>3, Fits
    <3> QED
      BY <3>1, <3>2, <3>3, <3>4, <3>5
  <2>3. PICK c : c = SubSeq(s, k + 1, k + n)
    OBVIOUS
  <2>4. PICK rest : rest = SubSeq(s, (k + n) + 1, Len(s))
    OBVIOUS
  <2>c. /\ c \in Seq(Nat) /\ rest \in Seq(Nat) /\ SubSeq(s, k + 1, Len(s)) = c \o rest
    <3>1. k \in Nat /\ n \in Nat /\ k + n <= Len(s) /\ s \in Seq(Nat)
      BY <2>2
    <3> QED
      BY <2>3, <2>4, <3>1, CutsOff
  <2>5. /\ pc' = [pc EXCEPT ![t] = IF k + n = z THEN "remove" ELSE "loop"]
        /\ index' = [index EXCEPT ![e] = k + n] /\ read' = read \o c
    BY <1>8, <2>1, <2>3
  <2>6. index \in [Node -> 0 .. ULong - 1] /\ index'[e] = k + n
        /\ \A m \in Node : m # e => index'[m] = index[m]
    BY <1>1, <2>2, <2>5 DEF DataTypes
  <2>8. \A i \in 1 .. Len(R) : i # 1 => R[i] # e
    BY <1>1, <1>5, <2>1, <2>2 DEF Linked
  <2>9. Filled(R)'
    <3>1. ASSUME NEW i \in 1 .. Len(R) PROVE index'[R[i]] <= size[R[i]]
      <4>1. R[i] \in Node /\ index[R[i]] <= size[R[i]]
        BY <1>1, <1>5 DEF Filled
      <4>2. CASE R[i] = e
        BY <2>1, <2>2, <2>6, <4>2
      <4>3. CASE R[i] # e
        BY <2>6, <4>1, <4>3
      <4> QED
        BY <4>2, <4>3
    <3>2. ASSUME NEW u \in Writer, pc'[u] \in Making PROVE index'[entry'[u]] = 0
      <4>1. entry'[u] = entry[u] /\ pc[u] \in Making
        BY <1>t, <1>2, <3>2
      <4>2. index[entry[u]] = 0 /\ entry[u] \in 1 .. writes /\ entry[u] # e
        BY <1>1, <1>5, <2>1, <2>2, <4>1 DEF Filled, Handed
      <4> QED
        BY <1>5, <2>6, <4>1, <4>2
    <3>3. ASSUME NEW m \in Node, m > writes' PROVE index'[m] = 0
      <4>1. index[m] = 0 /\ m # e
        BY <1>1, <1>2, <2>2, <3>3 DEF Filled, ListTypes
      <4> QED
        BY <2>6, <4>1
    <3>4. ASSUME NEW m \in Node PROVE index'[m] <= size[m]
      <4>1. index[m] <= size[m] /\ (m = e => index'[m] <= size[m])
        BY <1>1, <2>1, <2>2, <2>6 DEF Filled
      <4> QED
        BY <2>6, <4>1
    <3> QED
      BY <1>1, <1>2, <1>5, <3>1, <3>2, <3>3, <3>4 DEF Filled, Making, Node
  <2>10. Fresh(R)'
    <3>1. \A i \in 1 .. Len(R) : i # 1 => index'[R[i]] = index[R[i]]
      BY <1>5, <2>6, <2>8
    <3>2. index'[R[1]] = k + n /\ size'[R[1]] = z
      BY <1>2, <2>1, <2>6
    <3>3. \A u \in Thread : pc'[u] \in {"remove", "unlink"} <=> u = t /\ k + n = z
      BY <1>t, <1>3, <2>5
    <3> QED
      BY <1>t, <1>2, <1>5, <1>6, <3>1, <3>2, <3>3 DEF Fresh, Used
  <2>11. Streams(R)'
    <3>1. PICK J : J = [i \in DOMAIN R |-> IF i = 1 THEN rest ELSE K[i]]
      OBVIOUS
    <3>2. Kept(R)' = J
      <4>1. ASSUME NEW i \in DOMAIN R PROVE Left(R[i])' = J[i]
        <5>1. CASE i = 1
          BY <1>2, <2>1, <2>4, <2>6, <3>1, <5>1 DEF Left
        <5>2. CASE i # 1
          <6>1. index'[R[i]] = index[R[i]]
            BY <1>5, <2>6, <2>8, <5>2
          <6> QED
            BY <1>2, <1>5, <3>1, <5>2, <6>1 DEF Left
        <5> QED
          BY <5>1, <5>2
      <4> QED
        BY <3>1, <4>1 DEF Kept
    <3>3. K[1] = c \o rest
      BY <1>5, <2>1, <2>2, <2>c DEF Left
    <3>4. /\ J \in Seq(Seq(Nat)) /\ Len(J) = Len(K) /\ K # <<>>
          /\ J[1] = rest /\ \A i \in 2 .. Len(K) : J[i] = K[i]
      <4> DEFINE T == Seq(Nat)
      <4>1. K \in Seq(T) /\ rest \in T
        BY <1>5, <2>c
      <4> HIDE DEF T
      <4>2. J = [i \in 1 .. Len(R) |-> IF i = 1 THEN rest ELSE K[i]]
        BY <1>5, <3>1
      <4>3. /\ J \in Seq(T) /\ Len(J) = Len(K) /\ K # <<>> /\ J[1] = rest
            /\ \A i \in 2 .. Len(K) : J[i] = K[i]
        BY <1>5, <2>2, <4>1, <4>2
      <4> QED
        BY <4>3 DEF T
    <3>5. PICK r \in Seq(Nat) : r = read
      BY <1>1 DEF DataTypes
    <3>6. K[1] = c \o J[1]
      BY <3>3, <3>4, Zenon
    <3>a. \A i \in 2 .. Len(K) : J[i] = K[i]
      BY <3>4
    <3>b. K \in Seq(Seq(Nat)) /\ c \in Seq(Nat) /\ Len(J) = Len(K)
      BY <1>5, <2>c, <3>4
    <3>7. (r \o c) \o FlattenSeq(J) = r \o FlattenSeq(K)
      BY <3>4, <3>6, <3>a, <3>b, TakesSome, Zenon
    <3>8. read' \o FlattenSeq(Kept(R)') = written'
      BY <1>1, <1>2, <1>4, <2>5, <3>2, <3>5, <3>7, Zenon
    <3> QED
      BY <3>8, Zenon DEF Streams
  <2> QED
    BY <2>9, <2>10, <2>11 DEF StreamInv
<1> QED
  BY <1>1, <1>7, <1>8, LoopTakes

(* A step that moves no byte and deletes nothing.                           *)
Quiet ==
    /\ DataTypes' /\ UNCHANGED <<index, data, written, read>>
    /\ writes <= writes' /\ \A n \in 0 .. writes : size'[n] = size[n]
    /\ \A u \in Thread : pc'[u] \in {"remove", "unlink"} => pc[u] \in {"remove", "unlink"}
    /\ \A u \in Thread : pc[u] \in {"remove", "unlink", "aborted"} =>
          pc'[u] \in {"remove", "unlink", "aborted"}
    /\ \A u \in Writer : pc'[u] \in Making =>
          \/ pc[u] \in Making /\ entry'[u] = entry[u]
          \/ entry'[u] \in Node /\ entry'[u] > writes

LEMMA StreamStands ==
    ASSUME SizesAssumption, ListTypes, ListTypes', NEW R, RingInv(R), StreamInv(R), Quiet
    PROVE  StreamInv(R)'
<1> USE DEF Quiet
<1>1. DataTypes /\ Filled(R) /\ Fresh(R) /\ Linked(R) /\ Streams(R)
  BY DEF StreamInv, RingInv
<1>2. /\ DOMAIN R = 1 .. Len(R) /\ \A i \in 1 .. Len(R) : R[i] \in 1 .. writes
      /\ writes \in Nat /\ writes' \in Nat /\ MaxWrites \in Nat
  BY <1>1, KeptIs DEF ListTypes, SizesAssumption
<1>3. Filled(R)'
  <2>1. \A i \in DOMAIN R : Len(data[R[i]]) = size'[R[i]] /\ index[R[i]] <= size'[R[i]]
    BY <1>1, <1>2 DEF Filled
  <2>2. ASSUME NEW u \in Writer, pc'[u] \in Making PROVE index[entry'[u]] = 0
    BY <1>1, <2>2 DEF Filled
  <2>3. \A n \in Node : n > writes' => index[n] = 0
    <3>1. \A n \in Node : n > writes' => n > writes
      BY <1>2 DEF Node
    <3> QED
      BY <1>1, <3>1 DEF Filled
  <2>4. ASSUME NEW n \in Node PROVE index[n] <= size'[n]
    <3>1. CASE n <= writes
      BY <1>1, <1>2, <3>1 DEF Filled, Node
    <3>2. CASE n > writes
      <4>1. size'[n] \in 0 .. ULong - 1
        BY DEF DataTypes, Node
      <4>2. index[n] = 0
        BY <1>1, <3>2 DEF Filled
      <4> QED
        BY <4>1, <4>2, Fits
    <3> QED
      BY <1>2, <3>1, <3>2 DEF Node
  <2> QED
    BY <2>1, <2>2, <2>3, <2>4 DEF Filled, Making, Node
<1>4. Fresh(R)'
  <2>1. ASSUME NEW i \in DOMAIN R, Used(R[i])'
        PROVE  size'[R[i]] = 0 \/ (i = 1 /\ \E u \in Thread : pc'[u] \in {"remove", "unlink", "aborted"})
    <3>1. size'[R[i]] = size[R[i]]
      BY <1>2
    <3>2. Used(R[i])
      BY <2>1, <3>1 DEF Used
    <3> QED
      BY <1>1, <3>1, <3>2 DEF Fresh
  <2>2. ASSUME NEW u \in Thread, pc'[u] \in {"remove", "unlink"} PROVE Used(R[1])'
    <3>1. pc[u] \in {"remove", "unlink"}
      BY <2>2
    <3>2. Used(R[1]) /\ R # <<>>
      BY <1>1, <3>1 DEF Fresh, RingInv, Standing
    <3>3. R[1] \in 1 .. writes
      <4>1. 1 \in 1 .. Len(R)
        BY <1>1, <1>2, <3>2, AtEntries DEF Linked
      <4> QED
        BY <1>2, <4>1
    <3> QED
      BY <3>2, <3>3 DEF Used
  <2> QED
    BY <2>1, <2>2 DEF Fresh
<1>5. Streams(R)'
  BY <1>1 DEF Streams, Kept, Left
<1> QED
  BY <1>3, <1>4, <1>5 DEF StreamInv

(* AppendTail adds the bytes of the new entry at the stream's end.          *)
LEMMA StreamGrows ==
    ASSUME SizesAssumption, ListTypes, ListTypes', DataTypes', NEW R, RingInv(R), StreamInv(R),
           NEW t \in Writer, AppendTailLinks(t), NEW e, e = entry[t],
           e \in 1 .. writes, \A i \in DOMAIN R : R[i] # e
    PROVE  StreamInv(Append(R, e))'
<1>q. PICK Q : Q = Append(R, e)
  OBVIOUS
<1>t. /\ t \in Thread /\ Writer \subseteq Thread
      /\ pc \in [Thread -> {"idle", "enter", "append", "link", "leave", "loop", "remove", "unlink",
                            "assert", "aborted"}]
      /\ entry \in [Thread -> Node \cup {NoNode}]
  BY DEF Thread, ListTypes
<1>1. /\ DataTypes /\ Filled(R) /\ Fresh(R) /\ Linked(R) /\ Handed(R) /\ Standing(R)
      /\ read \o FlattenSeq(Kept(R)) = written
  BY DEF StreamInv, RingInv, Streams
<1>2. PICK d : d = [i \in 1 .. size[e] |-> Len(written) + i]
  OBVIOUS
<1>3. /\ pc[t] = "link" /\ pc' = [pc EXCEPT ![t] = "leave"]
      /\ data' = [data EXCEPT ![e] = d] /\ written' = written \o data'[e]
      /\ entry' = [entry EXCEPT ![t] = NoNode]
      /\ UNCHANGED <<size, index, room, read, writes>>
  BY <1>2 DEF AppendTailLinks, counts, Goto, Forget
<1>4. \A u \in Thread : pc[u] \notin {"remove", "unlink", "aborted"}
  <2>1. lock = t
    BY <1>t, <1>1, <1>3 DEF Standing, Inside
  <2> QED
    BY <1>t, <1>1, <1>3, <2>1, Alone, Running DEF Inside
<1>5. PICK K : K = Kept(R)
  OBVIOUS
<1>6. /\ Len(R) \in Nat /\ DOMAIN R = 1 .. Len(R) /\ 1 .. writes \subseteq Node
      /\ \A i \in 1 .. Len(R) : R[i] \in 1 .. writes
      /\ K \in Seq(Seq(Nat)) /\ Len(K) = Len(R)
      /\ \A i \in 1 .. Len(R) : K[i] = Left(R[i])
  BY <1>1, <1>5, KeptIs
<1>7. /\ Len(Q) = Len(R) + 1 /\ DOMAIN Q = 1 .. Len(R) + 1
      /\ \A i \in 1 .. Len(R) : Q[i] = R[i]
      /\ Q[Len(R) + 1] = e
  <2>1. writes \in Nat /\ R \in Seq(1 .. writes)
    BY <1>1 DEF ListTypes, Linked, SizesAssumption
  <2> QED
    BY <1>q, <2>1, AtAppend
<1>8. /\ e \in Node /\ size[e] \in Nat /\ index[e] = 0
      /\ d \in Seq(Nat) /\ Len(d) = size[e] /\ data'[e] = d
      /\ \A n \in Node : n # e => data'[n] = data[n]
  <2>1. e \in Node
    BY <1>6
  <2>2. size[e] \in Nat /\ data \in [Node -> Seq(Nat)] /\ Len(written) \in Nat
    <3>1. size[e] \in 0 .. ULong - 1
      BY <1>1, <2>1 DEF DataTypes
    <3>2. written \in Seq(Nat)
      BY <1>1 DEF DataTypes
    <3>3. data \in [Node -> Seq(Nat)]
      BY <1>1 DEF DataTypes
    <3> QED
      BY <3>1, <3>2, <3>3, Fits
  <2>3. index[e] = 0
    BY <1>1, <1>3 DEF Filled, Making
  <2>4. d \in Seq(Nat) /\ Len(d) = size[e]
    <3>1. d \in [1 .. size[e] -> Nat]
      BY <1>2, <2>2
    <3> QED
      BY <2>2, <3>1
  <2> QED
    BY <1>3, <2>1, <2>2, <2>3, <2>4
<1>10. Filled(Q)'
  <2>1. ASSUME NEW i \in DOMAIN Q PROVE Len(data'[Q[i]]) = size[Q[i]] /\ index[Q[i]] <= size[Q[i]]
    <3>1. CASE i = Len(R) + 1
      BY <1>7, <1>8, <3>1
    <3>2. CASE i # Len(R) + 1
      <4>1. i \in 1 .. Len(R)
        BY <1>6, <1>7, <3>2
      <4>2. data'[R[i]] = data[R[i]]
        BY <1>6, <1>8, <4>1
      <4> QED
        BY <1>1, <1>6, <1>7, <4>1, <4>2 DEF Filled
    <3> QED
      BY <3>1, <3>2
  <2>2. ASSUME NEW u \in Writer, pc'[u] \in Making PROVE index[entry'[u]] = 0
    <3>1. u # t
      BY <1>t, <1>3, <2>2 DEF Making
    <3>2. pc[u] \in Making /\ entry'[u] = entry[u]
      BY <1>t, <1>3, <2>2, <3>1
    <3> QED
      BY <1>1, <3>2 DEF Filled
  <2>3. \A n \in Node : n > writes => index[n] = 0
    BY <1>1 DEF Filled
  <2>4. \A n \in Node : index[n] <= size[n]
    BY <1>1 DEF Filled
  <2> QED
    BY <1>3, <2>1, <2>2, <2>3, <2>4 DEF Filled, Making, Node
<1>11. Fresh(Q)'
  <2>1. \A u \in Thread : pc'[u] \notin {"remove", "unlink"}
    BY <1>t, <1>3, <1>4
  <2>2. ASSUME NEW i \in DOMAIN Q, Used(Q[i])' PROVE size'[Q[i]] = 0
    <3>1. CASE i = Len(R) + 1
      BY <1>3, <1>7, <1>8, <2>2, <3>1 DEF Used
    <3>2. CASE i # Len(R) + 1
      <4>1. i \in 1 .. Len(R)
        BY <1>6, <1>7, <3>2
      <4> QED
        BY <1>1, <1>3, <1>4, <1>6, <1>7, <2>2, <4>1 DEF Fresh, Used
    <3> QED
      BY <3>1, <3>2
  <2> QED
    BY <2>1, <2>2 DEF Fresh
<1>12. Streams(Q)'
  <2>1. Kept(Q)' = Append(K, d)
    <3>1. ASSUME NEW i \in 1 .. Len(R) PROVE Left(Q[i])' = K[i]
      <4>1. Q[i] = R[i] /\ data'[R[i]] = data[R[i]]
        BY <1>6, <1>7, <1>8
      <4> QED
        BY <1>3, <1>6, <4>1 DEF Left
    <3>2. Left(Q[Len(R) + 1])' = d
      <4>1. SubSeq(d, 1, Len(d)) = d
        BY <1>8
      <4>2. index'[e] + 1 = 1
        BY <1>3, <1>8
      <4> QED
        BY <1>7, <1>8, <4>1, <4>2 DEF Left
    <3>3. Kept(Q)' = [i \in 1 .. Len(R) + 1 |-> IF i = Len(R) + 1 THEN d ELSE K[i]]
      <4>1. ASSUME NEW i \in 1 .. Len(R) + 1
            PROVE  Left(Q[i])' = IF i = Len(R) + 1 THEN d ELSE K[i]
        <5>1. i # Len(R) + 1 => i \in 1 .. Len(R)
          BY <1>6
        <5> QED
          BY <3>1, <3>2, <5>1, Zenon
      <4>2. DOMAIN Q = 1 .. Len(R) + 1
        BY <1>7
      <4>3. Kept(Q)' = [i \in DOMAIN Q |-> Left(Q[i])']
        BY DEF Kept
      <4> QED
        BY <4>1, <4>2, <4>3, Zenon
    <3> DEFINE T == Seq(Nat)
    <3>4. K \in Seq(T) /\ d \in T /\ Len(K) = Len(R)
      BY <1>6, <1>8
    <3> HIDE DEF T
    <3>5. Append(K, d) = [i \in 1 .. Len(R) + 1 |-> IF i = Len(R) + 1 THEN d ELSE K[i]]
      BY <3>4, LongerIs
    <3> QED
      BY <3>3, <3>5, Zenon
  <2>2. PICK f \in Seq(Nat) : f = FlattenSeq(K) /\ FlattenSeq(Append(K, d)) = f \o d
    <3>1. K \in Seq(Seq(Nat)) /\ d \in Seq(Nat)
      BY <1>6, <1>8
    <3> QED
      BY <3>1, FlattenAppend, Zenon
  <2>3. PICK r \in Seq(Nat) : r = read
    BY <1>1 DEF DataTypes
  <2>4. (r \o f) \o d = r \o (f \o d)
    <3>1. d \in Seq(Nat)
      BY <1>8
    <3>2. JoiningAssociates(Nat)
      BY Associates, Zenon
    <3> QED
      BY <3>1, <3>2, Zenon DEF JoiningAssociates
  <2>5. written' = (r \o f) \o d
    BY <1>1, <1>3, <1>5, <1>8, <2>2, <2>3, Zenon
  <2>6. read' \o FlattenSeq(Kept(Q)') = r \o (f \o d)
    <3>1. read' = r
      BY <1>3, <2>3
    <3> QED
      BY <2>1, <2>2, <3>1, Zenon
  <2> QED
    BY <2>4, <2>5, <2>6, Zenon DEF Streams
<1> QED
  BY <1>10, <1>11, <1>12, <1>q DEF StreamInv

(* RemoveHead deletes an entry that has no byte left.                       *)
LEMMA StreamShrinks ==
    ASSUME SizesAssumption, ListTypes, ListTypes', DataTypes', NEW R, RingInv(R), StreamInv(R),
           NEW t \in Reader, RemoveHeadUnlinks(t), R # <<>>
    PROVE  StreamInv(Tail(R))'
<1>q. PICK Q : Q = Tail(R)
  OBVIOUS
<1>t. /\ t \in Thread /\ t \notin Writer /\ Writer \subseteq Thread
      /\ pc \in [Thread -> {"idle", "enter", "append", "link", "leave", "loop", "remove", "unlink",
                            "assert", "aborted"}]
      /\ entry \in [Thread -> Node \cup {NoNode}]
  BY DEF Thread, ListTypes, SizesAssumption
<1>1. /\ DataTypes /\ Filled(R) /\ Fresh(R) /\ Linked(R) /\ Handed(R) /\ Standing(R)
      /\ read \o FlattenSeq(Kept(R)) = written
  BY DEF StreamInv, RingInv, Streams
<1>2. /\ pc[t] = "unlink" /\ pc' = [pc EXCEPT ![t] = "loop"]
      /\ entry' = [entry EXCEPT ![t] = NoNode]
      /\ UNCHANGED <<data, size, index, room, written, read, writes>>
  BY DEF RemoveHeadUnlinks, counts, Goto, Forget
<1>3. \A u \in Thread : pc[u] \in {"remove", "unlink", "aborted"} => u = t
  <2>1. lock = t /\ pc[t] # "aborted"
    BY <1>t, <1>1, <1>2 DEF Standing, Inside
  <2>2. \A u \in Thread : pc[u] # "aborted"
    BY <1>t, <2>1, Running
  <2>3. \A u \in Thread : u # t => pc[u] \notin Inside
    BY <1>t, <1>1, <2>1, Alone
  <2> QED
    BY <2>2, <2>3 DEF Inside
<1>4. PICK K : K = Kept(R)
  OBVIOUS
<1>5. /\ Len(R) \in Nat /\ DOMAIN R = 1 .. Len(R)
      /\ K \in Seq(Seq(Nat)) /\ Len(K) = Len(R)
      /\ \A i \in 1 .. Len(R) : /\ data[R[i]] \in Seq(Nat) /\ Len(data[R[i]]) = size[R[i]]
                                /\ K[i] = Left(R[i])
  BY <1>1, <1>4, KeptIs
<1>6. /\ Len(Q) = Len(R) - 1 /\ DOMAIN Q = 1 .. Len(R) - 1 /\ Len(R) \in Nat \ {0}
      /\ \A i \in 1 .. Len(R) - 1 : Q[i] = R[i + 1]
  <2>1. writes \in Nat /\ R \in Seq(1 .. writes)
    BY <1>1 DEF ListTypes, Linked, SizesAssumption
  <2> QED
    BY <1>q, <2>1, AtTail
<1>8. Filled(Q)'
  <2>1. ASSUME NEW i \in DOMAIN Q PROVE Len(data[Q[i]]) = size[Q[i]] /\ index[Q[i]] <= size[Q[i]]
    <3>1. i + 1 \in DOMAIN R /\ Q[i] = R[i + 1]
      BY <1>5, <1>6
    <3> QED
      BY <1>1, <3>1 DEF Filled
  <2>2. ASSUME NEW u \in Writer, pc'[u] \in Making PROVE index[entry'[u]] = 0
    <3>1. pc[u] \in Making /\ entry'[u] = entry[u]
      BY <1>t, <1>2, <2>2
    <3> QED
      BY <1>1, <3>1 DEF Filled
  <2>3. \A n \in Node : n > writes => index[n] = 0
    BY <1>1 DEF Filled
  <2>4. \A n \in Node : index[n] <= size[n]
    BY <1>1 DEF Filled
  <2> QED
    BY <1>2, <2>1, <2>2, <2>3, <2>4 DEF Filled, Making, Node
<1>9. Fresh(Q)'
  <2>1. \A u \in Thread : pc'[u] \notin {"remove", "unlink"}
    BY <1>t, <1>2, <1>3
  <2>2. ASSUME NEW i \in DOMAIN Q, Used(Q[i])' PROVE size'[Q[i]] = 0
    <3>1. i + 1 \in DOMAIN R /\ i + 1 # 1 /\ Q[i] = R[i + 1]
      BY <1>5, <1>6
    <3> QED
      BY <1>1, <1>2, <2>2, <3>1 DEF Fresh, Used
  <2> QED
    BY <2>1, <2>2 DEF Fresh
<1>10. Streams(Q)'
  <2>1. K[1] = <<>>
    <3>1. index[R[1]] = size[R[1]]
      BY <1>t, <1>1, <1>2 DEF Fresh, Used
    <3>2. 1 \in 1 .. Len(R)
      BY <1>6
    <3>3. PICK s \in Seq(Nat) : s = data[R[1]]
      BY <1>5, <3>2
    <3>4. K[1] = SubSeq(s, Len(s) + 1, Len(s))
      BY <1>5, <3>1, <3>2, <3>3 DEF Left
    <3> QED
      BY <3>4
  <2>2. Kept(Q)' = Tail(K)
    <3>1. Kept(Q)' = [i \in 1 .. Len(R) - 1 |-> Left(R[i + 1])]
      BY <1>2, <1>6 DEF Kept, Left
    <3> DEFINE T == Seq(Nat)
    <3>2. K \in Seq(T)
      BY <1>5
    <3> HIDE DEF T
    <3>3. Tail(K) = [i \in 1 .. Len(R) - 1 |-> K[i + 1]]
      <4>1. Len(K) = Len(R) /\ K # <<>>
        BY <1>5, <1>6
      <4> QED
        BY <3>2, <4>1, ShorterIs
    <3>4. \A i \in 1 .. Len(R) - 1 : K[i + 1] = Left(R[i + 1])
      BY <1>5, <1>6
    <3> QED
      BY <3>1, <3>3, <3>4
  <2>3. K # <<>>
    BY <1>5, <1>6
  <2>4. Tail(K) \in Seq(Seq(Nat))
    <3> DEFINE T == Seq(Nat)
    <3>1. K \in Seq(T)
      BY <1>5
    <3> HIDE DEF T
    <3>2. Tail(K) \in Seq(T)
      BY <2>3, <3>1
    <3> QED
      BY <3>2 DEF T
  <2>5. PICK f \in Seq(Nat) : f = FlattenSeq(Tail(K))
    <3>1. <<>> \in Seq(Nat)
      OBVIOUS
    <3> QED
      BY <2>4, <3>1, FlattenAppend, Zenon
  <2>6. FlattenSeq(K) = <<>> \o f
    BY <1>5, <2>1, <2>3, <2>5, FlattenCons, Zenon
  <2>7. <<>> \o f = f
    OBVIOUS
  <2>8. read' \o FlattenSeq(Kept(Q)') = written'
    BY <1>1, <1>2, <1>4, <2>2, <2>5, <2>6, <2>7, Zenon
  <2> QED
    BY <2>8, Zenon DEF Streams
<1> QED
  BY <1>8, <1>9, <1>10, <1>q DEF StreamInv

-----------------------------------------------------------------------------
(* The ring and what it holds, for as long as no stray byte was read.       *)
BytesInv ==
    ListTypes /\ DataTypes /\ \E R : RingInv(R) /\ (CopiesTransportData => StreamInv(R))

LEMMA BytesInit == ASSUME SizesAssumption, Init PROVE BytesInv
<1>1. ListTypes /\ RingInv(<<>>)
  BY ListInit
<1>2. DataTypes
  <2>1. /\ size = [n \in Node |-> 0] /\ index = [n \in Node |-> 0]
        /\ data = [n \in Node |-> <<>>] /\ room = [t \in Thread |-> 0]
        /\ copied = [t \in Thread |-> 0] /\ written = <<>> /\ read = <<>>
    BY DEF Init
  <2>2. 0 \in 0 .. ULong - 1
    BY Fits
  <2>3. <<>> \in Seq(Nat)
    OBVIOUS
  <2> QED
    BY <2>1, <2>2, <2>3 DEF DataTypes
<1>3. Filled(<<>>) /\ Fresh(<<>>)
  <2>1. DOMAIN <<>> = {} /\ Writer \subseteq Thread
    BY DEF Thread
  <2> QED
    BY <2>1 DEF Init, Filled, Fresh, Making
<1>4. Streams(<<>>)
  <2>1. Kept(<<>>) = <<>>
    BY DEF Kept
  <2>2. FlattenSeq(<<>>) = <<>>
    <3>1. <<>> \in Seq(Nat) /\ <<>> \in Seq(Seq(Nat))
      OBVIOUS
    <3> QED
      BY <3>1, FlattenAppend, Zenon
  <2>3. <<>> \o <<>> = <<>>
    OBVIOUS
  <2>4. read = <<>> /\ written = <<>>
    BY DEF Init
  <2> QED
    BY <2>1, <2>2, <2>3, <2>4, Zenon DEF Streams
<1> QED
  BY <1>1, <1>2, <1>3, <1>4 DEF BytesInv, StreamInv

(* The steps that copy nothing and relink nothing.                          *)
LEMMA QuietSteps ==
    ASSUME SizesAssumption, ListTypes, DataTypes, DataTypes',
           \/ UNCHANGED vars
           \/ \E t \in Writer : Allocate(t) \/ AppendTailReads(t)
           \/ \E t \in Reader : BeginRead(t) \/ RemoveHeadReads(t) \/ Return(t)
           \/ \E t \in Thread : EnterCriticalSection(t) \/ LeaveCriticalSection(t)
    PROVE  Quiet
<1>t. /\ Writer \subseteq Thread /\ Reader \subseteq Thread /\ \A t \in Writer : t \notin Reader
      /\ writes \in Nat /\ MaxWrites \in Nat
      /\ pc \in [Thread -> {"idle", "enter", "append", "link", "leave", "loop", "remove", "unlink",
                            "assert", "aborted"}]
      /\ entry \in [Thread -> Node \cup {NoNode}]
  BY DEF Thread, ListTypes, SizesAssumption
<1>d. size \in [Node -> 0 .. ULong - 1]
  BY DEF DataTypes
<1>1. ASSUME UNCHANGED <<size, index, data, written, read, writes, entry>>,
             \A u \in Thread : pc'[u] \in {"remove", "unlink"} => pc[u] \in {"remove", "unlink"},
             \A u \in Thread : pc[u] \in {"remove", "unlink", "aborted"} =>
                               pc'[u] \in {"remove", "unlink", "aborted"},
             \A u \in Thread : pc'[u] \in Making => pc[u] \in Making \/ u \notin Writer
      PROVE  Quiet
  BY <1>1, <1>t DEF Quiet
<1>2. CASE UNCHANGED vars
  BY <1>1, <1>2 DEF vars, fields, locals, counts
<1>3. ASSUME NEW t \in Writer, Allocate(t) PROVE Quiet
  <2>1. CASE UNCHANGED <<alive, entry, size, pc>>
    <3>1. UNCHANGED <<size, pc, entry, index, data, written, read>> /\ writes' = writes + 1
      BY <1>3, <2>1 DEF Allocate
    <3> QED
      BY <1>t, <3>1 DEF Quiet
  <2>2. CASE ~UNCHANGED <<alive, entry, size, pc>>
    <3>1. PICK n \in WriteSizes : size' = [size EXCEPT ![writes + 1] = n]
      BY <1>3, <2>2 DEF Allocate
    <3>2. \A k \in 0 .. writes : size'[k] = size[k]
      <4>1. \A k \in 0 .. writes : k \in Node /\ k # writes + 1
        BY <1>t DEF Node, ListTypes
      <4> QED
        BY <1>d, <3>1, <4>1
    <3>3. /\ UNCHANGED <<index, data, written, read>> /\ writes' = writes + 1
          /\ writes < MaxWrites /\ pc[t] = "idle" /\ pc' = [pc EXCEPT ![t] = "enter"]
          /\ entry' = [entry EXCEPT ![t] = writes + 1]
      BY <1>3, <2>2 DEF Allocate, Goto
    <3>4. writes + 1 \in Node /\ writes + 1 > writes
      BY <1>t, <3>3 DEF Node
    <3> QED
      BY <1>t, <3>2, <3>3, <3>4 DEF Quiet
  <2> QED
    BY <2>1, <2>2
<1>4. ASSUME NEW t \in Writer, AppendTailReads(t) PROVE Quiet
  <2>1. /\ UNCHANGED <<size, index, data, written, read, writes, entry>>
        /\ pc[t] = "append" /\ pc' = [pc EXCEPT ![t] = "link"]
    BY <1>4 DEF AppendTailReads, fields, counts, Goto
  <2> QED
    BY <1>1, <1>t, <2>1 DEF Making
<1>5. ASSUME NEW t \in Reader, RemoveHeadReads(t) PROVE Quiet
  <2>1. /\ UNCHANGED <<size, index, data, written, read, writes, entry>>
        /\ pc[t] = "remove" /\ pc' = [pc EXCEPT ![t] = "unlink"]
    BY <1>5 DEF RemoveHeadReads, fields, counts, Goto
  <2> QED
    BY <1>1, <1>t, <2>1 DEF Making
<1>6. ASSUME NEW t \in Reader, BeginRead(t) \/ Return(t) PROVE Quiet
  <2>1. /\ UNCHANGED <<size, index, data, written, read, writes, entry>>
        /\ \/ pc' = pc
           \/ pc[t] = "idle" /\ pc' = [pc EXCEPT ![t] = "enter"]
           \/ pc[t] = "assert" /\ pc' = [pc EXCEPT ![t] = "idle"]
           \/ pc' = [u \in Thread |-> "aborted"]
    BY <1>6 DEF BeginRead, Return, fields, counts, Goto
  <2>2. t \in Thread /\ t \notin Writer
    BY <1>t
  <2> QED
    BY <1>1, <1>t, <2>1, <2>2 DEF Making
<1>7. ASSUME NEW t \in Thread, EnterCriticalSection(t) \/ LeaveCriticalSection(t) PROVE Quiet
  <2>1. /\ UNCHANGED <<size, index, data, written, read, writes, entry>>
        /\ \A u \in Thread : u # t => pc'[u] = pc[u]
        /\ \/ pc[t] = "enter" /\ pc'[t] \in {"append", "loop"}
           \/ pc[t] = "leave" /\ pc'[t] \in {"idle", "assert"}
    BY <1>t, <1>7 DEF EnterCriticalSection, LeaveCriticalSection, fields, counts, locals, Goto
  <2> QED
    BY <1>1, <1>t, <2>1 DEF Making
<1> QED
  BY <1>2, <1>3, <1>4, <1>5, <1>6, <1>7

(* What is handed out is never taken back: a stray byte stays one.          *)
LEMMA StrayStays ==
    ASSUME SizesAssumption, ListTypes, DataTypes, NEW R, RingInv(R), [Next]_vars,
           CopiesTransportData'
    PROVE  CopiesTransportData
<1>1. CASE read' = read
  BY <1>1 DEF CopiesTransportData
<1>2. ASSUME NEW t \in Reader, ReadLoop(t), room[t] > 0, ~IsEmpty PROVE CopiesTransportData
  <2>1. PICK copy : copy = CopyTo(R[1], room[t])
    OBVIOUS
  <2>2. R[1] \in Node /\ room[t] \in 0 .. ULong - 1 /\ read' = read \o copy.bytes
    <3>1. /\ R[1] \in Node /\ room[t] \in 1 .. ULong - 1 /\ read' = read \o copy.bytes
      BY <1>2, <2>1, LoopCopies
    <3>2. \A n \in 1 .. ULong - 1 : n \in 0 .. ULong - 1
      BY Fits
    <3> QED
      BY <3>1, <3>2
  <2>3. copy.bytes \in Seq(Nat) /\ read \in Seq(Nat)
    BY <2>1, <2>2, CopyTyped DEF DataTypes
  <2>4. \A i \in DOMAIN read : i \in DOMAIN read' /\ read'[i] = read[i]
    BY <2>2, <2>3
  <2> QED
    BY <2>4 DEF CopiesTransportData
<1>3. read' = read \/ \E t \in Reader : ReadLoop(t) /\ room[t] > 0 /\ ~IsEmpty
  BY DEF Next, WriteData, ReadData, Allocate, EnterCriticalSection, AppendTailReads,
         AppendTailLinks, LeaveCriticalSection, BeginRead, ReadLoop, RemoveHeadReads,
         RemoveHeadUnlinks, Return, vars
<1> QED
  BY <1>1, <1>2, <1>3

LEMMA BytesStep ==
    ASSUME SizesAssumption, BytesInv, [Next]_vars
    PROVE  BytesInv'
<1>1. PICK R : RingInv(R) /\ (CopiesTransportData => StreamInv(R))
  BY DEF BytesInv
<1>2. ListTypes /\ DataTypes
  BY DEF BytesInv
<1>3. ListTypes' /\ DataTypes'
  BY <1>1, <1>2, ListTyped, DataTyped
<1>s. CopiesTransportData' => StreamInv(R)
  BY <1>1, <1>2, StrayStays
<1>4. Writer \subseteq Thread /\ Reader \subseteq Thread
  BY DEF Thread
<1>5. ASSUME NEW t \in Writer, AppendTailLinks(t) PROVE BytesInv'
  <2>1. PICK e : e = entry[t]
    OBVIOUS
  <2>2. e \in 1 .. writes /\ (\A i \in DOMAIN R : R[i] # e) /\ RingInv(Append(R, e))'
    BY <1>1, <1>2, <1>5, <2>1, RingGrows
  <2>3. StreamInv(R) => StreamInv(Append(R, e))'
    BY <1>1, <1>2, <1>3, <1>5, <2>1, <2>2, StreamGrows
  <2> QED
    BY <1>3, <1>s, <2>2, <2>3 DEF BytesInv
<1>6. ASSUME NEW t \in Reader, RemoveHeadUnlinks(t) PROVE BytesInv'
  <2>1. R # <<>> /\ RingInv(Tail(R))'
    BY <1>1, <1>2, <1>6, RingShrinks
  <2>2. StreamInv(R) => StreamInv(Tail(R))'
    BY <1>1, <1>2, <1>3, <1>6, <2>1, StreamShrinks
  <2> QED
    BY <1>3, <1>s, <2>1, <2>2 DEF BytesInv
<1>7. ASSUME NEW t \in Reader, ReadLoop(t) PROVE BytesInv'
  <2>1. RingInv(R)'
    BY <1>1, <1>2, <1>7, RingStands
  <2>2. CopiesTransportData' => StreamInv(R)'
    BY <1>1, <1>2, <1>3, <1>s, <1>7, StreamReads
  <2> QED
    BY <1>3, <2>1, <2>2 DEF BytesInv
<1>8. CASE \/ UNCHANGED vars
           \/ \E t \in Writer : Allocate(t) \/ AppendTailReads(t)
           \/ \E t \in Reader : BeginRead(t) \/ RemoveHeadReads(t) \/ Return(t)
           \/ \E t \in Thread : EnterCriticalSection(t) \/ LeaveCriticalSection(t)
  <2>1. RingInv(R)'
    BY <1>1, <1>2, <1>8, RingStands
  <2>2. Quiet
    BY <1>2, <1>3, <1>8, QuietSteps
  <2>3. StreamInv(R) => StreamInv(R)'
    BY <1>1, <1>2, <1>3, <2>2, StreamStands
  <2> QED
    BY <1>3, <1>s, <2>1, <2>3 DEF BytesInv
<1> QED
  BY <1>4, <1>5, <1>6, <1>7, <1>8 DEF Next, WriteData, ReadData

(* What the invariant says of the bytes, and of the types.                  *)
LEMMA StreamWhole == ASSUME SizesAssumption, BytesInv PROVE StreamIntact /\ ListInv /\ TypeOK
<1>1. PICK R : RingInv(R) /\ (CopiesTransportData => StreamInv(R))
  BY DEF BytesInv
<1>2. Ring = R
  BY <1>1, RingIs DEF BytesInv, RingInv
<1>3. StreamIntact
  BY <1>1, <1>2, Zenon DEF StreamInv, Streams, Kept, StreamIntact
<1>4. TypeOK
  <2>1. ListTypes /\ DataTypes /\ Linked(R) /\ Handed(R) /\ Allocated(R)
    BY <1>1 DEF BytesInv, RingInv
  <2>2. alive \subseteq Node
    <3>1. \A i \in DOMAIN R : R[i] \in Node
      <4>1. writes \in Nat /\ writes <= MaxWrites /\ MaxWrites \in Nat
        BY <2>1 DEF ListTypes, SizesAssumption
      <4>2. \A i \in DOMAIN R : R[i] \in 1 .. writes
        BY <2>1, <4>1, AtEntries DEF Linked
      <4> QED
        BY <4>1, <4>2 DEF Node
    <3>2. \A t \in Writer : entry[t] # NoNode => entry[t] \in Node
      BY <2>1 DEF ListTypes, Thread
    <3>3. head \in Node
      BY DEF SizesAssumption, Node, head
    <3> QED
      BY <2>1, <3>1, <3>2, <3>3 DEF Allocated
  <2>3. room \in [Thread -> Nat]
    <3>1. room \in [Thread -> 0 .. ULong - 1] /\ ULong \in Nat
      BY <2>1, Fits DEF DataTypes
    <3> QED
      BY <3>1
  <2>4. CopiesTransportData => \A n \in Node : index[n] <= size[n]
    BY <1>1 DEF StreamInv, Filled
  <2> QED
    BY <2>1, <2>2, <2>3, <2>4 DEF TypeOK, Labels, ListTypes, DataTypes
<1> QED
  BY <1>1, <1>3, <1>4 DEF BytesInv, ListInv

-----------------------------------------------------------------------------
(* However the calls of any number of threads fall, every link and its      *)
(* opposite agree, and whoever follows the links finds live entries only.   *)
THEOREM RingCorrect ==
    ASSUME SizesAssumption PROVE Spec => [](RingInBothDirections /\ NothingLeaks)
<1>1. Init => ListInv
  BY ListInit DEF ListInv
<1>2. ListInv /\ [Next]_vars => ListInv'
  BY ListStep
<1>3. ListInv => RingInBothDirections /\ NothingLeaks
  BY RingWhole
<1> QED
  BY <1>1, <1>2, <1>3, PTL DEF Spec

LEMMA BytesCorrect == ASSUME SizesAssumption PROVE Spec => []BytesInv
<1>1. Init => BytesInv
  BY BytesInit
<1>2. BytesInv /\ [Next]_vars => BytesInv'
  BY BytesStep
<1> QED
  BY <1>1, <1>2, PTL DEF Spec

(* For buffers of every length: until a copy goes beyond its entry's end,   *)
(* what ReadData returned is what WriteData took in, byte by byte and in    *)
(* order, and what it has not returned the list still holds.                *)
THEOREM StreamCorrect == ASSUME SizesAssumption PROVE Spec => []StreamIntact
<1>1. BytesInv => StreamIntact
  BY StreamWhole
<1> QED
  BY <1>1, BytesCorrect, PTL

(* The variables keep their types, for buffers of every length.             *)
THEOREM TypeCorrect == ASSUME SizesAssumption PROVE Spec => []TypeOK
<1>1. BytesInv => TypeOK
  BY StreamWhole
<1> QED
  BY <1>1, BytesCorrect, PTL

-----------------------------------------------------------------------------
(* WinSockIOCP.                                                             *)
CONSTANTS Clients, Threads, BufferSize, Bytes, MaxSent
VARIABLES client, sent, inbox, echoed, conn, recvBuf, recvInto, sendBuf, op,
          port, worker, process

Iocp == INSTANCE IocpEchoServer

(* A live Connection has exactly one operation under way, on which the      *)
(* lifetime of the Connection objects rests, and no byte is lost or made up *)
(* in number.                                                               *)

(* Where the operations of c are, spelled out without the tags of Places.   *)
Queued(c, i)  == i \in DOMAIN port /\ port[i].conn = c
Carried(c, w) == w \in Threads /\ worker[w] # Iocp!NoPacket /\ worker[w].conn = c

Some(c) == (\E t : t \in op[c]) \/ (\E i : Queued(c, i)) \/ (\E w : Carried(c, w))

AtMostOne(c) ==
    /\ \A t, u : t \in op[c] /\ u \in op[c] => t = u
    /\ \A i, j : Queued(c, i) /\ Queued(c, j) => i = j
    /\ \A v, w : Carried(c, v) /\ Carried(c, w) => v = w
    /\ \A t, i : ~(t \in op[c] /\ Queued(c, i))
    /\ \A t, w : ~(t \in op[c] /\ Carried(c, w))
    /\ \A i, w : ~(Queued(c, i) /\ Carried(c, w))

One(c) == AtMostOne(c) /\ (Some(c) <=> conn[c] = "live")

AllOne == \A c \in Clients : One(c)

(* The bytes of c.  A packet tells how many of them wait for their echo to  *)
(* start, and a packet that ends the Connection comes when none is left.    *)
Held(c, p) == \/ \E i : Queued(c, i) /\ p = port[i]
              \/ \E w : Carried(c, w) /\ p = worker[w]

Under(c, n) == Len(sent[c]) = Len(inbox[c]) + n + Len(echoed[c])
Drained(c)  == client[c] = "closed" /\ inbox[c] = <<>>
Told(c, p)  == /\ Under(c, IF p.type = "recv" THEN p.bytes ELSE 0)
               /\ ~p.ok \/ p.bytes = 0 => p.bytes = 0 /\ Drained(c)

Counted(c) ==
    client[c] # "reset" =>
        /\ \A p : Held(c, p) => Told(c, p)
        /\ "send" \in op[c] => Under(c, Len(sendBuf[c])) /\ Len(sendBuf[c]) > 0
        /\ "recv" \in op[c] \/ conn[c] # "live" => Under(c, 0)
        /\ conn[c] = "deleted" => Drained(c)

AllCounted == \A c \in Clients : Counted(c)

(* The types, the single operation and the count are inductive together:    *)
(* that a worker may post the next operation without looking at conn rests  *)
(* on the packet in its hands being the only one, and so does the count.    *)
ServerInv == Iocp!TypeOK /\ AllOne /\ AllCounted

(* With one place at most, the set of places has one element or none.       *)
LEMMA OnePlace == AllOne => Iocp!OneOperationEach
<1> SUFFICES ASSUME AllOne, NEW c \in Clients
             PROVE  IF conn[c] = "live" THEN \E x \in Iocp!Places(c) : Iocp!Places(c) = {x}
                                        ELSE Iocp!Places(c) = {}
  BY DEF Iocp!OneOperationEach
<1>1. AtMostOne(c) /\ (Some(c) <=> conn[c] = "live")
  BY DEF AllOne, One
<1>2. \A x : x \in Iocp!Places(c) <=>
              \/ \E t : t \in op[c] /\ x = <<"kernel", t>>
              \/ \E i : Queued(c, i) /\ x = <<"port", i>>
              \/ \E w : Carried(c, w) /\ x = <<"worker", w>>
  BY DEF Iocp!Places, Queued, Carried
<1>3. ASSUME NEW x \in Iocp!Places(c), NEW y \in Iocp!Places(c) PROVE x = y
  BY <1>1, <1>2, <1>3 DEF AtMostOne
<1>4. (\E x : x \in Iocp!Places(c)) <=> Some(c)
  BY <1>2 DEF Some
<1> QED
  BY <1>1, <1>3, <1>4

(* A sum over no packet, or over one.                                      *)
LEMMA QueuedSum ==
  ASSUME NEW S
  PROVE  /\ S = {} => Iocp!MapThenSumSet(LAMBDA i : port[i].bytes, S) = 0
         /\ \A x : S = {x} /\ port[x].bytes \in Nat =>
                Iocp!MapThenSumSet(LAMBDA i : port[i].bytes, S) = port[x].bytes
<1> DEFINE step(f) == [s \in SUBSET S |-> IF s = {} THEN 0
                          ELSE LET x == CHOOSE x \in s : TRUE IN port[x].bytes + f[s \ {x}]]
           g == CHOOSE f : f = step(f)
<1>1. Iocp!MapThenSumSet(LAMBDA i : port[i].bytes, S) = g[S]
  BY DEF Iocp!MapThenSumSet, Iocp!MapThenFoldSet
<1>2. ASSUME S = {} PROVE g[S] = 0
  <2>1. PICK h : h = [s \in SUBSET S |-> 0]
    OBVIOUS
  <2>2. h = step(h)
    BY <1>2, <2>1
  <2>3. g = step(g)
    BY <2>2
  <2> QED
    BY <1>2, <2>3
<1>3. ASSUME NEW x, S = {x}, port[x].bytes \in Nat PROVE g[S] = port[x].bytes
  <2>1. PICK h : h = [s \in SUBSET S |-> IF s = {} THEN 0 ELSE port[x].bytes]
    OBVIOUS
  <2>2. \A s \in SUBSET S : s # {} => (CHOOSE y \in s : TRUE) = x /\ s \ {x} = {}
    BY <1>3
  <2>3. h = step(h)
    BY <1>3, <2>1, <2>2
  <2>4. g = step(g)
    BY <2>3
  <2>5. g[{}] = 0
    BY <2>4
  <2>6. S \ {x} = {}
    BY <1>3
  <2>7. g[S] = port[x].bytes + g[S \ {x}]
    BY <1>3, <2>2, <2>4
  <2> HIDE DEF g
  <2>8. g[S] = port[x].bytes + 0
    BY <2>5, <2>6, <2>7
  <2> QED
    BY <1>3, <2>8
<1> QED
  BY <1>1, <1>2, <1>3

LEMMA CarriedSum ==
  ASSUME NEW S
  PROVE  /\ S = {} => Iocp!MapThenSumSet(LAMBDA w : worker[w].bytes, S) = 0
         /\ \A x : S = {x} /\ worker[x].bytes \in Nat =>
                Iocp!MapThenSumSet(LAMBDA w : worker[w].bytes, S) = worker[x].bytes
<1> DEFINE step(f) == [s \in SUBSET S |-> IF s = {} THEN 0
                          ELSE LET x == CHOOSE x \in s : TRUE IN worker[x].bytes + f[s \ {x}]]
           g == CHOOSE f : f = step(f)
<1>1. Iocp!MapThenSumSet(LAMBDA w : worker[w].bytes, S) = g[S]
  BY DEF Iocp!MapThenSumSet, Iocp!MapThenFoldSet
<1>2. ASSUME S = {} PROVE g[S] = 0
  <2>1. PICK h : h = [s \in SUBSET S |-> 0]
    OBVIOUS
  <2>2. h = step(h)
    BY <1>2, <2>1
  <2>3. g = step(g)
    BY <2>2
  <2> QED
    BY <1>2, <2>3
<1>3. ASSUME NEW x, S = {x}, worker[x].bytes \in Nat PROVE g[S] = worker[x].bytes
  <2>1. PICK h : h = [s \in SUBSET S |-> IF s = {} THEN 0 ELSE worker[x].bytes]
    OBVIOUS
  <2>2. \A s \in SUBSET S : s # {} => (CHOOSE y \in s : TRUE) = x /\ s \ {x} = {}
    BY <1>3
  <2>3. h = step(h)
    BY <1>3, <2>1, <2>2
  <2>4. g = step(g)
    BY <2>3
  <2>5. g[{}] = 0
    BY <2>4
  <2>6. S \ {x} = {}
    BY <1>3
  <2>7. g[S] = worker[x].bytes + g[S \ {x}]
    BY <1>3, <2>2, <2>4
  <2> HIDE DEF g
  <2>8. g[S] = worker[x].bytes + 0
    BY <2>5, <2>6, <2>7
  <2> QED
    BY <1>3, <2>8
<1> QED
  BY <1>1, <1>2, <1>3

(* The sums of EveryByteCounted have at most one summand between them.      *)
LEMMA CountedBytes == ASSUME Iocp!TypeOK, AllOne, AllCounted PROVE Iocp!EveryByteCounted
<1> SUFFICES ASSUME NEW c \in Clients, client[c] # "reset"
             PROVE  /\ Len(sent[c])
                         = Len(inbox[c]) + Iocp!Received(c) + Iocp!Echoing(c) + Len(echoed[c])
                    /\ conn[c] = "deleted" => Len(echoed[c]) = Len(sent[c])
  BY DEF Iocp!EveryByteCounted
<1> DEFINE Q == {i \in DOMAIN port : port[i] # Iocp!NoPacket /\ port[i].conn = c
                                     /\ port[i].type = "recv"}
           W == {w \in Threads : worker[w] # Iocp!NoPacket /\ worker[w].conn = c
                                 /\ worker[w].type = "recv"}
           q == Iocp!MapThenSumSet(LAMBDA i : port[i].bytes, Q)
           m == Iocp!MapThenSumSet(LAMBDA w : worker[w].bytes, W)
           e == IF "send" \in op[c] THEN Len(sendBuf[c]) ELSE 0
<1>1. Iocp!Received(c) = q + m /\ Iocp!Echoing(c) = e
  BY DEF Iocp!Received, Iocp!Echoing
<1>2. One(c) /\ Counted(c)
  BY DEF AllOne, AllCounted
<1>3. /\ Len(sent[c]) \in Nat /\ Len(inbox[c]) \in Nat /\ Len(echoed[c]) \in Nat
      /\ Len(sendBuf[c]) \in Nat /\ op[c] \subseteq {"recv", "send"}
  BY DEF Iocp!TypeOK
<1>4. \A i \in Q : Queued(c, i) /\ Held(c, port[i])
  BY DEF Queued, Held
<1>5. \A w \in W : Carried(c, w) /\ Held(c, worker[w])
  BY DEF Carried, Held
<1>6. /\ \A i \in Q : port[i].bytes \in Nat
      /\ \A w \in W : worker[w].bytes \in Nat
  <2>1. \A p \in Iocp!Packet : p.bytes \in Nat
    BY DEF Iocp!Packet
  <2>2. /\ \A i \in Q : port[i] \in Iocp!Packet
        /\ \A w \in W : worker[w] \in Iocp!Packet
    BY DEF Iocp!TypeOK
  <2> QED
    BY <2>1, <2>2
<1>7. /\ Q = {} => q = 0
      /\ \A i \in Q : Q = {i} => q = port[i].bytes
  BY <1>6, QueuedSum
<1>8. /\ W = {} => m = 0
      /\ \A w \in W : W = {w} => m = worker[w].bytes
  BY <1>6, CarriedSum
<1>9. Under(c, q + m + e)
  <2>1. CASE Q # {}
    <3>1. PICK i \in Q : TRUE
      BY <2>1
    <3>2. Q = {i} /\ W = {} /\ op[c] = {}
      BY <1>2, <1>4, <1>5, <3>1 DEF One, AtMostOne
    <3>3. q = port[i].bytes /\ m = 0 /\ e = 0 /\ Under(c, port[i].bytes)
      BY <1>2, <1>4, <1>7, <1>8, <3>1, <3>2 DEF Counted, Told
    <3> QED
      BY <1>6, <3>1, <3>3
  <2>2. CASE W # {}
    <3>1. PICK w \in W : TRUE
      BY <2>2
    <3>2. W = {w} /\ Q = {} /\ op[c] = {}
      BY <1>2, <1>4, <1>5, <3>1 DEF One, AtMostOne
    <3>3. m = worker[w].bytes /\ q = 0 /\ e = 0 /\ Under(c, worker[w].bytes)
      BY <1>2, <1>5, <1>7, <1>8, <3>1, <3>2 DEF Counted, Told
    <3> QED
      BY <1>6, <3>1, <3>3
  <2>3. CASE Q = {} /\ W = {}
    <3>1. q = 0 /\ m = 0
      BY <1>7, <1>8, <2>3
    <3>2. CASE "send" \in op[c]
      BY <1>2, <1>3, <3>1, <3>2 DEF Counted
    <3>3. CASE "send" \notin op[c]
      <4>1. e = 0
        BY <3>3
      <4>2. Under(c, 0)
        <5>1. CASE "recv" \in op[c] \/ conn[c] # "live"
          BY <1>2, <5>1 DEF Counted
        <5>2. CASE ~("recv" \in op[c] \/ conn[c] # "live")
          <6>1. PICK p : Held(c, p) /\ p.type # "recv"
            <7>1. (\E i : Queued(c, i)) \/ (\E w : Carried(c, w))
              BY <1>2, <1>3, <3>3, <5>2 DEF One, Some
            <7>2. ASSUME NEW i, Queued(c, i) PROVE Held(c, port[i]) /\ port[i].type # "recv"
              <8>1. port[i] \in Iocp!Packet
                BY <7>2 DEF Queued, Iocp!TypeOK
              <8>2. port[i] # Iocp!NoPacket
                BY <8>1 DEF Iocp!Packet, Iocp!NoPacket
              <8> QED
                BY <2>3, <7>2, <8>2 DEF Queued, Held
            <7>3. ASSUME NEW w, Carried(c, w) PROVE Held(c, worker[w]) /\ worker[w].type # "recv"
              BY <2>3, <7>3 DEF Carried, Held
            <7> QED
              BY <7>1, <7>2, <7>3
          <6> QED
            BY <1>2, <6>1 DEF Counted, Told
        <5> QED
          BY <5>1, <5>2
      <4> QED
        BY <3>1, <4>1, <4>2
    <3> QED
      BY <3>2, <3>3
  <2> QED
    BY <2>1, <2>2, <2>3
<1>10. q \in Nat /\ m \in Nat /\ e \in Nat
  <2>1. Q = {} \/ \E i \in Q : Q = {i}
    BY <1>2, <1>4 DEF One, AtMostOne
  <2>2. W = {} \/ \E w \in W : W = {w}
    BY <1>2, <1>5 DEF One, AtMostOne
  <2> HIDE DEF q, m
  <2>3. q \in Nat
    BY <1>6, <1>7, <2>1
  <2>4. m \in Nat
    BY <1>6, <1>8, <2>2
  <2> QED
    BY <1>3, <2>3, <2>4
<1>11. conn[c] = "deleted" => Under(c, 0) /\ inbox[c] = <<>>
  BY <1>2 DEF Counted, Drained
<1> HIDE DEF q, m, e
<1> DEFINE ls == Len(sent[c])
           li == Len(inbox[c])
           le == Len(echoed[c])
<1>12. ls = li + (q + m + e) + le
  BY <1>9 DEF Under
<1>13. ls = li + (q + m) + e + le
  <2>1. ls \in Nat /\ li \in Nat /\ le \in Nat
    BY <1>3
  <2> HIDE DEF ls, li, le
  <2> QED
    BY <1>10, <1>12, <2>1
<1>14. conn[c] = "deleted" => le = ls
  <2>1. conn[c] = "deleted" => ls = li + 0 + le /\ li = 0
    <3>1. \A s : s = <<>> => Len(s) = 0
      OBVIOUS
    <3>2. conn[c] = "deleted" => li = 0
      BY <1>11, <3>1
    <3> QED
      BY <1>11, <3>2 DEF Under
  <2>2. ls \in Nat /\ li \in Nat /\ le \in Nat
    BY <1>3
  <2> HIDE DEF ls, li, le
  <2> QED
    BY <2>1, <2>2
<1> QED
  BY <1>1, <1>3, <1>10, <1>13, <1>14

(* Before main has accepted anybody there is nothing.                       *)
LEMMA ServerInvInit == Iocp!BoundsAssumption /\ Iocp!Init => ServerInv
<1> SUFFICES ASSUME Iocp!BoundsAssumption, Iocp!Init PROVE ServerInv
  OBVIOUS
<1>1. Iocp!TypeOK
  BY DEF Iocp!Init, Iocp!TypeOK, Iocp!BoundsAssumption, Iocp!FreshBuffer, Iocp!AnyByte, Iocp!Packet
<1>2. AllOne
  BY DEF Iocp!Init, AllOne, One, AtMostOne, Some, Queued, Carried
<1>3. AllCounted
  BY DEF Iocp!Init, AllCounted, Counted, Held, Queued, Carried, Under
<1> QED
  BY <1>1, <1>2, <1>3 DEF ServerInv

-----------------------------------------------------------------------------
(* An operation that completes is queued behind the others.                 *)
LEMMA CompletionType ==
  ASSUME port \in Seq(Iocp!Packet), NEW c \in Clients, NEW t \in {"recv", "send"},
         NEW ok \in BOOLEAN,
         NEW n \in 0 .. BufferSize, Iocp!Completion(c, t, ok, n)
  PROVE  /\ port' \in Seq(Iocp!Packet)
         /\ DOMAIN port' = DOMAIN port \cup {Len(port) + 1}
         /\ \A i \in DOMAIN port : port'[i] = port[i]
         /\ port'[Len(port) + 1].conn = c
<1>1. [conn |-> c, type |-> t, ok |-> ok, bytes |-> n] \in Iocp!Packet
  BY DEF Iocp!Packet
<1>2. port' = Append(port, [conn |-> c, type |-> t, ok |-> ok, bytes |-> n])
  BY DEF Iocp!Completion
<1> QED
  BY <1>1, <1>2

(* A completed receive puts its bytes in front of what the buffer held.     *)
LEMMA ReceivedBytes ==
  ASSUME Iocp!BoundsAssumption, NEW s \in Seq(Bytes), NEW b \in [1 .. BufferSize -> Iocp!AnyByte],
         NEW n \in 1 .. BufferSize, n <= Len(s)
  PROVE  /\ SubSeq(s, 1, n) \o SubSeq(b, n + 1, BufferSize) \in [1 .. BufferSize -> Iocp!AnyByte]
         /\ SubSeq(s, n + 1, Len(s)) \in Seq(Bytes)
<1>1. BufferSize \in Nat /\ b \in Seq(Iocp!AnyByte) /\ Len(b) = BufferSize
  BY DEF Iocp!BoundsAssumption
<1>2. /\ SubSeq(s, 1, n) \in Seq(Bytes) /\ Len(SubSeq(s, 1, n)) = n
      /\ SubSeq(s, n + 1, Len(s)) \in Seq(Bytes)
  BY <1>1
<1>3. SubSeq(b, n + 1, BufferSize) \in Seq(Iocp!AnyByte)
      /\ Len(SubSeq(b, n + 1, BufferSize)) = BufferSize - n
  BY <1>1
<1>4. SubSeq(s, 1, n) \in Seq(Iocp!AnyByte)
  BY <1>2 DEF Iocp!AnyByte
<1>5. SubSeq(s, 1, n) \o SubSeq(b, n + 1, BufferSize) \in Seq(Iocp!AnyByte)
  BY <1>3, <1>4
<1>6. Len(SubSeq(s, 1, n) \o SubSeq(b, n + 1, BufferSize)) = BufferSize
  BY <1>1, <1>2, <1>3, <1>4
<1>7. \A q \in Seq(Iocp!AnyByte) : q \in [1 .. Len(q) -> Iocp!AnyByte]
  OBVIOUS
<1> QED
  BY <1>2, <1>5, <1>6, <1>7

(* What a send is told to send fits its buffer.                             *)
LEMMA SentBytes ==
  ASSUME Iocp!BoundsAssumption, NEW b \in [1 .. BufferSize -> Iocp!AnyByte],
         NEW n \in 1 .. BufferSize
  PROVE  SubSeq(b, 1, n) \in Seq(Iocp!AnyByte) /\ Len(SubSeq(b, 1, n)) <= BufferSize
<1>1. BufferSize \in Nat /\ b \in Seq(Iocp!AnyByte) /\ Len(b) = BufferSize
  BY DEF Iocp!BoundsAssumption
<1> QED
  BY <1>1

(* Every step of a client, the kernel, main and the workers keeps the types. *)
LEMMA ServerTypeStep ==
  ASSUME Iocp!BoundsAssumption, Iocp!TypeOK, [Iocp!Next]_(Iocp!vars)
  PROVE  Iocp!TypeOK'
<1> USE DEF Iocp!TypeOK, Iocp!netVars, Iocp!connVars
<1>1. ASSUME NEW c \in Clients, Iocp!ClientStep(c) PROVE Iocp!TypeOK'
  <2>0. sent[c] \in Seq(Bytes) /\ inbox[c] \in Seq(Bytes)
    OBVIOUS
  <2>1. ASSUME NEW b \in Bytes
        PROVE  Append(sent[c], b) \in Seq(Bytes) /\ Append(inbox[c], b) \in Seq(Bytes)
    <3> HIDE DEF Iocp!TypeOK
    <3> QED
      BY <2>0
  <2>2. CASE Iocp!ClientSend(c)
    <3>1. sent' \in [Clients -> Seq(Bytes)] /\ inbox' \in [Clients -> Seq(Bytes)]
      <4> HIDE DEF Iocp!TypeOK
      <4>1. sent \in [Clients -> Seq(Bytes)] /\ inbox \in [Clients -> Seq(Bytes)]
        BY DEF Iocp!TypeOK
      <4> QED
        BY <2>1, <2>2, <4>1 DEF Iocp!ClientSend
    <3>2. UNCHANGED <<client, echoed, Iocp!connVars, port, worker, process>>
      BY <2>2 DEF Iocp!ClientSend
    <3> QED
      BY <3>1, <3>2
  <2>3. CASE Iocp!ClientConnect(c) \/ Iocp!ClientClose(c)
    BY <2>3 DEF Iocp!ClientConnect, Iocp!ClientClose
  <2>4. CASE Iocp!ClientReset(c)
    <3>1. inbox' \in [Clients -> Seq(Bytes)]
      <4> HIDE DEF Iocp!TypeOK
      <4>1. inbox \in [Clients -> Seq(Bytes)] /\ <<>> \in Seq(Bytes)
        BY DEF Iocp!TypeOK
      <4> QED
        BY <2>4, <4>1 DEF Iocp!ClientReset
    <3> QED
      BY <2>4, <3>1 DEF Iocp!ClientReset
  <2> QED
    BY <1>1, <2>2, <2>3, <2>4 DEF Iocp!ClientStep
<1>2. ASSUME NEW c \in Clients, Iocp!CompleteRecv(c) PROVE Iocp!TypeOK'
  <2>1. op' \in [Clients -> SUBSET {"recv", "send"}]
    BY <1>2 DEF Iocp!CompleteRecv
  <2>2. ASSUME NEW n \in 1 .. BufferSize, n <= Len(inbox[c]),
               Iocp!Completion(c, "recv", TRUE, n),
               inbox' = [inbox EXCEPT ![c] = SubSeq(@, n + 1, Len(@))],
               recvBuf' = IF recvInto[c] = "Buffer"
                          THEN [recvBuf EXCEPT ![c] = SubSeq(inbox[c], 1, n)
                                                        \o SubSeq(@, n + 1, BufferSize)]
                          ELSE recvBuf
        PROVE  Iocp!TypeOK'
    <3>1. port' \in Seq(Iocp!Packet)
      <4>1. n \in 0 .. BufferSize /\ TRUE \in BOOLEAN
        BY DEF Iocp!BoundsAssumption
      <4> QED
        BY <2>2, <4>1, CompletionType
    <3>2. /\ SubSeq(inbox[c], 1, n) \o SubSeq(recvBuf[c], n + 1, BufferSize)
                  \in [1 .. BufferSize -> Iocp!AnyByte]
          /\ SubSeq(inbox[c], n + 1, Len(inbox[c])) \in Seq(Bytes)
      BY <2>2, ReceivedBytes
    <3>3. recvBuf' \in [Clients -> [1 .. BufferSize -> Iocp!AnyByte]]
      BY <2>2, <3>2
    <3> QED
      BY <1>2, <2>1, <2>2, <3>1, <3>2, <3>3 DEF Iocp!CompleteRecv
  <2>3. ASSUME Iocp!RecvEnd(c) PROVE Iocp!TypeOK'
    <3>1. port' \in Seq(Iocp!Packet)
      <4>1. 0 \in 0 .. BufferSize
        BY DEF Iocp!BoundsAssumption
      <4> QED
        BY <2>3, <4>1, CompletionType DEF Iocp!RecvEnd
    <3> QED
      BY <1>2, <2>1, <2>3, <3>1 DEF Iocp!CompleteRecv, Iocp!RecvEnd
  <2> QED
    BY <1>2, <2>2, <2>3 DEF Iocp!CompleteRecv, Iocp!RecvData
<1>3. ASSUME NEW c \in Clients, Iocp!CompleteSend(c) PROVE Iocp!TypeOK'
  <2>1. Len(sendBuf[c]) \in 0 .. BufferSize /\ 0 \in 0 .. BufferSize
    BY DEF Iocp!BoundsAssumption
  <2>2. port' \in Seq(Iocp!Packet)
    BY <1>3, <2>1, CompletionType DEF Iocp!CompleteSend
  <2>3. echoed[c] \o sendBuf[c] \in Seq(Iocp!AnyByte)
    OBVIOUS
  <2>4. echoed' \in [Clients -> Seq(Iocp!AnyByte)]
    <3> HIDE DEF Iocp!TypeOK
    <3>1. echoed \in [Clients -> Seq(Iocp!AnyByte)]
      BY DEF Iocp!TypeOK
    <3> QED
      BY <1>3, <2>3, <3>1 DEF Iocp!CompleteSend
  <2> QED
    BY <1>3, <2>2, <2>4 DEF Iocp!CompleteSend
<1>4. ASSUME NEW c \in Clients, Iocp!PostRecv(c)
      PROVE  /\ recvBuf' \in [Clients -> [1 .. BufferSize -> Iocp!AnyByte]]
             /\ recvInto' \in [Clients -> {"Buffer", "temporary"}]
             /\ op' \in [Clients -> SUBSET {"recv", "send"}]
  BY <1>4 DEF Iocp!PostRecv, Iocp!FreshBuffer, Iocp!AnyByte
<1>5. ASSUME NEW c \in Clients, Iocp!MainStep(c) \/ Iocp!StrayWrite(c) PROVE Iocp!TypeOK'
  BY <1>4, <1>5 DEF Iocp!MainStep, Iocp!Accept, Iocp!AcceptRefused, Iocp!AcceptThrows,
                    Iocp!StrayWrite
<1>6. ASSUME NEW w \in Threads, Iocp!WorkerThread(w) PROVE Iocp!TypeOK'
  <2>1. CASE Iocp!Dequeue(w)
    <3>1. Head(port) \in Iocp!Packet /\ Tail(port) \in Seq(Iocp!Packet)
      BY <2>1 DEF Iocp!Dequeue
    <3> QED
      BY <2>1, <3>1 DEF Iocp!Dequeue
  <2>2. ASSUME Iocp!Handling(w) PROVE worker[w] \in Iocp!Packet
    BY <2>2 DEF Iocp!Handling
  <2>3. CASE Iocp!HandleEnd(w)
    BY <2>2, <2>3 DEF Iocp!HandleEnd, Iocp!Finish, Iocp!Packet
  <2>4. CASE Iocp!HandleRecv(w)
    <3>1. worker[w] \in Iocp!Packet /\ worker[w].conn \in Clients
          /\ worker[w].bytes \in 1 .. BufferSize
      BY <2>2, <2>4 DEF Iocp!HandleRecv, Iocp!Packet
    <3>2. LET s == SubSeq(recvBuf[worker[w].conn], 1, worker[w].bytes)
          IN  s \in Seq(Iocp!AnyByte) /\ Len(s) <= BufferSize
      BY <3>1, SentBytes
    <3> QED
      BY <2>4, <3>1, <3>2 DEF Iocp!HandleRecv, Iocp!PostSend, Iocp!Finish
  <2>5. CASE Iocp!HandleSend(w)
    <3>1. worker[w].conn \in Clients
      BY <2>2, <2>5 DEF Iocp!HandleSend, Iocp!Packet
    <3> QED
      BY <1>4, <2>5, <3>1 DEF Iocp!HandleSend, Iocp!Finish
  <2>6. CASE Iocp!HandleThrows(w)
    BY <2>6 DEF Iocp!HandleThrows
  <2> QED
    BY <1>6, <2>1, <2>3, <2>4, <2>5, <2>6 DEF Iocp!WorkerThread
<1>7. CASE UNCHANGED Iocp!vars
  BY <1>7 DEF Iocp!vars
<1> QED
  BY <1>1, <1>2, <1>3, <1>5, <1>6, <1>7 DEF Iocp!Next, Iocp!KernelStep

-----------------------------------------------------------------------------
(* The operation of c moves: from the kernel into the port, from the port   *)
(* to a worker, and from there back to the kernel or, with the Connection,  *)
(* out of the world.  Nobody else's operation moves with it.                *)
LEMMA ServerOneStep ==
  ASSUME Iocp!BoundsAssumption, Iocp!TypeOK, AllOne, [Iocp!Next]_(Iocp!vars)
  PROVE  AllOne'
<1>0. \A d \in Clients : One(d)
  BY DEF AllOne
<1> USE DEF Iocp!netVars, Iocp!connVars
<1>1. ASSUME UNCHANGED <<conn, op, port, worker>> PROVE AllOne'
  BY <1>0, <1>1 DEF AllOne, One, AtMostOne, Some, Queued, Carried
<1>2. ASSUME NEW c \in Clients, Iocp!ClientStep(c) \/ Iocp!StrayWrite(c) PROVE AllOne'
  BY <1>1, <1>2 DEF Iocp!ClientStep, Iocp!ClientConnect, Iocp!ClientSend,
                    Iocp!ClientClose, Iocp!ClientReset, Iocp!StrayWrite
<1>3. ASSUME NEW c \in Clients, NEW t \in {"recv", "send"}, t \in op[c],
             op' = [op EXCEPT ![c] = @ \ {t}], UNCHANGED <<conn, worker>>,
             DOMAIN port' = DOMAIN port \cup {Len(port) + 1},
             \A i \in DOMAIN port : port'[i] = port[i],
             port'[Len(port) + 1].conn = c
      PROVE  AllOne'
  <2>1. Len(port) + 1 \notin DOMAIN port
    BY DEF Iocp!TypeOK
  <2>2. op' \in [Clients -> SUBSET {"recv", "send"}] /\ op \in [Clients -> SUBSET {"recv", "send"}]
    BY <1>3 DEF Iocp!TypeOK
  <2>3. ASSUME NEW d \in Clients, d # c PROVE One(d)'
    <3>1. op'[d] = op[d] /\ conn' = conn
      BY <1>3, <2>2, <2>3
    <3>2. \A i : Queued(d, i)' <=> Queued(d, i)
      BY <1>3, <2>1, <2>3 DEF Queued
    <3>3. \A w : Carried(d, w)' <=> Carried(d, w)
      BY <1>3 DEF Carried
    <3> QED
      BY <1>0, <3>1, <3>2, <3>3 DEF One, AtMostOne, Some
  <2>4. One(c)'
    <3>1. op'[c] = {} /\ (\A i : ~Queued(c, i)) /\ (\A w : ~Carried(c, w)) /\ conn[c] = "live"
      BY <1>0, <1>3, <2>2 DEF One, AtMostOne, Some
    <3>2. \A i : Queued(c, i)' <=> i = Len(port) + 1
      BY <1>3, <3>1 DEF Queued
    <3> QED
      BY <1>3, <3>1, <3>2 DEF One, AtMostOne, Some, Carried
  <2> QED
    BY <2>3, <2>4 DEF AllOne
<1>4. ASSUME NEW c \in Clients, Iocp!KernelStep(c) PROVE AllOne'
  <2>0. Len(sendBuf[c]) \in 0 .. BufferSize /\ 0 \in 0 .. BufferSize
        /\ 1 .. BufferSize \subseteq 0 .. BufferSize /\ port \in Seq(Iocp!Packet)
    BY DEF Iocp!TypeOK, Iocp!BoundsAssumption
  <2>1. CASE Iocp!CompleteRecv(c)
    <3>1. PICK ok \in BOOLEAN, n \in 0 .. BufferSize : Iocp!Completion(c, "recv", ok, n)
      BY <2>0, <2>1 DEF Iocp!CompleteRecv, Iocp!RecvData, Iocp!RecvEnd
    <3> QED
      BY <1>3, <2>0, <2>1, <3>1, CompletionType DEF Iocp!CompleteRecv
  <2>2. CASE Iocp!CompleteSend(c)
    <3>1. PICK ok \in BOOLEAN, n \in 0 .. BufferSize : Iocp!Completion(c, "send", ok, n)
      BY <2>0, <2>2 DEF Iocp!CompleteSend
    <3> QED
      BY <1>3, <2>0, <2>2, <3>1, CompletionType DEF Iocp!CompleteSend
  <2> QED
    BY <1>4, <2>1, <2>2 DEF Iocp!KernelStep
<1>5. ASSUME NEW c \in Clients, Iocp!MainStep(c) PROVE AllOne'
  <2>1. conn[c] = "none" /\ UNCHANGED <<port, worker>>
    BY <1>5 DEF Iocp!MainStep, Iocp!Accept, Iocp!AcceptRefused, Iocp!AcceptThrows, Iocp!InBacklog
  <2>2. op[c] = {} /\ (\A i : ~Queued(c, i)) /\ (\A w : ~Carried(c, w))
    BY <1>0, <2>1 DEF One, Some
  <2>3. \A d : /\ \A i : Queued(d, i)' <=> Queued(d, i)
               /\ \A w : Carried(d, w)' <=> Carried(d, w)
    BY <2>1 DEF Queued, Carried
  <2>4. CASE Iocp!Accept(c)
    <3>1. op' = [op EXCEPT ![c] = @ \cup {"recv"}] /\ conn' = [conn EXCEPT ![c] = "live"]
      BY <2>4 DEF Iocp!Accept, Iocp!PostRecv
    <3>2. op'[c] = {"recv"} /\ conn'[c] = "live"
      BY <2>2, <3>1 DEF Iocp!TypeOK
    <3>3. One(c)'
      BY <2>2, <2>3, <3>2 DEF One, AtMostOne, Some
    <3>4. ASSUME NEW d \in Clients, d # c PROVE One(d)'
      BY <1>0, <2>3, <3>1, <3>4 DEF One, AtMostOne, Some, Iocp!TypeOK
    <3> QED
      BY <3>3, <3>4 DEF AllOne
  <2>5. ASSUME NEW how \in {"refused", "leaked"}, conn' = [conn EXCEPT ![c] = how], UNCHANGED op
        PROVE  AllOne'
    <3>1. conn'[c] # "live" /\ \A d \in Clients : d # c => conn'[d] = conn[d]
      BY <2>5 DEF Iocp!TypeOK
    <3> QED
      BY <1>0, <2>1, <2>3, <2>5, <3>1 DEF AllOne, One, AtMostOne, Some
  <2> QED
    BY <1>5, <2>4, <2>5 DEF Iocp!MainStep, Iocp!AcceptRefused, Iocp!AcceptThrows
<1>6. ASSUME NEW w \in Threads, Iocp!Dequeue(w) PROVE AllOne'
  <2> DEFINE p == Head(port)
             c == p.conn
  <2>1. /\ port \in Seq(Iocp!Packet) /\ port # <<>> /\ Len(port) \in Nat
           /\ worker[w] = Iocp!NoPacket
        /\ worker' = [worker EXCEPT ![w] = p] /\ port' = Tail(port) /\ UNCHANGED <<conn, op>>
    BY <1>6 DEF Iocp!Dequeue, Iocp!TypeOK
  <2>0. p = port[1] /\ p \in Iocp!Packet
    BY <2>1
  <2>a. p # Iocp!NoPacket /\ c \in Clients
    BY <2>0 DEF Iocp!Packet, Iocp!NoPacket
  <2>2. /\ p = port[1] /\ p # Iocp!NoPacket /\ c \in Clients
        /\ DOMAIN port' = 1 .. Len(port) - 1 /\ DOMAIN port = 1 .. Len(port)
        /\ \A i \in 1 .. Len(port) - 1 : port'[i] = port[i + 1]
    BY <2>0, <2>1, <2>a
  <2>3. \A v \in Threads : worker'[v] = IF v = w THEN p ELSE worker[v]
    BY <2>1 DEF Iocp!TypeOK
  <2>4. ASSUME NEW d \in Clients, d # c PROVE One(d)'
    <3>1. \A i : Queued(d, i)' <=> i \in 1 .. Len(port) - 1 /\ Queued(d, i + 1)
      BY <2>1, <2>2, <2>4 DEF Queued
    <3>2. \A i : Queued(d, i) => i # 1 /\ i - 1 \in 1 .. Len(port) - 1 /\ (i - 1) + 1 = i
      BY <2>1, <2>2, <2>4 DEF Queued
    <3>3. \A v : Carried(d, v)' <=> Carried(d, v)
      BY <2>1, <2>3, <2>4 DEF Carried
    <3>4. (\E i : Queued(d, i)') <=> (\E i : Queued(d, i))
      BY <3>1, <3>2
    <3>5. ASSUME NEW i, NEW j, Queued(d, i)', Queued(d, j)' PROVE i = j
      <4>1. i + 1 = j + 1 /\ i \in Int /\ j \in Int
        BY <1>0, <3>1, <3>5 DEF One, AtMostOne
      <4> QED
        BY <4>1
    <3> QED
      BY <1>0, <2>1, <3>3, <3>4, <3>5 DEF One, AtMostOne, Some
  <2>5. ASSUME NEW d \in Clients, d = c PROVE One(d)'
    <3>1. Queued(d, 1)
      BY <2>1, <2>2, <2>5 DEF Queued
    <3>2. op[d] = {} /\ (\A v : ~Carried(d, v)) /\ (\A i : Queued(d, i) => i = 1)
          /\ conn[d] = "live"
      BY <1>0, <3>1 DEF One, AtMostOne, Some
    <3>3. ASSUME NEW i, Queued(d, i)' PROVE FALSE
      <4>1. i \in 1 .. Len(port) - 1 /\ port[i + 1].conn = d
        BY <2>1, <2>2, <3>3 DEF Queued
      <4>2. i + 1 \in DOMAIN port /\ i + 1 # 1
        BY <2>1, <2>2, <4>1
      <4> QED
        BY <3>2, <4>1, <4>2 DEF Queued
    <3>4. \A v : Carried(d, v)' <=> v = w
      BY <2>2, <2>3, <2>5, <3>2 DEF Carried
    <3> QED
      BY <2>1, <3>2, <3>3, <3>4 DEF One, AtMostOne, Some
  <2> QED
    BY <2>4, <2>5 DEF AllOne
<1>7. ASSUME NEW w \in Threads, Iocp!Handling(w), Iocp!Finish(w), UNCHANGED port,
             NEW O \in SUBSET {"recv", "send"},
             op' = [op EXCEPT ![worker[w].conn] = @ \cup O],
             \A t, u \in O : t = u,
             \/ O = {} /\ conn' = [conn EXCEPT ![worker[w].conn] = "deleted"]
             \/ O # {} /\ conn' = conn
      PROVE  AllOne'
  <2> DEFINE c == worker[w].conn
  <2>1. c \in Clients /\ Carried(c, w)
    BY <1>7 DEF Iocp!Handling, Carried, Iocp!TypeOK, Iocp!Packet
  <2>2. /\ op[c] = {} /\ (\A i : ~Queued(c, i)) /\ (\A v : Carried(c, v) => v = w)
        /\ conn[c] = "live"
    BY <1>0, <2>1 DEF One, AtMostOne, Some
  <2>3. \A d : /\ \A i : Queued(d, i)' <=> Queued(d, i)
               /\ \A v : Carried(d, v)' <=> Carried(d, v) /\ v # w
    BY <1>7 DEF Queued, Carried, Iocp!Finish, Iocp!TypeOK
  <2> DEFINE oc == op'[c]
             cc == conn'[c]
  <2>4. oc = O /\ (cc = "live" <=> O # {})
    BY Zenon, <1>7, <2>1, <2>2 DEF Iocp!TypeOK
  <2>5. ASSUME NEW d \in Clients, d # c PROVE One(d)'
    <3>1. op'[d] = op[d] /\ conn'[d] = conn[d] /\ ~Carried(d, w)
      BY <1>7, <2>1, <2>5 DEF Iocp!TypeOK, Carried
    <3> QED
      BY <1>0, <2>3, <3>1 DEF One, AtMostOne, Some
  <2>6. ASSUME NEW d \in Clients, d = c PROVE One(d)'
    <3>1. op'[d] = O /\ (conn'[d] = "live" <=> O # {})
      BY <1>7, <2>4, <2>6
    <3>2. (\A i : ~Queued(d, i)') /\ (\A v : ~Carried(d, v)')
      BY <2>2, <2>3, <2>6
    <3> QED
      BY <1>7, <3>1, <3>2 DEF One, AtMostOne, Some
  <2> QED
    BY <2>5, <2>6 DEF AllOne
<1>8. ASSUME NEW w \in Threads, Iocp!WorkerThread(w) PROVE AllOne'
  <2>1. CASE Iocp!HandleEnd(w)
    <3>1. op' = [op EXCEPT ![worker[w].conn] = @ \cup {}] /\ {} \in SUBSET {"recv", "send"}
      BY <2>1 DEF Iocp!HandleEnd, Iocp!TypeOK
    <3>2. /\ Iocp!Handling(w) /\ Iocp!Finish(w) /\ UNCHANGED port
          /\ conn' = [conn EXCEPT ![worker[w].conn] = "deleted"]
      BY <2>1 DEF Iocp!HandleEnd
    <3> QED
      BY <1>7, <3>1, <3>2
  <2>2. ASSUME NEW t \in {"recv", "send"}, Iocp!Handling(w), Iocp!Finish(w),
               UNCHANGED <<port, conn>>,
               op' = [op EXCEPT ![worker[w].conn] = @ \cup {t}]
        PROVE  AllOne'
    <3>1. {t} # {} /\ {t} \in SUBSET {"recv", "send"} /\ \A u, v \in {t} : u = v
      OBVIOUS
    <3> QED
      BY <1>7, <2>2, <3>1
  <2>3. CASE Iocp!HandleRecv(w)
    BY <2>2, <2>3 DEF Iocp!HandleRecv, Iocp!PostSend
  <2>4. CASE Iocp!HandleSend(w)
    BY <2>2, <2>4 DEF Iocp!HandleSend, Iocp!PostRecv
  <2>5. CASE Iocp!HandleThrows(w)
    BY <1>1, <2>5 DEF Iocp!HandleThrows
  <2> QED
    BY <1>6, <1>8, <2>1, <2>3, <2>4, <2>5 DEF Iocp!WorkerThread
<1>9. CASE UNCHANGED Iocp!vars
  BY <1>1, <1>9 DEF Iocp!vars
<1> QED
  BY <1>2, <1>4, <1>5, <1>8, <1>9 DEF Iocp!Next

-----------------------------------------------------------------------------
(* Where nothing moves but the packets, the bytes stay where they are.      *)
LEMMA SameCounted ==
  ASSUME NEW d \in Clients, Counted(d), client'[d] = client[d], sent'[d] = sent[d],
         inbox'[d] = inbox[d], echoed'[d] = echoed[d], sendBuf'[d] = sendBuf[d],
         op'[d] = op[d], conn'[d] = conn[d], \A p : Held(d, p)' => Held(d, p)
  PROVE  Counted(d)'
<1>1. \A n : Under(d, n)' <=> Under(d, n)
  BY DEF Under
<1>2. Drained(d)' <=> Drained(d)
  BY DEF Drained
<1> HIDE DEF Under, Drained, Held
<1>3. \A p : Told(d, p)' <=> Told(d, p)
  BY <1>1, <1>2 DEF Told
<1> HIDE DEF Told
<1> QED
  BY <1>1, <1>2, <1>3 DEF Counted

(* What is left of a sequence once its first n elements are taken.          *)
LEMMA RestLength ==
  ASSUME NEW S, NEW s \in Seq(S), NEW n \in Nat, n <= Len(s)
  PROVE  Len(SubSeq(s, n + 1, Len(s))) = Len(s) - n
OBVIOUS

(* A worker that has handled its packet leaves the Connection with none.    *)
LEMMA FinishHeld ==
  ASSUME Iocp!TypeOK, AllOne, NEW w \in Threads, Iocp!Handling(w), Iocp!Finish(w), port' = port,
         NEW c, c = worker[w].conn
  PROVE  /\ c \in Clients /\ worker[w] \in Iocp!Packet /\ Held(c, worker[w])
         /\ conn[c] = "live" /\ op[c] = {}
         /\ \A p : ~Held(c, p)'
         /\ \A d \in Clients : \A p : Held(d, p)' => Held(d, p)
<1>1. worker[w] \in Iocp!Packet /\ c \in Clients /\ Carried(c, w)
  BY DEF Iocp!Handling, Carried, Iocp!TypeOK, Iocp!Packet
<1>2. One(c)
  BY <1>1 DEF AllOne
<1>3. conn[c] = "live" /\ op[c] = {} /\ (\A i : ~Queued(c, i)) /\ \A v : Carried(c, v) => v = w
  BY <1>1, <1>2 DEF One, AtMostOne, Some
<1>4. \A d : /\ \A i : Queued(d, i)' <=> Queued(d, i)
             /\ \A v : Carried(d, v)' <=> Carried(d, v) /\ v # w
  BY DEF Queued, Carried, Iocp!Finish, Iocp!TypeOK
<1>5. \A v \in Threads : v # w => worker'[v] = worker[v]
  BY DEF Iocp!Finish, Iocp!TypeOK
<1>6. \A p : ~Held(c, p)'
  BY <1>3, <1>4 DEF Held
<1>7. ASSUME NEW d \in Clients, NEW p, Held(d, p)' PROVE Held(d, p)
  <2>1. CASE \E i : Queued(d, i)' /\ p = port'[i]
    BY <1>4, <2>1 DEF Held
  <2>2. CASE \E v : Carried(d, v)' /\ p = worker'[v]
    <3>1. PICK v : Carried(d, v)' /\ p = worker'[v]
      BY <2>2
    <3>2. Carried(d, v) /\ v # w /\ v \in Threads
      BY <1>4, <3>1 DEF Carried
    <3> QED
      BY <1>5, <3>1, <3>2 DEF Held
  <2> QED
    BY <1>7, <2>1, <2>2 DEF Held
<1>8. Held(c, worker[w])
  BY <1>1 DEF Held
<1> QED
  BY <1>1, <1>3, <1>6, <1>7, <1>8

(* An operation of c that completes is the only one: the packet that tells  *)
(* of it is the only one of c.                                              *)
LEMMA CompletedHeld ==
  ASSUME Iocp!TypeOK, AllOne, NEW c \in Clients, NEW t \in {"recv", "send"}, t \in op[c],
         NEW ok \in BOOLEAN, NEW n \in 0 .. BufferSize, Iocp!Completion(c, t, ok, n),
         op' = [op EXCEPT ![c] = @ \ {t}], worker' = worker
  PROVE  /\ op[c] = {t} /\ op'[c] = {} /\ conn[c] = "live"
         /\ \A p : Held(c, p)' => p = [conn |-> c, type |-> t, ok |-> ok, bytes |-> n]
         /\ \A d \in Clients : \A p : d # c /\ Held(d, p)' => Held(d, p)
<1>1. One(c)
  BY DEF AllOne
<1>2. /\ \A u \in op[c] : u = t
      /\ \A i : ~Queued(c, i)
      /\ \A w : ~Carried(c, w)
      /\ conn[c] = "live"
  BY <1>1 DEF One, AtMostOne, Some
<1>3. op[c] = {t} /\ op'[c] = {}
  BY <1>2 DEF Iocp!TypeOK
<1> DEFINE new == [conn |-> c, type |-> t, ok |-> ok, bytes |-> n]
<1>4. port' = Append(port, new) /\ port \in Seq(Iocp!Packet)
  BY DEF Iocp!Completion, Iocp!TypeOK
<1>5. new.conn = c /\ new \in Iocp!Packet
  BY DEF Iocp!Packet
<1> HIDE DEF new
<1>6. /\ DOMAIN port' = DOMAIN port \cup {Len(port) + 1}
      /\ \A i \in DOMAIN port : port'[i] = port[i]
      /\ port'[Len(port) + 1] = new
  BY <1>4, <1>5
<1>7. ASSUME NEW d \in Clients, NEW p, Held(d, p)'
      PROVE  Held(d, p) \/ (d = c /\ p = new)
  <2>1. CASE \E i : Queued(d, i)' /\ p = port'[i]
    <3>1. PICK i : i \in DOMAIN port' /\ port'[i].conn = d /\ p = port'[i]
      BY <2>1 DEF Queued
    <3>2. CASE i \in DOMAIN port
      BY <1>6, <3>1, <3>2 DEF Held, Queued
    <3>3. CASE i = Len(port) + 1
      BY <1>5, <1>6, <3>1, <3>3
    <3> QED
      BY <1>6, <3>1, <3>2, <3>3
  <2>2. CASE \E w : Carried(d, w)' /\ p = worker'[w]
    BY <2>2 DEF Held, Carried
  <2> QED
    BY <1>7, <2>1, <2>2 DEF Held
<1>8. \A p : ~Held(c, p)
  BY <1>2 DEF Held
<1> QED
  BY <1>2, <1>3, <1>7, <1>8 DEF new


(* A byte of c moves on with the operation of c, and an end of the stream   *)
(* is told when no byte is left unread.                                     *)
LEMMA ServerCountedStep ==
  ASSUME Iocp!BoundsAssumption, Iocp!TypeOK, AllOne, AllCounted, [Iocp!Next]_(Iocp!vars)
  PROVE  AllCounted'
<1>0. \A d \in Clients : Counted(d)
  BY DEF AllCounted
<1> USE DEF Iocp!netVars, Iocp!connVars
<1>t. /\ client \in [Clients -> {"idle", "open", "closed", "reset"}]
      /\ sent \in [Clients -> Seq(Bytes)] /\ inbox \in [Clients -> Seq(Bytes)]
      /\ echoed \in [Clients -> Seq(Iocp!AnyByte)] /\ sendBuf \in [Clients -> Seq(Iocp!AnyByte)]
      /\ conn \in [Clients -> {"none", "live", "leaked", "refused", "deleted"}]
      /\ op \in [Clients -> SUBSET {"recv", "send"}]
  BY DEF Iocp!TypeOK
<1>u. BufferSize \in Nat \ {0} /\ recvBuf \in [Clients -> [1 .. BufferSize -> Iocp!AnyByte]]
  BY DEF Iocp!TypeOK, Iocp!BoundsAssumption
<1>1. ASSUME NEW d \in Clients, port' = port, worker' = worker
      PROVE  \A p : Held(d, p)' => Held(d, p)
  BY <1>1 DEF Held, Queued, Carried
<1>2. ASSUME UNCHANGED <<Iocp!netVars, sendBuf, op, conn, port, worker>> PROVE AllCounted'
  BY <1>0, <1>1, <1>2, SameCounted DEF AllCounted
<1>3. ASSUME NEW c \in Clients, Iocp!ClientStep(c) PROVE AllCounted'
  <2>0. UNCHANGED <<echoed, sendBuf, op, conn, port, worker>>
    BY <1>3 DEF Iocp!ClientStep, Iocp!ClientConnect, Iocp!ClientSend, Iocp!ClientClose,
                Iocp!ClientReset
  <2>1. ASSUME NEW d \in Clients, d # c PROVE Counted(d)'
    <3>1. client'[d] = client[d] /\ sent'[d] = sent[d] /\ inbox'[d] = inbox[d]
      BY <1>3, <1>t, <2>1 DEF Iocp!ClientStep, Iocp!ClientConnect, Iocp!ClientSend,
                              Iocp!ClientClose, Iocp!ClientReset
    <3> QED
      BY <1>0, <1>1, <2>0, <3>1, SameCounted
  <2>2. Counted(c)'
    <3>1. CASE Iocp!ClientReset(c)
      BY <1>t, <3>1 DEF Iocp!ClientReset, Counted
    <3>2. ASSUME client[c] # "reset", ~Drained(c),
                 \A n : n \in Int /\ Under(c, n) => Under(c, n)'
          PROVE  Counted(c)'
      <4>1. /\ \A p : Held(c, p) => Told(c, p)
            /\ "send" \in op[c] => Under(c, Len(sendBuf[c])) /\ Len(sendBuf[c]) > 0
            /\ "recv" \in op[c] \/ conn[c] # "live" => Under(c, 0)
            /\ conn[c] # "deleted"
        BY <1>0, <3>2 DEF Counted
      <4>2. ASSUME NEW p, Held(c, p)' PROVE Told(c, p)'
        <5>1. Held(c, p) /\ Told(c, p)
          BY <1>1, <2>0, <4>1, <4>2
        <5>2. p \in Iocp!Packet
          BY <5>1 DEF Held, Queued, Carried, Iocp!TypeOK
        <5>3. p.ok /\ p.bytes # 0 /\ p.bytes \in Int
          BY <3>2, <5>1, <5>2 DEF Told, Iocp!Packet
        <5>4. Under(c, IF p.type = "recv" THEN p.bytes ELSE 0)
          BY <5>1 DEF Told
        <5>5. (IF p.type = "recv" THEN p.bytes ELSE 0) \in Int
          BY <5>3
        <5> HIDE DEF Under
        <5>6. Under(c, IF p.type = "recv" THEN p.bytes ELSE 0)'
          BY <3>2, <5>4, <5>5
        <5> QED
          BY <5>3, <5>6 DEF Told
      <4>3. Len(sendBuf[c]) \in Int /\ 0 \in Int
        BY <1>t
      <4>4. sendBuf' = sendBuf /\ op' = op /\ conn' = conn
        BY <2>0
      <4> HIDE DEF Under, Told, Held
      <4>5. /\ "send" \in op'[c] => Under(c, Len(sendBuf[c]))' /\ Len(sendBuf'[c]) > 0
            /\ "recv" \in op'[c] \/ conn'[c] # "live" => Under(c, 0)'
            /\ conn'[c] # "deleted"
        BY <3>2, <4>1, <4>3, <4>4
      <4> QED
        BY <4>2, <4>5 DEF Counted
    <3>3. CASE Iocp!ClientConnect(c) \/ Iocp!ClientClose(c)
      <4>1. client[c] \in {"idle", "open"} /\ UNCHANGED <<sent, inbox>>
        BY <3>3 DEF Iocp!ClientConnect, Iocp!ClientClose
      <4>2. \A n : Under(c, n) => Under(c, n)'
        BY <2>0, <4>1 DEF Under
      <4> QED
        BY <3>2, <4>1, <4>2 DEF Drained
    <3>4. CASE Iocp!ClientSend(c)
      <4>1. client[c] = "open"
        BY <3>4 DEF Iocp!ClientSend
      <4>2. PICK b \in Bytes : sent'[c] = Append(sent[c], b)
                               /\ inbox'[c] = Append(inbox[c], b)
        BY <1>t, <3>4 DEF Iocp!ClientSend
      <4>3. sent[c] \in Seq(Bytes) /\ inbox[c] \in Seq(Bytes) /\ Len(echoed[c]) \in Nat
        BY <1>t
      <4>4. Len(sent'[c]) = Len(sent[c]) + 1 /\ Len(inbox'[c]) = Len(inbox[c]) + 1
            /\ Len(sent[c]) \in Nat /\ Len(inbox[c]) \in Nat
        BY <4>2, <4>3
      <4>5. Len(echoed'[c]) = Len(echoed[c])
        BY <2>0
      <4>6. ASSUME NEW n \in Int, Under(c, n) PROVE Under(c, n)'
        <5>1. Len(sent[c]) = Len(inbox[c]) + n + Len(echoed[c])
          BY <4>6 DEF Under
        <5>2. Len(inbox[c]) \in Nat /\ Len(echoed[c]) \in Nat
          BY <4>3
        <5>3. Len(sent'[c]) = Len(inbox'[c]) + n + Len(echoed'[c])
          <6> DEFINE a == Len(sent[c])
                     q == Len(inbox[c])
                     e == Len(echoed[c])
                     a1 == Len(sent'[c])
                     q1 == Len(inbox'[c])
                     e1 == Len(echoed'[c])
          <6>1. a = q + n + e /\ q \in Nat /\ e \in Nat /\ a1 = a + 1 /\ q1 = q + 1 /\ e1 = e
            BY <4>4, <4>5, <5>1, <5>2
          <6> HIDE DEF a, q, e, a1, q1, e1
          <6>2. a1 = q1 + n + e1
            BY <4>6, <6>1
          <6> QED
            BY <6>2 DEF a1, q1, e1
        <5> QED
          BY <5>3 DEF Under
      <4> HIDE DEF Under
      <4> QED
        BY <3>2, <4>1, <4>6 DEF Drained
    <3> QED
      BY <1>3, <3>1, <3>3, <3>4 DEF Iocp!ClientStep
  <2> QED
    BY <2>1, <2>2 DEF AllCounted
<1>4. ASSUME NEW c \in Clients, Iocp!StrayWrite(c) PROVE AllCounted'
  BY <1>2, <1>4 DEF Iocp!StrayWrite
<1>5. ASSUME NEW c \in Clients, Iocp!CompleteRecv(c) PROVE AllCounted'
  <2>1. /\ "recv" \in op[c] /\ op' = [op EXCEPT ![c] = @ \ {"recv"}]
        /\ UNCHANGED <<client, sent, echoed, conn, sendBuf, worker>>
        /\ \A d \in Clients : d # c => inbox'[d] = inbox[d]
    BY <1>5, <1>t DEF Iocp!CompleteRecv, Iocp!RecvData, Iocp!RecvEnd
  <2>2. PICK ok \in BOOLEAN, n \in 0 .. BufferSize :
             /\ Iocp!Completion(c, "recv", ok, n)
             /\ client[c] # "reset" =>
                  \/ n > 0 /\ ok /\ n <= Len(inbox[c])
                     /\ inbox'[c] = SubSeq(inbox[c], n + 1, Len(inbox[c]))
                  \/ n = 0 /\ Drained(c) /\ inbox' = inbox
    <3>1. CASE Iocp!RecvData(c)
      <4>1. PICK n \in 1 .. BufferSize :
                /\ n <= Len(inbox[c]) /\ Iocp!Completion(c, "recv", TRUE, n)
                /\ inbox' = [inbox EXCEPT ![c] = SubSeq(@, n + 1, Len(@))]
        BY <3>1 DEF Iocp!RecvData
      <4>2. n \in 0 .. BufferSize /\ n > 0
        BY <1>u, <4>1
      <4>3. inbox'[c] = SubSeq(inbox[c], n + 1, Len(inbox[c]))
        BY <1>t, <4>1
      <4> QED
        BY <4>1, <4>2, <4>3
    <3>2. CASE Iocp!RecvEnd(c)
      <4>1. 0 \in 0 .. BufferSize
        BY <1>u
      <4> QED
        BY <3>2, <4>1 DEF Iocp!RecvEnd, Drained
    <3> QED
      BY <1>5, <3>1, <3>2 DEF Iocp!CompleteRecv
  <2> DEFINE new == [conn |-> c, type |-> "recv", ok |-> ok, bytes |-> n]
  <2>3. /\ op[c] = {"recv"} /\ op'[c] = {} /\ conn[c] = "live"
        /\ \A p : Held(c, p)' => p = new
        /\ \A d \in Clients : \A p : d # c /\ Held(d, p)' => Held(d, p)
    BY <2>1, <2>2, CompletedHeld
  <2>4. ASSUME NEW d \in Clients, d # c PROVE Counted(d)'
    <3>1. op'[d] = op[d]
      BY <1>t, <2>1, <2>4
    <3> QED
      BY <1>0, <2>1, <2>3, <2>4, <3>1, SameCounted
  <2>5. Counted(c)'
    <3> SUFFICES ASSUME client[c] # "reset" PROVE Told(c, new)'
      BY <2>1, <2>3 DEF Counted
    <3>1. Len(sent[c]) = Len(inbox[c]) + 0 + Len(echoed[c])
      BY <1>0, <2>3 DEF Counted, Under
    <3>2. inbox[c] \in Seq(Bytes) /\ Len(echoed[c]) \in Nat /\ n \in Nat
      BY <1>t, <1>u, <2>2
    <3>3. Len(sent'[c]) = Len(sent[c]) /\ Len(echoed'[c]) = Len(echoed[c])
          /\ client'[c] = client[c]
      BY <2>1
    <3>a. Len(inbox[c]) \in Nat
      BY <3>2
    <3>4. Len(sent'[c]) = Len(inbox'[c]) + n + Len(echoed'[c])
      <4>1. CASE n > 0
        <5>0. inbox'[c] = SubSeq(inbox[c], n + 1, Len(inbox[c])) /\ n <= Len(inbox[c])
          BY <2>2, <4>1
        <5>1. Len(inbox'[c]) = Len(inbox[c]) - n
          BY <3>2, <5>0, RestLength
        <5>2. \A a, e, k \in Nat : a + 0 + e = (a - k) + k + e
          OBVIOUS
        <5>3. n \in Nat /\ Len(inbox[c]) \in Nat /\ Len(echoed[c]) \in Nat
          BY <3>2, <3>a
        <5>4. Len(inbox[c]) + 0 + Len(echoed[c])
                = (Len(inbox[c]) - n) + n + Len(echoed[c])
          BY Zenon, <5>2, <5>3
        <5> QED
          BY Zenon, <3>1, <3>3, <5>1, <5>4
      <4>2. CASE n = 0
        <5>1. Len(inbox'[c]) = Len(inbox[c])
          BY <2>2, <4>2
        <5> QED
          BY <3>1, <3>3, <4>2, <5>1
      <4>3. n > 0 \/ n = 0
        BY <3>2
      <4> QED
        BY <4>1, <4>2, <4>3
    <3>5. ~ok \/ n = 0 => n = 0 /\ Drained(c)'
      <4>1. ~ok \/ n = 0 => n = 0 /\ Drained(c) /\ inbox' = inbox
        BY <2>2
      <4> QED
        BY <3>3, <4>1 DEF Drained
    <3>6. new.type = "recv" /\ new.bytes = n /\ new.ok = ok
      OBVIOUS
    <3> HIDE DEF new
    <3> QED
      BY <3>4, <3>5, <3>6 DEF Told, Under
  <2> QED
    BY <2>4, <2>5 DEF AllCounted
<1>6. ASSUME NEW c \in Clients, Iocp!CompleteSend(c) PROVE AllCounted'
  <2>1. /\ "send" \in op[c] /\ op' = [op EXCEPT ![c] = @ \ {"send"}]
        /\ UNCHANGED <<client, sent, inbox, conn, sendBuf, worker>>
        /\ \A d \in Clients : d # c => echoed'[d] = echoed[d]
    BY <1>6, <1>t DEF Iocp!CompleteSend
  <2>2. PICK ok \in BOOLEAN, n \in 0 .. BufferSize :
             /\ Iocp!Completion(c, "send", ok, n)
             /\ client[c] # "reset" =>
                  ok /\ n = Len(sendBuf[c]) /\ echoed'[c] = echoed[c] \o sendBuf[c]
    <3>1. Len(sendBuf[c]) \in 0 .. BufferSize /\ 0 \in 0 .. BufferSize
      BY <1>u DEF Iocp!TypeOK
    <3>2. CASE client[c] # "reset"
      BY <1>6, <1>t, <3>1, <3>2 DEF Iocp!CompleteSend
    <3>3. CASE client[c] = "reset"
      BY <1>6, <3>1, <3>3 DEF Iocp!CompleteSend
    <3> QED
      BY <3>2, <3>3
  <2> DEFINE new == [conn |-> c, type |-> "send", ok |-> ok, bytes |-> n]
  <2>3. /\ op[c] = {"send"} /\ op'[c] = {} /\ conn[c] = "live"
        /\ \A p : Held(c, p)' => p = new
        /\ \A d \in Clients : \A p : d # c /\ Held(d, p)' => Held(d, p)
    BY <2>1, <2>2, CompletedHeld
  <2>4. ASSUME NEW d \in Clients, d # c PROVE Counted(d)'
    <3>1. op'[d] = op[d]
      BY <1>t, <2>1, <2>4
    <3> QED
      BY <1>0, <2>1, <2>3, <2>4, <3>1, SameCounted
  <2>5. Counted(c)'
    <3> SUFFICES ASSUME client[c] # "reset" PROVE Told(c, new)'
      BY <2>1, <2>3 DEF Counted
    <3>1. Len(sent[c]) = Len(inbox[c]) + Len(sendBuf[c]) + Len(echoed[c])
          /\ Len(sendBuf[c]) > 0
      BY <1>0, <2>3 DEF Counted, Under
    <3>2. Len(inbox[c]) \in Nat /\ echoed[c] \in Seq(Iocp!AnyByte)
          /\ sendBuf[c] \in Seq(Iocp!AnyByte)
      BY <1>t
    <3>3. Len(echoed'[c]) = Len(echoed[c]) + Len(sendBuf[c])
      <4>1. \A p, q \in Seq(Iocp!AnyByte) : Len(p \o q) = Len(p) + Len(q)
        OBVIOUS
      <4>2. echoed'[c] = echoed[c] \o sendBuf[c]
        BY <2>2
      <4>3. Len(echoed[c] \o sendBuf[c]) = Len(echoed[c]) + Len(sendBuf[c])
        BY <3>2, <4>1
      <4> QED
        BY <4>2, <4>3, Zenon
    <3>4. Len(sent'[c]) = Len(sent[c]) /\ Len(inbox'[c]) = Len(inbox[c])
      BY <2>1
    <3>a. Len(echoed[c]) \in Nat /\ Len(sendBuf[c]) \in Nat /\ Len(inbox[c]) \in Nat
      BY <3>2
    <3>5. Len(sent'[c]) = Len(inbox'[c]) + 0 + Len(echoed'[c])
      <4> DEFINE a == Len(sent[c])
                 b == Len(inbox[c])
                 e == Len(echoed[c])
                 n1 == Len(sendBuf[c])
                 e1 == Len(echoed'[c])
      <4>1. a = b + n1 + e /\ e1 = e + n1 /\ b \in Nat /\ e \in Nat /\ n1 \in Nat
        BY <3>1, <3>3, <3>a
      <4>2. Len(sent'[c]) = a /\ Len(inbox'[c]) = b
        BY <3>4
      <4> HIDE DEF a, b, e, n1, e1
      <4>3. a = b + 0 + e1
        BY <4>1
      <4> QED
        BY <4>2, <4>3, Zenon DEF e1
    <3>6. new.type = "send" /\ new.bytes = Len(sendBuf[c]) /\ new.ok
      BY <2>2
    <3> HIDE DEF new
    <3> QED
      BY <3>1, <3>2, <3>5, <3>6 DEF Told, Under
  <2> QED
    BY <2>4, <2>5 DEF AllCounted
<1>7. ASSUME NEW c \in Clients, Iocp!MainStep(c) PROVE AllCounted'
  <2>1. /\ conn[c] = "none" /\ UNCHANGED <<Iocp!netVars, sendBuf, port, worker>>
        /\ \/ conn' = [conn EXCEPT ![c] = "live"] /\ op' = [op EXCEPT ![c] = @ \cup {"recv"}]
           \/ \E how \in {"refused", "leaked"} : conn' = [conn EXCEPT ![c] = how] /\ op' = op
    BY <1>7 DEF Iocp!MainStep, Iocp!Accept, Iocp!AcceptRefused, Iocp!AcceptThrows,
                Iocp!InBacklog, Iocp!PostRecv
  <2>2. ASSUME NEW d \in Clients, d # c PROVE Counted(d)'
    <3>1. op'[d] = op[d] /\ conn'[d] = conn[d]
      BY <1>t, <2>1, <2>2
    <3> QED
      BY <1>0, <1>1, <2>1, <3>1, SameCounted
  <2>3. Counted(c)'
    <3>1. op[c] = {} /\ \A p : ~Held(c, p)
      BY <2>1 DEF AllOne, One, Some, Held
    <3>2. /\ "send" \notin op'[c] /\ conn'[c] # "deleted" /\ \A p : ~Held(c, p)'
      BY <1>1, <1>t, <2>1, <3>1
    <3>3. client[c] # "reset" => Under(c, 0)
      BY <1>0, <2>1 DEF Counted
    <3>4. client[c] # "reset" => Under(c, 0)'
      BY <2>1, <3>3 DEF Under
    <3>5. client' = client
      BY <2>1
    <3> HIDE DEF Under, Held
    <3> QED
      BY <3>2, <3>4, <3>5 DEF Counted
  <2> QED
    BY <2>2, <2>3 DEF AllCounted
<1>8. ASSUME NEW w \in Threads, Iocp!WorkerThread(w) PROVE AllCounted'
  <2>0. PICK m, c : m = worker[w] /\ c = m.conn
    OBVIOUS
  <2>1. CASE Iocp!Dequeue(w)
    <3>1. ASSUME NEW d \in Clients, NEW p, Held(d, p)' PROVE Held(d, p)
      <4>1. /\ port \in Seq(Iocp!Packet) /\ port # <<>>
               /\ worker' = [worker EXCEPT ![w] = Head(port)]
            /\ port' = Tail(port)
        BY <2>1 DEF Iocp!Dequeue, Iocp!TypeOK
      <4>2. /\ DOMAIN port = 1 .. Len(port) /\ DOMAIN port' = 1 .. Len(port) - 1
            /\ \A i \in DOMAIN port' : port'[i] = port[i + 1] /\ i + 1 \in DOMAIN port
            /\ Head(port) = port[1] /\ 1 \in DOMAIN port
        BY <4>1
      <4>3. CASE \E i : Queued(d, i)' /\ p = port'[i]
        BY <4>2, <4>3 DEF Queued, Held
      <4>4. CASE \E v : Carried(d, v)' /\ p = worker'[v]
        <5>1. PICK v \in Threads : worker'[v].conn = d /\ p = worker'[v]
                                   /\ worker'[v] # Iocp!NoPacket
          BY <4>4 DEF Carried
        <5>2. CASE v = w
          BY <4>1, <4>2, <5>1, <5>2 DEF Queued, Held, Iocp!TypeOK
        <5>3. CASE v # w
          BY <4>1, <5>1, <5>3 DEF Carried, Held, Iocp!TypeOK
        <5> QED
          BY <5>2, <5>3
      <4> QED
        BY <3>1, <4>3, <4>4 DEF Held
    <3>2. UNCHANGED <<Iocp!netVars, sendBuf, op, conn>>
      BY <2>1 DEF Iocp!Dequeue
    <3> QED
      BY <1>0, <3>1, <3>2, SameCounted DEF AllCounted
  <2>2. CASE Iocp!HandleThrows(w)
    BY <1>2, <2>2 DEF Iocp!HandleThrows
  <2>3. ASSUME Iocp!Handling(w), Iocp!Finish(w), UNCHANGED <<Iocp!netVars, port>>,
               \A d \in Clients : d # c => sendBuf'[d] = sendBuf[d] /\ op'[d] = op[d]
                                            /\ conn'[d] = conn[d],
               client[c] # "reset" =>
                  /\ "send" \in op'[c] => Under(c, Len(sendBuf'[c])) /\ Len(sendBuf'[c]) > 0
                  /\ "recv" \in op'[c] \/ conn'[c] # "live" => Under(c, 0)
                  /\ conn'[c] = "deleted" => Drained(c)
        PROVE  AllCounted'
    <3>1. /\ \A p : ~Held(c, p)'
          /\ \A d \in Clients : \A p : Held(d, p)' => Held(d, p)
      BY <2>0, <2>3, FinishHeld
    <3>2. ASSUME NEW d \in Clients, d # c PROVE Counted(d)'
      BY <1>0, <2>3, <3>1, <3>2, SameCounted
    <3>3. \A n : Under(c, n) => Under(c, n)'
      BY <2>3 DEF Under
    <3>4. Drained(c) => Drained(c)'
      BY <2>3 DEF Drained
    <3>5. ASSUME client'[c] # "reset"
          PROVE  /\ "send" \in op'[c] => Under(c, Len(sendBuf[c]))' /\ Len(sendBuf'[c]) > 0
                 /\ "recv" \in op'[c] \/ conn'[c] # "live" => Under(c, 0)'
                 /\ conn'[c] = "deleted" => Drained(c)'
      <4>1. client[c] # "reset"
        BY <2>3, <3>5
      <4>2. Under(c, Len(sendBuf'[c])) => Under(c, Len(sendBuf[c]))'
        BY <2>3 DEF Under
      <4> HIDE DEF Under, Drained
      <4> QED
        BY <2>3, <3>3, <3>4, <4>1, <4>2
    <3>6. ASSUME NEW d \in Clients, d = c PROVE Counted(d)'
      <4> HIDE DEF Under, Drained, Held, Told
      <4> QED
        BY <3>1, <3>5, <3>6 DEF Counted
    <3> QED
      BY <3>2, <3>6 DEF AllCounted
  <2>4. ASSUME Iocp!Handling(w), Iocp!Finish(w), port' = port
        PROVE  /\ c \in Clients /\ m \in Iocp!Packet /\ conn[c] = "live" /\ op[c] = {}
               /\ client[c] # "reset" => Told(c, m)
    BY <1>0, <2>0, <2>4, FinishHeld DEF Counted
  <2>5. CASE Iocp!HandleEnd(w)
    <3>1. /\ Iocp!Handling(w) /\ Iocp!Finish(w) /\ UNCHANGED <<Iocp!netVars, port, sendBuf, op>>
          /\ ~m.ok \/ m.bytes = 0
          /\ conn' = [conn EXCEPT ![c] = "deleted"]
      BY <2>0, <2>5 DEF Iocp!HandleEnd
    <3>2. client[c] # "reset" => Under(c, 0) /\ Drained(c)
      BY <2>4, <3>1 DEF Told
    <3>3. \A d \in Clients : d # c => conn'[d] = conn[d]
      BY <1>t, <3>1
    <3> HIDE DEF Under, Drained
    <3> QED
      BY <2>3, <2>4, <3>1, <3>2, <3>3
  <2>6. CASE Iocp!HandleRecv(w)
    <3>1. /\ Iocp!Handling(w) /\ Iocp!Finish(w) /\ UNCHANGED <<Iocp!netVars, port, conn>>
          /\ m.bytes > 0 /\ m.type = "recv"
          /\ sendBuf' = [sendBuf EXCEPT ![c] = SubSeq(recvBuf[c], 1, m.bytes)]
          /\ op' = [op EXCEPT ![c] = @ \cup {"send"}]
      BY <2>0, <2>6 DEF Iocp!HandleRecv, Iocp!PostSend
    <3>2. c \in Clients /\ m.bytes \in 1 .. BufferSize
      BY <1>u, <2>4, <3>1 DEF Iocp!Packet
    <3>3. op'[c] = {"send"} /\ sendBuf'[c] = SubSeq(recvBuf[c], 1, m.bytes)
      BY <1>t, <2>4, <3>1, <3>2
    <3>4. recvBuf[c] \in Seq(Iocp!AnyByte) /\ Len(recvBuf[c]) = BufferSize
      BY <1>u, <3>2
    <3>5. Len(sendBuf'[c]) = m.bytes
      BY <1>u, <3>2, <3>3, <3>4
    <3>6. client[c] # "reset" => Under(c, Len(sendBuf'[c])) /\ Len(sendBuf'[c]) > 0
      BY <2>4, <3>1, <3>5 DEF Told
    <3>7. \A d \in Clients : d # c => sendBuf'[d] = sendBuf[d] /\ op'[d] = op[d]
      BY <1>t, <3>1
    <3>8. "recv" \notin op'[c] /\ conn'[c] = "live" /\ conn' = conn
      BY <2>4, <3>1, <3>3
    <3> HIDE DEF Under, Drained
    <3> QED
      BY <2>3, <3>1, <3>6, <3>7, <3>8
  <2>7. CASE Iocp!HandleSend(w)
    <3>1. /\ Iocp!Handling(w) /\ Iocp!Finish(w) /\ UNCHANGED <<Iocp!netVars, port, conn, sendBuf>>
          /\ m.bytes > 0 /\ m.type = "send"
          /\ op' = [op EXCEPT ![c] = @ \cup {"recv"}]
      BY <2>0, <2>7 DEF Iocp!HandleSend, Iocp!PostRecv
    <3>2. op'[c] = {"recv"} /\ \A d \in Clients : d # c => op'[d] = op[d]
      BY <1>t, <2>4, <3>1
    <3>3. client[c] # "reset" => Under(c, 0)
      BY <2>4, <3>1 DEF Told
    <3>4. "send" \notin op'[c] /\ conn'[c] # "deleted" /\ conn' = conn
      BY <2>4, <3>1, <3>2
    <3> HIDE DEF Under, Drained
    <3> QED
      BY <2>3, <3>1, <3>2, <3>3, <3>4
  <2> QED
    BY <1>8, <2>1, <2>2, <2>5, <2>6, <2>7 DEF Iocp!WorkerThread
<1>9. CASE UNCHANGED Iocp!vars
  BY <1>2, <1>9 DEF Iocp!vars
<1> QED
  BY <1>3, <1>4, <1>5, <1>6, <1>7, <1>8, <1>9 DEF Iocp!Next, Iocp!KernelStep

(* Every step keeps the whole of it.                                        *)
LEMMA ServerInvStep ==
  ASSUME Iocp!BoundsAssumption, ServerInv, [Iocp!Next]_(Iocp!vars) PROVE ServerInv'
BY ServerTypeStep, ServerOneStep, ServerCountedStep DEF ServerInv
=============================================================================
