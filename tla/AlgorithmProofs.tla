-------------------------- MODULE AlgorithmProofs --------------------------
(***************************************************************************)
(* What the pure algorithms of Retrieval, Extraction, Planning and         *)
(* TurnLoops compute, for every input: the chunks of a document, the       *)
(* search and the context, where a text is cut into sentences and the two  *)
(* ways a sentence becomes a memory, the course plan, the credits of the   *)
(* estimate, the recommendation and the choice of classes, the turns of a  *)
(* conversation, the window of them and the batch of a refresh.            *)
(*                                                                         *)
(* The code's loops are folds.  A fold of the library is defined by a      *)
(* function chosen to satisfy a recursive equation; FoldTable shows that   *)
(* there is one, and FoldWalk reads it as a walk F from the first value to *)
(* the last, F[k] being what the loop has after k elements.  Each loop has *)
(* a lemma "...Steps" that gives its walk, and what holds of its result is *)
(* shown along the walk with UpTo.  Lists the code sorts are rankings.     *)
(***************************************************************************)
EXTENDS TurnLoops, Retrieval, Extraction, Planning, TurnsProofs, SequenceTheorems

-----------------------------------------------------------------------------
(* Numbers and folds *)

\* The largest of numbers up to k + 1, when k + 1 is one of them.
LEMMA MaxOfPart ==
    ASSUME NEW k \in Nat, NEW s \in SUBSET (1..(k + 1)), k + 1 \in s
    PROVE  Max(s) = k + 1 /\ s \ {Max(s)} \in SUBSET (1..k)
<1>1. \A y \in s : y \in Int /\ k + 1 >= y
  OBVIOUS
<1>2. \A x \in s : (\A y \in s : x >= y) => x = k + 1
  BY <1>1
<1>3. Max(s) = k + 1
  BY <1>1, <1>2 DEF Max
<1> QED BY <1>3

\* h is the table of a fold over the numbers up to n.
IsTable(h, n, base, step) ==
    \A s \in SUBSET (1..n) : h[s] = IF s = {} THEN base ELSE step[<<Max(s), h[s \ {Max(s)}]>>]

\* A fold over numbered elements has its table: the value for a set of numbers comes from
\* that without its largest one.
LEMMA FoldTable ==
    ASSUME NEW n \in Nat, NEW A, NEW base \in A, NEW step \in [(1..n) \X A -> A]
    PROVE  \E h \in [SUBSET (1..n) -> A] : IsTable(h, n, base, step)
<1> DEFINE Good(h, k) == /\ h \in [SUBSET (1..k) -> A]
                         /\ \A s \in SUBSET (1..k) :
                               h[s] = IF s = {} THEN base ELSE step[<<Max(s), h[s \ {Max(s)}]>>]
           bad == {k \in 0..n : ~\E h : Good(h, k)}
<1> SUFFICES ASSUME bad # {} PROVE FALSE
  <2>1. n \in 0..n
    OBVIOUS
  <2>2. bad = {} => \E h : Good(h, n)
    <3> HIDE DEF Good
    <3> QED BY <2>1
  <2> QED BY <2>2 DEF IsTable
<1>1. PICK k \in bad : \A m \in bad : k <= m
  <2>1. bad \subseteq Nat
    OBVIOUS
  <2> HIDE DEF bad
  <2> QED BY <2>1, LeastOne
<1>2. CASE k = 0
  <2> DEFINE h == [s \in SUBSET (1..0) |-> base]
  <2>1. SUBSET (1..0) = {{}}
    OBVIOUS
  <2>2. Good(h, 0)
    BY <2>1
  <2> QED BY <1>2, <2>2
<1>3. CASE k # 0
  <2>1. k \in 0..n /\ k - 1 \in 0..n /\ k - 1 \in Nat /\ k = (k - 1) + 1
    BY <1>3
  <2>2. k - 1 \notin bad
    <3> HIDE DEF bad
    <3> QED BY <1>1, <2>1
  <2>3. PICK g : Good(g, k - 1)
    BY <2>1, <2>2
  <2> DEFINE h == [s \in SUBSET (1..k) |-> IF k \in s THEN step[<<k, g[s \ {k}]>>] ELSE g[s]]
  <2>4. \A s \in SUBSET (1..k) : k \in s => Max(s) = k /\ s \ {k} \in SUBSET (1..(k - 1))
    <3> SUFFICES ASSUME NEW s \in SUBSET (1..k), k \in s
                 PROVE  Max(s) = k /\ s \ {k} \in SUBSET (1..(k - 1))
      OBVIOUS
    <3> DEFINE j == k - 1
    <3>1. j \in Nat /\ k = j + 1
      BY <2>1
    <3> HIDE DEF j
    <3>2. s \in SUBSET (1..(j + 1)) /\ j + 1 \in s
      BY <3>1
    <3>3. Max(s) = j + 1 /\ s \ {Max(s)} \in SUBSET (1..j)
      BY <3>1, <3>2, MaxOfPart
    <3> QED BY <3>1, <3>3 DEF j
  <2>5. \A s \in SUBSET (1..k) : k \notin s => s \in SUBSET (1..(k - 1))
    BY <2>1
  <2>6. \A s \in SUBSET (1..(k - 1)) : s \in SUBSET (1..k) /\ k \notin s
    BY <2>1
  <2>7. k \in 1..n
    BY <1>3, <2>1
  <2> HIDE DEF bad
  <2>8. h \in [SUBSET (1..k) -> A]
    BY <2>3, <2>4, <2>5, <2>7
  <2>9. \A s \in SUBSET (1..(k - 1)) : h[s] = g[s]
    BY <2>6
  <2>10. ASSUME NEW s \in SUBSET (1..k)
         PROVE  h[s] = IF s = {} THEN base ELSE step[<<Max(s), h[s \ {Max(s)}]>>]
    <3>1. CASE k \in s
      <4>1. Max(s) = k /\ s \ {k} \in SUBSET (1..(k - 1)) /\ s # {}
        BY <2>4, <3>1
      <4>2. h[s] = step[<<k, g[s \ {k}]>>]
        BY <3>1
      <4>3. h[s \ {k}] = g[s \ {k}]
        BY <2>9, <4>1
      <4> HIDE DEF h
      <4> QED BY <4>1, <4>2, <4>3
    <3>2. CASE k \notin s
      <4>1. s \in SUBSET (1..(k - 1))
        BY <2>5, <3>2
      <4>2. h[s] = g[s]
        BY <2>9, <4>1
      <4>3. g[s] = IF s = {} THEN base ELSE step[<<Max(s), g[s \ {Max(s)}]>>]
        BY <2>3, <4>1
      <4>4. s \ {Max(s)} \in SUBSET (1..(k - 1))
        BY <4>1
      <4>5. h[s \ {Max(s)}] = g[s \ {Max(s)}]
        BY <2>9, <4>4
      <4> HIDE DEF h
      <4> QED BY <4>2, <4>3, <4>5
    <3> QED BY <3>1, <3>2
  <2>11. Good(h, k)
    BY <2>8, <2>10
  <2>12. \E f : Good(f, k)
    <3> HIDE DEF h, Good
    <3> QED BY <2>11
  <2> QED BY <1>1, <2>12 DEF bad
<1> QED BY <1>2, <1>3

\* Induction, for a set of numbers.
LEMMA UpTo ==
    ASSUME NEW n \in Nat, NEW P, 0 \in P, \A k \in 1..n : k - 1 \in P => k \in P
    PROVE  \A k \in 0..n : k \in P
<1> DEFINE bad == {k \in 0..n : k \notin P}
<1> SUFFICES ASSUME bad # {} PROVE FALSE
  OBVIOUS
<1>1. bad \subseteq Nat
  OBVIOUS
<1>2. PICK k \in bad : \A m \in bad : k <= m
  <2> HIDE DEF bad
  <2> QED BY <1>1, LeastOne
<1>3. k \in 1..n /\ k - 1 \in 0..n /\ ~(k <= k - 1)
  OBVIOUS
<1>4. k - 1 \notin bad
  <2> HIDE DEF bad
  <2> QED BY <1>2, <1>3
<1> QED BY <1>3, <1>4

\* The first numbers, without the last of them.
LEMMA FirstOnes ==
    ASSUME NEW n \in Nat, NEW k \in 1..n
    PROVE  /\ 1..k \in SUBSET (1..n) /\ 1..k # {}
           /\ Max(1..k) = k /\ (1..k) \ {k} = 1..(k - 1)
<1>1. \A y \in 1..k : k >= y
  OBVIOUS
<1>2. \A x \in 1..k : (\A y \in 1..k : x >= y) => x = k
  OBVIOUS
<1>3. Max(1..k) = k
  BY <1>1, <1>2 DEF Max
<1> QED BY <1>3

\* A set of numbers has its largest one.
LEMMA MaxIsIn ==
    ASSUME NEW n \in Nat, NEW s \in SUBSET (1..n), s # {}
    PROVE  Max(s) \in 1..n /\ Max(s) \in s
<1>1. \E m \in s : \A x \in s : m >= x
  <2> DEFINE S == {k \in 0..n : \A x \in s : k >= x}
  <2>1. S \subseteq Nat /\ n \in S
    OBVIOUS
  <2>2. PICK k \in S : \A m \in S : k <= m
    <3> HIDE DEF S
    <3> QED BY <2>1, LeastOne
  <2>3. k \in s
    <3> SUFFICES ASSUME k \notin s PROVE FALSE
      OBVIOUS
    <3>1. \A x \in s : x \in Nat /\ x >= 1 /\ k >= x /\ k # x
      OBVIOUS
    <3>2. \A x \in s : k - 1 >= x
      BY <3>1
    <3>3. k # 0
      <4>1. PICK x \in s : TRUE
        OBVIOUS
      <4>2. x \in Nat /\ x >= 1 /\ k >= x /\ k \in Nat
        BY <3>1
      <4> QED BY <4>2
    <3>4. k - 1 \in S
      BY <3>2, <3>3
    <3> QED BY <2>2, <3>4
  <2> QED BY <2>3
<1> QED BY <1>1 DEF Max

\* The walk of a fold: its value after each element.
IsWalk(F, n, base, step) ==
    F[0] = base /\ \A k \in 1..n : F[k] = step[<<k, F[k - 1]>>]

\* h follows the steps of a fold wherever it has come so far with values of A.
Follows(h, n, A, base, step) ==
    /\ n \in Nat /\ base \in A /\ step \in [(1..n) \X A -> A]
    /\ h[{}] = base
    /\ \A s \in SUBSET (1..n) :
          s # {} /\ h[s \ {Max(s)}] \in A => h[s] = step[<<Max(s), h[s \ {Max(s)}]>>]

\* The walk reads the table at the first numbers.
LEMMA FoldWalk ==
    ASSUME NEW h, NEW n, NEW A, NEW base, NEW step, Follows(h, n, A, base, step)
    PROVE  \E F \in [0..n -> A] : IsWalk(F, n, base, step) /\ F[n] = h[1..n]
<1> USE DEF Follows
<1> DEFINE F == [k \in 0..n |-> h[1..k]]
           P == {k \in 0..n : F[k] \in A}
<1>1. \A k \in 1..n : k - 1 \in 0..n /\ k \in 0..n
  OBVIOUS
<1>2. F[0] = base
  <2>1. 1..0 = {}
    OBVIOUS
  <2> QED BY <2>1
<1>3. ASSUME NEW k \in 1..n, F[k - 1] \in A
      PROVE  F[k] = step[<<k, F[k - 1]>>] /\ F[k] \in A
  <2>1. /\ 1..k \in SUBSET (1..n) /\ 1..k # {}
        /\ Max(1..k) = k /\ (1..k) \ {k} = 1..(k - 1)
    BY FirstOnes
  <2>2. F[k - 1] = h[1..(k - 1)] /\ F[k] = h[1..k]
    BY <1>1
  <2> HIDE DEF F
  <2>3. h[1..k] = step[<<k, h[1..(k - 1)]>>]
    BY <1>3, <2>1, <2>2
  <2> QED BY <1>3, <2>2, <2>3
<1>4. \A k \in 0..n : k \in P
  <2>1. 0 \in P
    BY <1>2
  <2>2. \A k \in 1..n : k - 1 \in P => k \in P
    BY <1>1, <1>3
  <2> HIDE DEF P
  <2> QED BY <2>1, <2>2, UpTo
<1>5. IsWalk(F, n, base, step)
  BY <1>1, <1>2, <1>3, <1>4 DEF IsWalk
<1>6. F \in [0..n -> A] /\ F[n] = h[1..n]
  BY <1>4
<1> HIDE DEF F
<1> QED BY <1>5, <1>6

\* The smaller and the larger of two numbers.
LEMMA SmallerOfTwo ==
    ASSUME NEW a \in Int, NEW b \in Int
    PROVE  Min({a, b}) = IF a <= b THEN a ELSE b
<1>1. \E x \in {a, b} : \A y \in {a, b} : x <= y
  OBVIOUS
<1>2. Min({a, b}) \in {a, b} /\ \A y \in {a, b} : Min({a, b}) <= y
  BY <1>1 DEF Min
<1> QED BY <1>2

LEMMA LargerOfTwo ==
    ASSUME NEW a \in Int, NEW b \in Int
    PROVE  Max({a, b}) = IF a >= b THEN a ELSE b
<1>1. \E x \in {a, b} : \A y \in {a, b} : x >= y
  OBVIOUS
<1>2. Max({a, b}) \in {a, b} /\ \A y \in {a, b} : Max({a, b}) >= y
  BY <1>1 DEF Max
<1> QED BY <1>2

\* A fold has a walk.
LEMMA WalkExists ==
    ASSUME NEW n \in Nat, NEW A, NEW base \in A, NEW step \in [(1..n) \X A -> A]
    PROVE  \E F \in [0..n -> A] : IsWalk(F, n, base, step)
<1>1. PICK h \in [SUBSET (1..n) -> A] : IsTable(h, n, base, step)
  BY FoldTable
<1>2. Follows(h, n, A, base, step)
  BY <1>1 DEF Follows, IsTable
<1> QED BY <1>2, FoldWalk

\* The concatenation of sequences, one after the other.
LEMMA FlattenSteps ==
    ASSUME NEW A, NEW seqs \in Seq(Seq(A))
    PROVE  \E F \in [0..Len(seqs) -> Seq(A)] :
              /\ F[0] = <<>>
              /\ \A k \in 1..Len(seqs) : F[k] = F[k - 1] \o seqs[k]
              /\ FlattenSeq(seqs) = F[Len(seqs)]
<1> DEFINE n == Len(seqs)
           S == Seq(A)
           step == [q \in (1..n) \X S |-> q[2] \o seqs[q[1]]]
           Eqn(f) == f = [i \in 1..n |-> IF i = 1 THEN seqs[i] ELSE f[i - 1] \o seqs[i]]
           flat == CHOOSE f : Eqn(f)
<1>1. n \in Nat /\ \A k \in 1..n : seqs[k] \in S
  BY LenProperties, ElementOfSeq
<1>2. <<>> \in S /\ step \in [(1..n) \X S -> S]
  <2>1. <<>> \in S
    OBVIOUS
  <2>2. \A s, t \in S : s \o t \in S
    BY ConcatProperties
  <2> HIDE DEF S
  <2> QED BY <1>1, <2>1, <2>2
<1>3. PICK F \in [0..n -> S] : IsWalk(F, n, <<>>, step)
  <2> HIDE DEF n, step, S
  <2> QED BY <1>1, <1>2, WalkExists
<1>4. F[0] = <<>> /\ \A k \in 1..n : F[k - 1] \in S /\ F[k] = F[k - 1] \o seqs[k]
  <2>1. F[0] = <<>> /\ \A k \in 1..n : F[k - 1] \in S /\ F[k] = step[<<k, F[k - 1]>>]
    <3>1. \A k \in 1..n : k - 1 \in 0..n
      BY <1>1
    <3> HIDE DEF S, step, n
    <3> QED BY <1>3, <3>1 DEF IsWalk
  <2>2. \A k \in 1..n : step[<<k, F[k - 1]>>] = F[k - 1] \o seqs[k]
    <3> HIDE DEF S, n
    <3> QED BY <2>1
  <2> HIDE DEF S, step, n
  <2> QED BY <2>1, <2>2
<1>4a. 1 \in 1..n => F[1] = seqs[1]
  <2> SUFFICES ASSUME 1 \in 1..n PROVE F[1] = seqs[1]
    OBVIOUS
  <2>1. F[1] = F[1 - 1] \o seqs[1] /\ seqs[1] \in S
    BY <1>1, <1>4
  <2>2. 1 - 1 = 0
    OBVIOUS
  <2>3. <<>> \o seqs[1] = seqs[1]
    BY <2>1, ConcatEmptySeq
  <2> HIDE DEF S, n
  <2> QED BY <1>4, <2>1, <2>2, <2>3
<1>5. \E f : Eqn(f)
  <2> DEFINE f == [i \in 1..n |-> F[i]]
  <2>1. ASSUME NEW i \in 1..n
        PROVE  f[i] = IF i = 1 THEN seqs[i] ELSE f[i - 1] \o seqs[i]
    <3>1. CASE i = 1
      BY <1>4a, <3>1
    <3>2. CASE i # 1
      <4>1. i - 1 \in 1..n
        BY <1>1, <3>2
      <4> HIDE DEF n, S
      <4> QED BY <1>4, <3>2, <4>1
    <3> QED BY <3>1, <3>2
  <2>2. Eqn(f)
    <3>1. f = [i \in 1..n |-> f[i]]
      OBVIOUS
    <3> HIDE DEF f
    <3> QED BY <2>1, <3>1
  <2> HIDE DEF f, Eqn
  <2> QED BY <2>2
<1>6. Eqn(flat)
  <2> HIDE DEF Eqn
  <2> QED BY <1>5
<1>7. FlattenSeq(seqs) = IF n = 0 THEN seqs ELSE flat[n]
  BY DEF FlattenSeq
<1> HIDE DEF flat
<1>8. \A i \in 1..n : flat[i] = IF i = 1 THEN seqs[i] ELSE flat[i - 1] \o seqs[i]
  BY <1>6
<1> DEFINE P == {k \in 0..n : k = 0 \/ flat[k] = F[k]}
<1>9. \A k \in 0..n : k \in P
  <2>1. 0 \in P
    BY <1>1
  <2>2. ASSUME NEW k \in 1..n, k - 1 \in P PROVE k \in P
    <3>1. CASE k = 1
      BY <1>1, <1>8, <1>4a, <2>2, <3>1
    <3>2. CASE k # 1
      <4>1. flat[k - 1] = F[k - 1]
        BY <2>2, <3>2
      <4>2. flat[k] = F[k]
        BY <1>4, <1>8, <3>2, <4>1
      <4> QED BY <1>1, <4>2
    <3> QED BY <3>1, <3>2
  <2> HIDE DEF P
  <2> QED BY <1>1, <2>1, <2>2, UpTo
<1>10. FlattenSeq(seqs) = F[n]
  <2>1. CASE n = 0
    <3>1. seqs = <<>>
      BY <2>1, EmptySeq
    <3> QED BY <1>4, <1>7, <2>1, <3>1
  <2>2. CASE n # 0
    <3>1. n \in P
      <4> HIDE DEF P
      <4> QED BY <1>1, <1>9
    <3> QED BY <1>7, <2>2, <3>1
  <2> QED BY <2>1, <2>2
<1> QED BY <1>3, <1>4, <1>10

\* One more sequence is concatenated at the end.
LEMMA FlattenAppend ==
    ASSUME NEW A, NEW seqs \in Seq(Seq(A)), NEW s \in Seq(A)
    PROVE  /\ FlattenSeq(seqs) \in Seq(A)
           /\ FlattenSeq(Append(seqs, s)) = FlattenSeq(seqs) \o s
<1> DEFINE n == Len(seqs)
           longer == Append(seqs, s)
           S == Seq(A)
<1>1. n \in Nat
  BY LenProperties
<1>2. PICK F \in [0..n -> S] :
         /\ F[0] = <<>> /\ \A k \in 1..n : F[k] = F[k - 1] \o seqs[k]
         /\ FlattenSeq(seqs) = F[n]
  BY FlattenSteps
<1>3. longer \in Seq(S) /\ Len(longer) = n + 1 /\ longer[n + 1] = s
      /\ \A k \in 1..n : longer[k] = seqs[k]
  <2>1. seqs \in Seq(S) /\ s \in S
    OBVIOUS
  <2> HIDE DEF S
  <2> QED BY <2>1, AppendProperties
<1> HIDE DEF longer
<1>4. PICK G \in [0..(n + 1) -> S] :
         /\ G[0] = <<>> /\ \A k \in 1..(n + 1) : G[k] = G[k - 1] \o longer[k]
         /\ FlattenSeq(longer) = G[n + 1]
  <2>1. longer \in Seq(Seq(A))
    BY <1>3
  <2>2. \E G \in [0..Len(longer) -> Seq(A)] :
         /\ G[0] = <<>> /\ \A k \in 1..Len(longer) : G[k] = G[k - 1] \o longer[k]
         /\ FlattenSeq(longer) = G[Len(longer)]
    BY <2>1, FlattenSteps
  <2>3. Len(longer) = n + 1
    BY <1>3
  <2> HIDE DEF n
  <2> QED BY <2>2, <2>3
<1> HIDE DEF n, S
<1>5. \A k \in 0..n : k \in {j \in 0..n : F[j] = G[j]}
  <2> DEFINE P == {j \in 0..n : F[j] = G[j]}
  <2>1. 0 \in P
    BY <1>1, <1>2, <1>4
  <2>2. \A k \in 1..n : k - 1 \in P => k \in P
    <3> SUFFICES ASSUME NEW k \in 1..n, k - 1 \in P PROVE k \in P
      OBVIOUS
    <3>1. k \in 1..(n + 1) /\ k \in 0..n /\ F[k - 1] = G[k - 1]
      BY <1>1
    <3> QED BY <1>2, <1>3, <1>4, <3>1
  <2> HIDE DEF P
  <2> QED BY <1>1, <2>1, <2>2, UpTo DEF P
<1>6. n + 1 \in 1..(n + 1) /\ n \in 0..n /\ (n + 1) - 1 = n
  BY <1>1
<1>7. FlattenSeq(longer) = FlattenSeq(seqs) \o s /\ FlattenSeq(seqs) \in S
  BY <1>2, <1>3, <1>4, <1>5, <1>6
<1> QED BY <1>7 DEF longer, S

-----------------------------------------------------------------------------
(* Rankings *)

\* One of two elements comes before the other, and before what the other comes before.
StrictOrder(S, order) ==
    /\ \A x \in S : <<x, x>> \notin order
    /\ \A x, y \in S : x = y \/ <<x, y>> \in order \/ <<y, x>> \in order
    /\ \A x, y, z \in S : <<x, y>> \in order /\ <<y, z>> \in order => <<x, z>> \in order

\* An element has more of them before it than one that comes before it.
LEMMA MoreBefore ==
    ASSUME NEW S, NEW order, IsFiniteSet(S), StrictOrder(S, order),
           NEW x \in S, NEW y \in S, <<x, y>> \in order
    PROVE  Cardinality(Before(x, S, order)) < Cardinality(Before(y, S, order))
<1>1. Before(x, S, order) \subseteq Before(y, S, order)
  BY DEF Before, StrictOrder
<1>2. x \in Before(y, S, order) /\ x \notin Before(x, S, order)
  BY DEF Before, StrictOrder
<1>3. Before(y, S, order) \subseteq S
  BY DEF Before
<1>4. IsFiniteSet(Before(y, S, order))
  BY <1>3, FS_Subset
<1>5. /\ IsFiniteSet(Before(x, S, order))
      /\ Cardinality(Before(x, S, order)) <= Cardinality(Before(y, S, order))
      /\ Cardinality(Before(x, S, order)) # Cardinality(Before(y, S, order))
  <2>1. Before(x, S, order) # Before(y, S, order)
    BY <1>2
  <2> QED BY <1>1, <1>4, <2>1, FS_Subset
<1>6. Cardinality(Before(x, S, order)) \in Nat /\ Cardinality(Before(y, S, order)) \in Nat
  BY <1>4, <1>5, FS_CardinalityType
<1> QED BY <1>5, <1>6

\* A ranking lists every element once, at the place given by those before it.
LEMMA RankedAll ==
    ASSUME NEW S, NEW order, IsFiniteSet(S), StrictOrder(S, order)
    PROVE  /\ Cardinality(S) \in Nat
           /\ Ranked(S, order) \in [1..Cardinality(S) -> S]
           /\ \A k \in 1..Cardinality(S) :
                 Cardinality(Before(Ranked(S, order)[k], S, order)) = k - 1
           /\ \A x \in S : \E k \in 1..Cardinality(S) : Ranked(S, order)[k] = x
<1> DEFINE n == Cardinality(S)
           places == 0..(n - 1)
           rank == [x \in S |-> Cardinality(Before(x, S, order))]
<1>1. n \in Nat
  BY FS_CardinalityType
<1>2. ASSUME NEW x \in S
      PROVE  rank[x] \in places
  <2>1. Before(x, S, order) \subseteq S \ {x}
    BY DEF Before, StrictOrder
  <2>2. IsFiniteSet(S \ {x}) /\ Cardinality(S \ {x}) = n - 1
    BY FS_RemoveElement
  <2>3. IsFiniteSet(Before(x, S, order)) /\ Cardinality(Before(x, S, order)) <= n - 1
    BY <2>1, <2>2, FS_Subset
  <2>4. Cardinality(Before(x, S, order)) \in Nat
    BY <2>3, FS_CardinalityType
  <2> QED BY <1>1, <2>3, <2>4
<1>3. \A x, y \in S : <<x, y>> \in order => rank[x] < rank[y]
  BY MoreBefore
<1>4. \A x, y \in S : rank[x] = rank[y] => x = y
  <2> SUFFICES ASSUME NEW x \in S, NEW y \in S, rank[x] = rank[y], x # y PROVE FALSE
    OBVIOUS
  <2>1. rank[x] < rank[y] \/ rank[y] < rank[x]
    BY <1>3 DEF StrictOrder
  <2>2. rank[x] \in Int /\ rank[y] \in Int
    BY <1>1, <1>2
  <2> HIDE DEF rank
  <2> QED BY <2>1, <2>2
<1>5. rank \in Injection(S, places)
  BY <1>2, <1>4 DEF Injection, IsInjective
<1>6. IsFiniteSet(places) /\ Cardinality(places) = n
  <2>1. n - 1 \in Int /\ (0 > n - 1 => n = 0) /\ (n - 1) - 0 + 1 = n
    BY <1>1
  <2> QED BY <2>1, FS_Interval
<1>7. rank \in Surjection(S, places)
  <2> HIDE DEF rank, places
  <2> QED BY <1>5, <1>6, FS_Injection
<1>8. \A k \in 1..n : \E x \in S : Cardinality(Before(x, S, order)) = k - 1
  <2> SUFFICES ASSUME NEW k \in 1..n PROVE \E x \in S : Cardinality(Before(x, S, order)) = k - 1
    OBVIOUS
  <2>1. k - 1 \in places
    BY <1>1
  <2>2. \E x \in S : rank[x] = k - 1
    <3> HIDE DEF rank, places
    <3> QED BY <1>7, <2>1 DEF Surjection
  <2> QED BY <2>2
<1>9. \A k \in 1..n : Ranked(S, order)[k] \in S
                      /\ Cardinality(Before(Ranked(S, order)[k], S, order)) = k - 1
  BY <1>8 DEF Ranked
<1>10. ASSUME NEW x \in S PROVE \E k \in 1..n : Ranked(S, order)[k] = x
  <2> DEFINE k == rank[x] + 1
  <2>1. k \in 1..n /\ k - 1 = rank[x]
    <3> HIDE DEF rank
    <3> QED BY <1>1, <1>2
  <2>2. Ranked(S, order)[k] \in S /\ rank[Ranked(S, order)[k]] = rank[x]
    <3> HIDE DEF k
    <3>1. Ranked(S, order)[k] \in S /\ Cardinality(Before(Ranked(S, order)[k], S, order))
            = k - 1
      BY <1>9, <2>1
    <3>2. rank[Ranked(S, order)[k]] = k - 1
      BY <3>1
    <3> QED BY <2>1, <3>1, <3>2
  <2>3. Ranked(S, order)[k] = x
    <3> HIDE DEF rank, k
    <3> QED BY <1>4, <2>2
  <2> QED BY <2>1, <2>3
<1>11. Ranked(S, order) \in [1..n -> S]
  BY <1>9 DEF Ranked
<1> HIDE DEF n
<1> QED BY <1>1, <1>9, <1>10, <1>11 DEF n

-----------------------------------------------------------------------------
(* Retrieval: the search and the context *)

\* The sum of lengths, one after the other.
LEMMA TotalSteps ==
    ASSUME NEW lengths \in Seq(Int)
    PROVE  \E F \in [0..Len(lengths) -> Int] :
              /\ F[0] = 0
              /\ \A k \in 1..Len(lengths) : F[k] = F[k - 1] + lengths[k]
              /\ Total(lengths) = F[Len(lengths)]
<1> DEFINE n == Len(lengths)
           base == 0
           step == [q \in (1..n) \X Int |-> q[2] + lengths[q[1]]]
           Eqn(h) == h = [s \in SUBSET (1..n) |->
                            IF s = {} THEN base
                            ELSE h[s \ {Max(s)}] + lengths[Max(s)]]
           iter == CHOOSE h : Eqn(h)
<1>1. n \in Nat /\ DOMAIN lengths = 1..n /\ \A k \in 1..n : lengths[k] \in Int
  BY LenProperties, ElementOfSeq
<1>2. base \in Int /\ step \in [(1..n) \X Int -> Int]
  BY <1>1
<1>3. Total(lengths) = iter[1..n]
  BY <1>1 DEF Total, FoldLeft, MapThenFoldSet
<1>4. \E h : Eqn(h)
  <2>1. PICK h \in [SUBSET (1..n) -> Int] : IsTable(h, n, base, step)
    <3>1. n \in Nat
      BY <1>1
    <3> HIDE DEF step, n, base
    <3> QED BY <3>1, <1>2, FoldTable
  <2>2. ASSUME NEW s \in SUBSET (1..n), s # {}
        PROVE  step[<<Max(s), h[s \ {Max(s)}]>>] = h[s \ {Max(s)}] + lengths[Max(s)]
    <3>1. Max(s) \in 1..n
      BY <1>1, <2>2, MaxIsIn
    <3>2. h[s \ {Max(s)}] \in Int
      BY <2>1
    <3> QED BY <3>1, <3>2
  <2>3. Eqn(h)
    <3> HIDE DEF step, n, base
    <3> QED BY <2>1, <2>2 DEF IsTable
  <2> QED BY <2>3
<1>5. Eqn(iter)
  <2> HIDE DEF Eqn
  <2> QED BY <1>4
<1>6. Follows(iter, n, Int, base, step)
  <2> HIDE DEF iter, base
  <2>1. \A s \in SUBSET (1..n) :
           iter[s] = IF s = {} THEN base
                     ELSE iter[s \ {Max(s)}] + lengths[Max(s)]
    BY <1>5
  <2>2. \A s \in SUBSET (1..n) : s # {} => Max(s) \in 1..n
    BY <1>1, MaxIsIn
  <2> QED BY <1>1, <1>2, <2>1, <2>2 DEF Follows
<1> HIDE DEF iter, step, n, base, Eqn
<1>7. PICK F \in [0..n -> Int] : IsWalk(F, n, base, step) /\ F[n] = iter[1..n]
  BY <1>6, FoldWalk
<1>8. \A k \in 1..n : F[k - 1] \in Int /\ step[<<k, F[k - 1]>>] = F[k - 1] + lengths[k]
  BY <1>1, <1>7 DEF step
<1> QED BY <1>3, <1>7, <1>8 DEF n, base, IsWalk

\* One more length adds to the sum.
LEMMA TotalAppend ==
    ASSUME NEW lengths \in Seq(Int), NEW x \in Int
    PROVE  /\ Total(lengths) \in Int /\ Total(<<>>) = 0
           /\ Total(Append(lengths, x)) = Total(lengths) + x
<1> DEFINE n == Len(lengths)
           longer == Append(lengths, x)
<1>1. n \in Nat
  BY LenProperties
<1>2. PICK F \in [0..n -> Int] :
         /\ F[0] = 0 /\ \A k \in 1..n : F[k] = F[k - 1] + lengths[k]
         /\ Total(lengths) = F[n]
  BY TotalSteps
<1>3. longer \in Seq(Int) /\ Len(longer) = n + 1 /\ longer[n + 1] = x
      /\ \A k \in 1..n : longer[k] = lengths[k]
  BY AppendProperties
<1> HIDE DEF longer
<1>4. PICK G \in [0..(n + 1) -> Int] :
         /\ G[0] = 0 /\ \A k \in 1..(n + 1) : G[k] = G[k - 1] + longer[k]
         /\ Total(longer) = G[n + 1]
  BY <1>3, TotalSteps
<1> HIDE DEF n
<1>5. \A k \in 0..n : k \in {j \in 0..n : F[j] = G[j]}
  <2> DEFINE P == {j \in 0..n : F[j] = G[j]}
  <2>1. 0 \in P
    BY <1>1, <1>2, <1>4
  <2>2. \A k \in 1..n : k - 1 \in P => k \in P
    <3> SUFFICES ASSUME NEW k \in 1..n, k - 1 \in P PROVE k \in P
      OBVIOUS
    <3>1. k \in 1..(n + 1) /\ k \in 0..n /\ F[k - 1] = G[k - 1]
      BY <1>1
    <3> QED BY <1>2, <1>3, <1>4, <3>1
  <2> HIDE DEF P
  <2> QED BY <1>1, <2>1, <2>2, UpTo DEF P
<1>6. n + 1 \in 1..(n + 1) /\ n \in 0..n /\ (n + 1) - 1 = n
  BY <1>1
<1>7. Total(longer) = Total(lengths) + x /\ Total(lengths) \in Int
  BY <1>2, <1>3, <1>4, <1>5, <1>6
<1>8. Total(<<>>) = 0
  <2>1. <<>> \in Seq(Int) /\ Len(<<>>) = 0
    OBVIOUS
  <2>2. PICK E \in [0..0 -> Int] : E[0] = 0 /\ Total(<<>>) = E[0]
    BY <2>1, TotalSteps
  <2> QED BY <2>2
<1> QED BY <1>7, <1>8 DEF longer

\* What the model is shown after some of the chunks.
ContextSoFar == [shown : Seq(Nat), used : Nat, full : BOOLEAN]
NoContext == [shown |-> <<>>, used |-> 0, full |-> FALSE]

\* A label has a length.
LEMMA LabelIsNumber ==
    ASSUME NEW n \in Nat, NEW c \in Chunk
    PROVE  Prefix(n, c) \in Nat
<1> DEFINE powers == {d \in 0..n : 10^d <= n}
<1>1. IsFiniteSet(0..n) /\ powers \subseteq 0..n
  BY FS_Interval
<1>2. Cardinality(powers) \in Nat
  <2> HIDE DEF powers
  <2> QED BY <1>1, FS_Subset, FS_CardinalityType
<1>3. Digits(n) \in Nat
  BY <1>2 DEF Digits
<1> QED BY <1>3, RetrievalAssumption DEF Prefix, Chunk

\* What ShowChunk does: nothing more, or as much of the chunk as there is room for.
LEMMA ShownOne ==
    ASSUME NEW acc \in ContextSoFar, NEW c \in Chunk
    PROVE  LET prefix == Prefix(Len(acc.shown) + 1, c)
               separator == IF acc.shown = <<>> THEN 0 ELSE Separator
               room == ContextBudget - acc.used - separator IN
           /\ ShowChunk(acc, c) \in ContextSoFar
           /\ \/ /\ acc.full \/ room <= prefix
                 /\ ShowChunk(acc, c) = [acc EXCEPT !.full = TRUE]
              \/ /\ ~acc.full /\ room > prefix
                 /\ \E size \in Nat :
                       /\ size <= c.size /\ size <= room - prefix
                       /\ size < c.size => size = room - prefix
                       /\ ShowChunk(acc, c)
                            = [shown |-> Append(acc.shown, size), full |-> FALSE,
                               used |-> acc.used + separator + prefix + size]
<1> DEFINE prefix == Prefix(Len(acc.shown) + 1, c)
           separator == IF acc.shown = <<>> THEN 0 ELSE Separator
           room == ContextBudget - acc.used - separator
           size == Min({c.size, room - prefix})
<1>1. separator \in Nat /\ room \in Int /\ prefix \in Nat /\ c.size \in Nat
  <2>1. Len(acc.shown) + 1 \in Nat
    BY LenProperties DEF ContextSoFar
  <2>2. prefix \in Nat
    BY <2>1, LabelIsNumber
  <2> QED BY <2>2, RetrievalAssumption DEF ContextSoFar, Chunk, Separator
<1>2. size = IF c.size <= room - prefix THEN c.size ELSE room - prefix
  <2> HIDE DEF room, prefix
  <2>1. c.size \in Int /\ room - prefix \in Int
    BY <1>1
  <2> QED BY <2>1, SmallerOfTwo
<1>3. ShowChunk(acc, c)
        = IF acc.full \/ room <= prefix THEN [acc EXCEPT !.full = TRUE]
          ELSE [shown |-> Append(acc.shown, size), full |-> FALSE,
                used |-> acc.used + separator + prefix + size]
  BY DEF ShowChunk
<1> HIDE DEF size, room, separator, prefix
<1>4. CASE acc.full \/ room <= prefix
  <2>1. ShowChunk(acc, c) = [acc EXCEPT !.full = TRUE]
    BY <1>3, <1>4
  <2>2. [acc EXCEPT !.full = TRUE] \in ContextSoFar
    BY DEF ContextSoFar
  <2> QED BY <1>4, <2>1, <2>2 DEF room, separator, prefix
<1>5. CASE ~acc.full /\ room > prefix
  <2>1. size \in Nat /\ size <= c.size /\ size <= room - prefix
        /\ (size < c.size => size = room - prefix)
    BY <1>1, <1>2, <1>5
  <2>2. ~(acc.full \/ room <= prefix)
    BY <1>1, <1>5
  <2>3. ShowChunk(acc, c) = [shown |-> Append(acc.shown, size), full |-> FALSE,
                             used |-> acc.used + separator + prefix + size]
    BY <1>3, <2>2
  <2>4. Append(acc.shown, size) \in Seq(Nat)
    BY <2>1, AppendProperties DEF ContextSoFar
  <2>5. acc.used + separator + prefix + size \in Nat
    BY <1>1, <2>1 DEF ContextSoFar
  <2>6. ShowChunk(acc, c) \in ContextSoFar
    BY <2>3, <2>4, <2>5 DEF ContextSoFar
  <2> QED BY <1>5, <2>1, <2>3, <2>6 DEF room, separator, prefix
<1>6. acc.full \in BOOLEAN
  BY DEF ContextSoFar
<1> QED BY <1>1, <1>4, <1>5, <1>6 DEF room, separator, prefix

\* The context build_context makes of the chunks.
Shown(chunks) == FoldLeft(ShowChunk, NoContext, chunks)

\* The context after each of the chunks.
LEMMA ShownSteps ==
    ASSUME NEW chunks \in Seq(Chunk)
    PROVE  \E F \in [0..Len(chunks) -> ContextSoFar] :
              /\ F[0] = NoContext
              /\ \A k \in 1..Len(chunks) : F[k] = ShowChunk(F[k - 1], chunks[k])
              /\ Shown(chunks) = F[Len(chunks)]
<1> DEFINE n == Len(chunks)
           base == NoContext
           step == [q \in (1..n) \X ContextSoFar |-> ShowChunk(q[2], chunks[q[1]])]
           Eqn(h) == h = [s \in SUBSET (1..n) |->
                            IF s = {} THEN base
                            ELSE ShowChunk(h[s \ {Max(s)}], chunks[Max(s)])]
           iter == CHOOSE h : Eqn(h)
<1>1. n \in Nat /\ DOMAIN chunks = 1..n /\ \A k \in 1..n : chunks[k] \in Chunk
  BY LenProperties, ElementOfSeq
<1>2. base \in ContextSoFar /\ step \in [(1..n) \X ContextSoFar -> ContextSoFar]
  <2>1. base \in ContextSoFar
    BY DEF NoContext, ContextSoFar
  <2>2. \A a \in ContextSoFar, c \in Chunk : ShowChunk(a, c) \in ContextSoFar
    BY ShownOne
  <2> QED BY <1>1, <2>1, <2>2
<1>3. Shown(chunks) = iter[1..n]
  BY <1>1 DEF Shown, FoldLeft, MapThenFoldSet
<1>4. \E h : Eqn(h)
  <2>1. PICK h \in [SUBSET (1..n) -> ContextSoFar] : IsTable(h, n, base, step)
    <3>1. n \in Nat
      BY <1>1
    <3> HIDE DEF step, n, base
    <3> QED BY <3>1, <1>2, FoldTable
  <2>2. ASSUME NEW s \in SUBSET (1..n), s # {}
        PROVE  step[<<Max(s), h[s \ {Max(s)}]>>] = ShowChunk(h[s \ {Max(s)}], chunks[Max(s)])
    <3>1. Max(s) \in 1..n
      BY <1>1, <2>2, MaxIsIn
    <3>2. h[s \ {Max(s)}] \in ContextSoFar
      BY <2>1
    <3> QED BY <3>1, <3>2
  <2>3. Eqn(h)
    <3> HIDE DEF step, n, base
    <3> QED BY <2>1, <2>2 DEF IsTable
  <2> QED BY <2>3
<1>5. Eqn(iter)
  <2> HIDE DEF Eqn
  <2> QED BY <1>4
<1>6. Follows(iter, n, ContextSoFar, base, step)
  <2> HIDE DEF iter, base
  <2>1. \A s \in SUBSET (1..n) :
           iter[s] = IF s = {} THEN base
                     ELSE ShowChunk(iter[s \ {Max(s)}], chunks[Max(s)])
    BY <1>5
  <2>2. \A s \in SUBSET (1..n) : s # {} => Max(s) \in 1..n
    BY <1>1, MaxIsIn
  <2> QED BY <1>1, <1>2, <2>1, <2>2 DEF Follows
<1> HIDE DEF iter, step, n, base, Eqn
<1>7. PICK F \in [0..n -> ContextSoFar] : IsWalk(F, n, base, step) /\ F[n] = iter[1..n]
  BY <1>6, FoldWalk
<1>8. \A k \in 1..n : F[k - 1] \in ContextSoFar
        /\ step[<<k, F[k - 1]>>] = ShowChunk(F[k - 1], chunks[k])
  BY <1>1, <1>7 DEF step
<1> QED BY <1>3, <1>7, <1>8 DEF n, base, IsWalk

\* The characters of a context that shows this much of each chunk: the chunk's own label and
\* what is shown of it, and a separator between two.
Lengths(chunks, shown) == [n \in DOMAIN shown |-> Prefix(n, chunks[n]) + shown[n]]

Cost(chunks, shown) ==
    Total(Lengths(chunks, shown)) + Separator * Max({0} \cup {Len(shown) - 1})

\* One more chunk costs its characters, its label and a separator before it.
LEMMA CostAppend ==
    ASSUME NEW chunks \in Seq(Chunk), NEW shown \in Seq(Nat), Len(shown) < Len(chunks),
           NEW x \in Nat
    PROVE  /\ Cost(chunks, shown) \in Int
           /\ Cost(chunks, Append(shown, x))
                = Cost(chunks, shown) + (IF shown = <<>> THEN 0 ELSE Separator)
                  + Prefix(Len(shown) + 1, chunks[Len(shown) + 1]) + x
<1> DEFINE n == Len(shown)
           longer == Append(shown, x)
           prefix == Prefix(n + 1, chunks[n + 1])
           before == Lengths(chunks, shown)
           after == Lengths(chunks, longer)
<1>1. /\ n \in Nat /\ Len(chunks) \in Nat /\ (shown = <<>> <=> n = 0) /\ n + 1 \in Nat
      /\ DOMAIN shown = 1..n /\ \A k \in 1..n : shown[k] \in Nat
  BY EmptySeq, LenProperties, ElementOfSeq
<1>2. /\ Len(longer) = n + 1 /\ DOMAIN longer = 1..(n + 1)
      /\ longer[n + 1] = x /\ \A k \in 1..n : longer[k] = shown[k]
  <2>1. longer \in Seq(Nat)
    BY AppendProperties
  <2> QED BY <2>1, AppendProperties, LenProperties
<1>3. \A k \in 1..(n + 1) : chunks[k] \in Chunk
  BY <1>1, ElementOfSeq
<1>4. \A k \in 1..(n + 1) : Prefix(k, chunks[k]) \in Nat
  <2>1. \A k \in 1..(n + 1) : k \in Nat
    BY <1>1
  <2> QED BY <1>3, <2>1, LabelIsNumber
<1>5. prefix \in Nat
  <2>1. n + 1 \in 1..(n + 1)
    BY <1>1
  <2> QED BY <1>4, <2>1
<1> HIDE DEF n, longer, prefix
<1>6. /\ before = [k \in 1..n |-> Prefix(k, chunks[k]) + shown[k]]
      /\ after = [k \in 1..(n + 1) |-> Prefix(k, chunks[k]) + longer[k]]
  BY <1>1, <1>2 DEF Lengths
<1>7. before \in Seq(Int) /\ Len(before) = n
  <2>1. \A k \in 1..n : k \in 1..(n + 1)
    BY <1>1
  <2>2. \A k \in 1..n : Prefix(k, chunks[k]) + shown[k] \in Int
    BY <1>1, <1>4, <2>1
  <2>3. before \in [1..n -> Int]
    BY <1>6, <2>2
  <2> HIDE DEF before
  <2> QED BY <1>1, <2>3, SeqDef, LenProperties
<1>8. after = Append(before, prefix + x)
  <2>1. prefix + x \in Int
    BY <1>5
  <2>2. \A k \in 1..(n + 1) : k = n + 1 \/ k \in 1..n
    BY <1>1
  <2>3. after[n + 1] = prefix + x
    <3>1. n + 1 \in 1..(n + 1)
      BY <1>1
    <3> QED BY <1>2, <1>6, <3>1 DEF prefix
  <2>4. \A k \in 1..n : after[k] = before[k] /\ before[k] \in Int
    <3>1. \A k \in 1..n : k \in 1..(n + 1)
      BY <1>1
    <3>2. \A k \in 1..n : before[k] \in Int
      BY <1>7, ElementOfSeq
    <3> HIDE DEF before, after
    <3> QED BY <1>2, <1>6, <3>1, <3>2
  <2> HIDE DEF before, after
  <2>5. after \in [1..(n + 1) -> Int]
    <3>1. \A k \in 1..(n + 1) : after[k] \in Int
      BY <2>1, <2>2, <2>3, <2>4
    <3> QED BY <1>6, <3>1
  <2>6. after \in Seq(Int) /\ Len(after) = n + 1
    <3>1. n + 1 \in Nat
      BY <1>1
    <3> QED BY <2>5, <3>1, SeqDef, LenProperties
  <2>7. /\ Append(before, prefix + x) \in Seq(Int)
        /\ Len(Append(before, prefix + x)) = n + 1
        /\ Append(before, prefix + x)[n + 1] = prefix + x
        /\ \A k \in 1..n : Append(before, prefix + x)[k] = before[k]
    BY <1>7, <2>1, AppendProperties
  <2>8. \A k \in 1..(n + 1) : after[k] = Append(before, prefix + x)[k]
    BY <2>2, <2>3, <2>4, <2>7
  <2> QED BY <2>6, <2>7, <2>8, SeqEqual
<1>9. Total(after) = Total(before) + (prefix + x) /\ Total(before) \in Int
  <2>1. prefix + x \in Int
    BY <1>5
  <2> HIDE DEF before, after
  <2> QED BY <1>7, <1>8, <2>1, TotalAppend
<1>10. Max({0} \cup {n - 1}) = (IF n = 0 THEN 0 ELSE n - 1) /\ Max({0} \cup {(n + 1) - 1}) = n
  <2>1. \A m \in Int : {0} \cup {m} = {0, m}
    OBVIOUS
  <2>2. n - 1 \in Int /\ (n + 1) - 1 \in Int /\ 0 \in Int
    BY <1>1
  <2>3. \A m \in Int : Max({0, m}) = IF 0 >= m THEN 0 ELSE m
    BY LargerOfTwo
  <2> QED BY <1>1, <2>1, <2>2, <2>3
<1>11. Cost(chunks, shown) = Total(before) + 2 * (IF n = 0 THEN 0 ELSE n - 1)
  BY <1>10 DEF Cost, n, Separator
<1>12. Cost(chunks, longer) = Total(after) + 2 * n
  BY <1>2, <1>10 DEF Cost, Separator
<1>13. Cost(chunks, longer)
         = Cost(chunks, shown) + (IF shown = <<>> THEN 0 ELSE Separator) + prefix + x
  <2> DEFINE sum == Total(before)
             cost == Cost(chunks, shown)
             larger == Cost(chunks, longer)
  <2>1. sum \in Int /\ Total(after) = sum + (prefix + x)
    BY <1>9
  <2>2. cost = sum + 2 * (IF n = 0 THEN 0 ELSE n - 1) /\ larger = sum + (prefix + x) + 2 * n
    BY <1>11, <1>12, <2>1
  <2> HIDE DEF before, after, sum, cost, larger
  <2>3. CASE n = 0
    BY <1>1, <1>5, <2>1, <2>2, <2>3 DEF cost, larger
  <2>4. CASE n # 0
    <3>1. shown # <<>>
      BY <1>1, <2>4
    <3>2. 2 * (n - 1) + 2 = 2 * n /\ 2 * (n - 1) \in Int /\ 2 * n \in Int
      BY <1>1
    <3>3. cost = sum + 2 * (n - 1)
      BY <2>2, <2>4
    <3>4. larger = cost + 2 + prefix + x
      <4> DEFINE twice == 2 * n
                 less == 2 * (n - 1)
      <4>1. less + 2 = twice /\ less \in Int /\ twice \in Int
        BY <3>2
      <4>2. cost = sum + less /\ larger = sum + (prefix + x) + twice
        BY <2>2, <3>3
      <4> HIDE DEF twice, less
      <4> QED BY <1>5, <2>1, <4>1, <4>2
    <3> QED BY <3>1, <3>4 DEF Separator, cost, larger
  <2> QED BY <2>3, <2>4
<1>14. Cost(chunks, shown) \in Int
  <2> HIDE DEF before
  <2> QED BY <1>1, <1>9, <1>11
<1> QED BY <1>13, <1>14 DEF longer, prefix, n

\* Showing nothing costs nothing.
LEMMA CostOfNone == ASSUME NEW chunks PROVE Cost(chunks, <<>>) = 0
<1>1. Lengths(chunks, <<>>) = <<>>
  BY DEF Lengths
<1>2. Total(<<>>) = 0
  <2>1. <<>> \in Seq(Int) /\ 0 \in Int
    OBVIOUS
  <2> QED BY <2>1, TotalAppend
<1>3. Max({0} \cup {0 - 1}) = 0
  <2>1. {0} \cup {0 - 1} = {0, 0 - 1} /\ 0 - 1 \in Int /\ 0 \in Int
    OBVIOUS
  <2> QED BY <2>1, LargerOfTwo
<1>4. Len(<<>>) = 0
  OBVIOUS
<1> DEFINE sum == Total(Lengths(chunks, <<>>))
           gaps == Max({0} \cup {Len(<<>>) - 1})
<1>5. Cost(chunks, <<>>) = sum + 2 * gaps
  BY DEF Cost, Separator
<1>6. sum = 0 /\ gaps = 0
  BY <1>1, <1>2, <1>3, <1>4
<1> HIDE DEF sum, gaps
<1> QED BY <1>5, <1>6

\* The context after the first k chunks fills the budget as far as it can.
Filled(chunks, context, k) ==
    LET shown == context.shown
        used == context.used IN
    /\ context \in ContextSoFar
    /\ Len(shown) <= k /\ (~context.full => Len(shown) = k)
    /\ used = Cost(chunks, shown) /\ used <= ContextBudget
    /\ \A n \in 1..Len(shown) :
          shown[n] <= chunks[n].size /\ (shown[n] < chunks[n].size => used = ContextBudget)
    /\ context.full =>
          /\ Len(shown) < k
          /\ used + Prefix(Len(shown) + 1, chunks[Len(shown) + 1])
               + (IF shown = <<>> THEN 0 ELSE Separator) >= ContextBudget

\* Showing the next chunk fills the budget as far as it can.
LEMMA FilledStep ==
    ASSUME NEW chunks \in Seq(Chunk), NEW k \in 1..Len(chunks), NEW context,
           Filled(chunks, context, k - 1)
    PROVE  Filled(chunks, ShowChunk(context, chunks[k]), k)
<1> DEFINE shown == context.shown
           used == context.used
           c == chunks[k]
           next == ShowChunk(context, c)
           prefix == Prefix(Len(shown) + 1, c)
           separator == IF shown = <<>> THEN 0 ELSE Separator
           room == ContextBudget - used - separator
<1>1. /\ context \in ContextSoFar /\ c \in Chunk
      /\ k \in Nat /\ Len(shown) \in Nat /\ shown \in Seq(Nat)
      /\ used \in Nat /\ prefix \in Nat /\ ContextBudget \in Nat /\ separator \in Nat
      /\ context.full \in BOOLEAN
  <2>1. /\ context \in ContextSoFar /\ c \in Chunk
        /\ k \in Nat /\ Len(shown) \in Nat /\ shown \in Seq(Nat)
    BY LenProperties, ElementOfSeq DEF Filled, ContextSoFar
  <2>2. Len(shown) + 1 \in Nat
    BY <2>1
  <2>3. prefix \in Nat
    <3> HIDE DEF c, shown
    <3> QED BY <2>1, <2>2, LabelIsNumber
  <2> QED BY <2>1, <2>3, RetrievalAssumption DEF ContextSoFar, Separator
<1>2. /\ next \in ContextSoFar
      /\ \/ /\ context.full \/ room <= prefix
            /\ next = [context EXCEPT !.full = TRUE]
         \/ /\ ~context.full /\ room > prefix
            /\ \E size \in Nat :
                  /\ size <= c.size /\ size <= room - prefix
                  /\ size < c.size => size = room - prefix
                  /\ next = [shown |-> Append(shown, size), full |-> FALSE,
                             used |-> used + separator + prefix + size]
  <2> HIDE DEF c
  <2> QED BY <1>1, ShownOne
<1>3. CASE /\ context.full \/ room <= prefix
           /\ next = [context EXCEPT !.full = TRUE]
  <2>1. next.shown = shown /\ next.used = used /\ next.full = TRUE
    BY <1>1, <1>3 DEF ContextSoFar
  <2>2. /\ Len(shown) < k
        /\ used + Prefix(Len(shown) + 1, chunks[Len(shown) + 1]) + separator >= ContextBudget
    <3>1. CASE context.full
      BY <1>1, <3>1 DEF Filled
    <3>2. CASE ~context.full /\ room <= prefix
      <4>1. Len(shown) = k - 1
        BY <3>2 DEF Filled
      <4>2. Len(shown) < k /\ Len(shown) + 1 = k
        BY <1>1, <4>1
      <4>3. prefix = Prefix(Len(shown) + 1, chunks[Len(shown) + 1])
        BY <4>2
      <4>4. used + prefix + separator >= ContextBudget
        <5> HIDE DEF separator, used, prefix
        <5> QED BY <1>1, <3>2
      <4> HIDE DEF prefix
      <4> QED BY <4>2, <4>3, <4>4
    <3> QED BY <1>1, <1>3, <3>1, <3>2
  <2>3. Len(shown) <= k
    BY <1>1 DEF Filled
  <2> HIDE DEF next
  <2> QED BY <1>2, <2>1, <2>2, <2>3 DEF Filled, next, c
<1>4. CASE ~context.full /\ room > prefix
           /\ \E size \in Nat :
                  /\ size <= c.size /\ size <= room - prefix
                  /\ size < c.size => size = room - prefix
                  /\ next = [shown |-> Append(shown, size), full |-> FALSE,
                             used |-> used + separator + prefix + size]
  <2>1. PICK size \in Nat :
                  /\ size <= c.size /\ size <= room - prefix
                  /\ size < c.size => size = room - prefix
                  /\ next = [shown |-> Append(shown, size), full |-> FALSE,
                             used |-> used + separator + prefix + size]
    BY <1>4
  <2>2. next.shown = Append(shown, size) /\ ~next.full
        /\ next.used = used + separator + prefix + size
    BY <2>1
  <2>3. Len(shown) = k - 1
    BY <1>4 DEF Filled
  <2>4. Len(next.shown) = k /\ next.shown[k] = size
        /\ \A n \in 1..(k - 1) : next.shown[n] = shown[n]
    <3> HIDE DEF next, shown
    <3>1. /\ Len(Append(shown, size)) = Len(shown) + 1
          /\ Append(shown, size)[Len(shown) + 1] = size
          /\ \A n \in 1..Len(shown) : Append(shown, size)[n] = shown[n]
      BY <1>1, AppendProperties
    <3>2. Len(shown) + 1 = k
      BY <1>1, <2>3
    <3> QED BY <2>2, <2>3, <3>1, <3>2
  <2>5. next.used = Cost(chunks, next.shown)
    <3>1. Len(shown) < Len(chunks) /\ Len(shown) + 1 = k
      BY <1>1, <2>3, LenProperties
    <3>2. Cost(chunks, Append(shown, size))
            = Cost(chunks, shown) + separator
              + Prefix(Len(shown) + 1, chunks[Len(shown) + 1]) + size
      BY <1>1, <3>1, CostAppend
    <3>3. prefix = Prefix(Len(shown) + 1, chunks[Len(shown) + 1])
      BY <3>1
    <3> HIDE DEF next, separator, prefix
    <3> QED BY <2>2, <3>2, <3>3 DEF Filled
  <2>6. next.used <= ContextBudget /\ (size < c.size => next.used = ContextBudget)
        /\ used # ContextBudget
    <3>1. /\ used \in Nat /\ separator \in Nat /\ c.size \in Nat /\ size \in Nat
          /\ prefix \in Nat /\ ContextBudget \in Nat
      BY <1>1 DEF Chunk
    <3>2. /\ room > prefix /\ size <= room - prefix
          /\ (size < c.size => size = room - prefix)
          /\ next.used = used + separator + prefix + size
      BY <1>4, <2>1, <2>2
    <3>3. room = ContextBudget - used - separator
      OBVIOUS
    <3> HIDE DEF next, separator, used, c, room, prefix
    <3> QED BY <3>1, <3>2, <3>3
  <2>7. \A n \in 1..k : n = k \/ n \in 1..(k - 1)
    BY <1>1
  <2>8. \A n \in 1..(k - 1) : shown[n] <= chunks[n].size /\ ~(shown[n] < chunks[n].size)
    BY <2>3, <2>6 DEF Filled
  <2> HIDE DEF next, separator, used, room, shown, prefix
  <2>9. \A n \in 1..k :
          /\ next.shown[n] <= chunks[n].size
          /\ next.shown[n] < chunks[n].size => next.used = ContextBudget
    BY <2>1, <2>4, <2>6, <2>7, <2>8
  <2>10. Filled(chunks, next, k)
    <3>1. Len(next.shown) = k /\ k <= k /\ next.full = FALSE
      BY <1>1, <1>2, <2>2, <2>4 DEF ContextSoFar
    <3>2. next \in ContextSoFar
      BY <1>2
    <3> HIDE DEF c
    <3> QED BY <2>5, <2>6, <2>9, <3>1, <3>2, Zenon DEF Filled
  <2> QED BY <2>10 DEF next
<1> QED BY <1>2, <1>3, <1>4

\* The context of all the chunks does.
LEMMA ContextFilled ==
    ASSUME NEW chunks \in Seq(Chunk)
    PROVE  Filled(chunks, Shown(chunks), Len(chunks))
<1> DEFINE n == Len(chunks)
<1>1. PICK F \in [0..n -> ContextSoFar] :
         /\ F[0] = NoContext
         /\ \A k \in 1..n : F[k] = ShowChunk(F[k - 1], chunks[k])
         /\ Shown(chunks) = F[n]
  BY ShownSteps
<1>2. n \in Nat
  BY LenProperties
<1> DEFINE P == {k \in 0..n : Filled(chunks, F[k], k)}
<1>3. 0 \in P
  <2>1. <<>> \in Seq(Nat) /\ Len(<<>>) = 0 /\ NoContext.shown = <<>> /\ NoContext.used = 0
        /\ NoContext.full = FALSE
    BY DEF NoContext
  <2>2. NoContext \in ContextSoFar
    BY DEF NoContext, ContextSoFar
  <2>3. Cost(chunks, <<>>) = 0
    BY CostOfNone
  <2>4. Filled(chunks, NoContext, 0)
    BY <2>1, <2>2, <2>3, RetrievalAssumption DEF Filled
  <2> QED BY <1>1, <1>2, <2>4
<1>4. \A k \in 1..n : k - 1 \in P => k \in P
  <2> SUFFICES ASSUME NEW k \in 1..n, k - 1 \in P PROVE k \in P
    OBVIOUS
  <2>1. Filled(chunks, F[k - 1], k - 1)
    OBVIOUS
  <2>2. Filled(chunks, ShowChunk(F[k - 1], chunks[k]), k)
    BY <2>1, FilledStep
  <2> QED BY <1>1, <1>2, <2>2
<1>5. n \in P
  <2>1. n \in 0..n
    BY <1>2
  <2> HIDE DEF P
  <2> QED BY <1>2, <1>3, <1>4, <2>1, UpTo
<1> QED BY <1>1, <1>5

\* The score of a chunk, the chunks that may be found, and the order they are listed in.
Scored(near, worded, c) ==
    (IF c \in near THEN c.similarity ELSE 0) + (IF c \in worded THEN c.rank ELSE 0)

Matches(near, worded) == {c \in near \cup worded : c.served}

Better(near, worded) ==
    {p \in Matches(near, worded) \X Matches(near, worded) :
        \/ Scored(near, worded, p[1]) > Scored(near, worded, p[2])
        \/ Scored(near, worded, p[1]) = Scored(near, worded, p[2]) /\ p[1].id < p[2].id}

\* What a search finds, in one question about a table.
LEMMA SearchFinds ==
    ASSUME NEW table \in ChunkTables, NEW near \in VectorMatches(table),
           NEW worded \in TextMatches(table)
    PROVE  LET found == HybridSearch(near, worded) IN
           /\ found \in Seq(Chunk)
           /\ \A n \in 1..Len(found) : found[n] \in table /\ found[n].served
           /\ \A c \in Matches(near, worded) : (\A n \in 1..Len(found) : found[n] # c) =>
                 /\ Len(found) = TopK
                 /\ \A n \in 1..Len(found) :
                       Scored(near, worded, found[n]) >= Scored(near, worded, c)
<1> DEFINE S == Matches(near, worded)
           order == Better(near, worded)
           n == Cardinality(S)
           ranked == Ranked(S, order)
           top == Min({TopK, n})
           found == HybridSearch(near, worded)
           score(c) == Scored(near, worded, c)
<1>1. /\ table \subseteq Chunk /\ IsFiniteSet(table)
      /\ \A c, d \in table : c.id = d.id => c = d
      /\ TopK \in Nat
  BY RetrievalAssumption
<1>2. S \subseteq table
  BY DEF Matches, VectorMatches, TextMatches
<1>3. IsFiniteSet(S)
  BY <1>1, <1>2, FS_Subset
<1>4. \A c \in S : score(c) \in Int /\ c.id \in Int
  BY <1>1, <1>2 DEF Scored, Chunk
<1>5. StrictOrder(S, order)
  <2>1. \A x, y \in S : <<x, y>> \in order <=>
           score(x) > score(y) \/ (score(x) = score(y) /\ x.id < y.id)
    BY DEF Better
  <2>2. \A x, y \in S : x.id = y.id => x = y
    BY <1>1, <1>2
  <2> HIDE DEF S, order, score
  <2>3. \A x \in S : <<x, x>> \notin order
    BY <1>4, <2>1
  <2>4. \A x, y \in S : x = y \/ <<x, y>> \in order \/ <<y, x>> \in order
    <3> SUFFICES ASSUME NEW x \in S, NEW y \in S, x # y
                 PROVE  <<x, y>> \in order \/ <<y, x>> \in order
      OBVIOUS
    <3>1. /\ score(x) \in Int /\ score(y) \in Int
          /\ x.id \in Int /\ y.id \in Int /\ x.id # y.id
      BY <1>4, <2>2
    <3>2. \/ score(x) > score(y) \/ (score(x) = score(y) /\ x.id < y.id)
          \/ score(y) > score(x) \/ (score(y) = score(x) /\ y.id < x.id)
      BY <3>1
    <3> QED BY <2>1, <3>2
  <2>5. \A x, y, z \in S : <<x, y>> \in order /\ <<y, z>> \in order => <<x, z>> \in order
    <3> SUFFICES ASSUME NEW x \in S, NEW y \in S, NEW z \in S,
                        <<x, y>> \in order, <<y, z>> \in order
                 PROVE  <<x, z>> \in order
      OBVIOUS
    <3>1. /\ score(x) > score(y) \/ (score(x) = score(y) /\ x.id < y.id)
          /\ score(y) > score(z) \/ (score(y) = score(z) /\ y.id < z.id)
      BY <2>1
    <3>2. /\ score(x) \in Int /\ score(y) \in Int /\ score(z) \in Int
          /\ x.id \in Int /\ y.id \in Int /\ z.id \in Int
      BY <1>4
    <3>3. score(x) > score(z) \/ (score(x) = score(z) /\ x.id < z.id)
      BY <3>1, <3>2
    <3> QED BY <2>1, <3>3
  <2> QED BY <2>3, <2>4, <2>5 DEF StrictOrder
<1>6. /\ n \in Nat /\ ranked \in [1..n -> S]
      /\ \A k \in 1..n : Cardinality(Before(ranked[k], S, order)) = k - 1
      /\ \A x \in S : \E k \in 1..n : ranked[k] = x
  <2> HIDE DEF S, order
  <2> QED BY <1>3, <1>5, RankedAll
<1>7. found = SubSeq(ranked, 1, top)
  BY DEF HybridSearch, Matches, Better, Scored
<1>8. top \in Nat /\ top <= n /\ top <= TopK /\ (top < n => top = TopK)
  <2>1. top = IF TopK <= n THEN TopK ELSE n
    <3> HIDE DEF n
    <3>1. TopK \in Int /\ n \in Int
      BY <1>1, <1>6
    <3> QED BY <3>1, SmallerOfTwo
  <2> HIDE DEF n, top
  <2> QED BY <1>1, <1>6, <2>1
<1> HIDE DEF S, order, n, ranked, top, found, score
<1>9. found \in Seq(S) /\ Len(found) = top /\ \A k \in 1..top : found[k] = ranked[k]
  <2>1. \A k \in 1..top : ranked[k] \in S
    BY <1>6, <1>8
  <2>2. 1 \in Int /\ top \in Int /\ top - 1 + 1 = top /\ \A k \in 1..top : 1 + k - 1 = k
    BY <1>8
  <2>3. /\ SubSeq(ranked, 1, top) \in Seq(S)
        /\ Len(SubSeq(ranked, 1, top)) = IF 1 <= top THEN top - 1 + 1 ELSE 0
        /\ \A i \in 1..(top - 1 + 1) : SubSeq(ranked, 1, top)[i] = ranked[1 + i - 1]
    BY <2>1, <2>2, SubSeqProperties
  <2>4. 1 <= top \/ top = 0
    BY <1>8
  <2> QED BY <1>7, <2>2, <2>3, <2>4
<1>10. found \in Seq(Chunk) /\ \A k \in 1..Len(found) : found[k] \in S
  <2>1. \A k \in 1..Len(found) : found[k] \in S
    BY <1>9, ElementOfSeq
  <2>2. found \in Seq(Chunk)
    BY <1>1, <1>2, <1>9
  <2> QED BY <2>1, <2>2
<1>11. \A k \in 1..Len(found) : found[k] \in table /\ found[k].served
  BY <1>2, <1>10 DEF S, Matches
<1>12. ASSUME NEW c \in S, \A k \in 1..Len(found) : found[k] # c
       PROVE  /\ Len(found) = TopK
              /\ \A k \in 1..Len(found) : score(found[k]) >= score(c)
  <2>1. PICK place \in 1..n : ranked[place] = c
    BY <1>6
  <2>2. place > top
    BY <1>6, <1>8, <1>9, <1>12, <2>1
  <2>3. Len(found) = TopK
    BY <1>6, <1>8, <1>9, <2>1, <2>2
  <2>4. ASSUME NEW k \in 1..Len(found) PROVE score(found[k]) >= score(c)
    <3> DEFINE d == found[k]
    <3>1. d \in S /\ d = ranked[k] /\ k \in 1..n /\ d # c
      BY <1>6, <1>8, <1>9, <1>10, <1>12
    <3>2. Cardinality(Before(d, S, order)) = k - 1 /\ Cardinality(Before(c, S, order))
            = place - 1
      BY <1>6, <2>1, <3>1
    <3>3. <<c, d>> \notin order
      <4> SUFFICES ASSUME <<c, d>> \in order PROVE FALSE
        OBVIOUS
      <4>1. Cardinality(Before(c, S, order)) < Cardinality(Before(d, S, order))
        <5> HIDE DEF d
        <5> QED BY <1>3, <1>5, <3>1, MoreBefore
      <4>2. place - 1 < k - 1 /\ k <= top
        BY <1>9, <3>2, <4>1
      <4> HIDE DEF d
      <4> QED BY <1>6, <1>8, <2>2, <3>1, <4>2
    <3>4. ~(score(c) > score(d))
      BY <3>1, <3>3 DEF order, Better, S, score
    <3> HIDE DEF d
    <3>5. score(c) \in Int /\ score(d) \in Int
      BY <1>4, <3>1
    <3>6. score(d) >= score(c)
      BY <3>4, <3>5
    <3> QED BY <3>6 DEF d
  <2> QED BY <2>3, <2>4
<1> QED BY <1>10, <1>11, <1>12 DEF found, S, score

\* A step answers a question about a table, ingests a document, or changes nothing.
LEMMA RetrievalSteps ==
    ASSUME [RetrievalNext]_retrievalVars
    PROVE  \/ \E paragraphs \in Paragraphs :
                 /\ lookup' = [kind |-> "document", paragraphs |-> paragraphs]
                 /\ outcome' = SplitText(paragraphs)
           \/ \E table \in ChunkTables :
                 \E near \in VectorMatches(table), worded \in TextMatches(table) :
                    /\ lookup' = [kind |-> "question", table |-> table, text |-> worded]
                    /\ outcome' = PolicyAnswer(near, worded)
           \/ UNCHANGED <<lookup, outcome>>
BY DEF RetrievalNext, IngestDocument, AskPolicy, retrievalVars

\* (build_context, PolicyAgent.generate) ShownFillsBudget in every behaviour.
THEOREM ShownFillsBudgetAlways == RetrievalSpec => []ShownFillsBudget
<1>1. RetrievalInit => ShownFillsBudget
  BY DEF RetrievalInit, ShownFillsBudget, Looked
<1>2. ShownFillsBudget /\ [RetrievalNext]_retrievalVars => ShownFillsBudget'
  <2> SUFFICES ASSUME ShownFillsBudget, [RetrievalNext]_retrievalVars PROVE ShownFillsBudget'
    OBVIOUS
  <2>1. ASSUME NEW paragraphs \in Paragraphs,
               lookup' = [kind |-> "document", paragraphs |-> paragraphs]
        PROVE  ShownFillsBudget'
    <3>1. lookup'.kind # "question"
      BY <2>1
    <3> QED BY <3>1 DEF ShownFillsBudget, Looked
  <2>2. ASSUME NEW table \in ChunkTables, NEW near \in VectorMatches(table),
               NEW worded \in TextMatches(table), outcome' = PolicyAnswer(near, worded)
        PROVE  ShownFillsBudget'
    <3> DEFINE found == HybridSearch(near, worded)
               shown == outcome'.shown
               used == Cost(found, shown)
               next == Len(shown) + 1
    <3>1. found \in Seq(Chunk)
      BY SearchFinds
    <3>2. outcome'.found = found /\ shown = Shown(found).shown
      BY <2>2 DEF PolicyAnswer, BuildContext, Shown, NoContext
    <3>3. Filled(found, Shown(found), Len(found))
      BY <3>1, ContextFilled
    <3>4. Shown(found).used = used /\ Shown(found).full \in BOOLEAN
      BY <3>2, <3>3 DEF Filled, ContextSoFar
    <3>5. Len(found) \in Nat /\ Len(shown) \in Nat /\ DOMAIN shown = 1..Len(shown)
      BY <3>1, <3>2, <3>3, LenProperties DEF Filled, ContextSoFar
    <3> HIDE DEF found, shown, used, next
    <3>6. /\ Len(shown) <= Len(found)
          /\ \A n \in DOMAIN shown : shown[n] <= found[n].size
          /\ used <= ContextBudget
          /\ \A n \in DOMAIN shown : shown[n] < found[n].size => used = ContextBudget
          /\ next <= Len(found) =>
                used + Prefix(next, found[next]) + (IF shown = <<>> THEN 0 ELSE Separator)
                  >= ContextBudget
      BY <3>2, <3>3, <3>4, <3>5 DEF Filled, next
    <3>7. used = Total([n \in DOMAIN shown |-> Prefix(n, found[n]) + shown[n]])
                   + Separator * Max({0} \cup {Len(shown) - 1})
      BY DEF used, Cost, Lengths
    <3> QED BY <3>2, <3>6, <3>7 DEF ShownFillsBudget, shown, next
  <2>3. CASE UNCHANGED <<lookup, outcome>>
    BY <2>3 DEF ShownFillsBudget, Looked
  <2> QED BY <2>1, <2>2, <2>3, RetrievalSteps
<1> QED BY <1>1, <1>2, PTL DEF RetrievalSpec

\* (hybrid_search) FoundUnlessCrowded in every behaviour.
THEOREM FoundUnlessCrowdedAlways == RetrievalSpec => []FoundUnlessCrowded
<1>1. RetrievalInit => FoundUnlessCrowded
  BY DEF RetrievalInit, FoundUnlessCrowded, Looked
<1>2. FoundUnlessCrowded /\ [RetrievalNext]_retrievalVars => FoundUnlessCrowded'
  <2> SUFFICES ASSUME FoundUnlessCrowded, [RetrievalNext]_retrievalVars
               PROVE  FoundUnlessCrowded'
    OBVIOUS
  <2>1. ASSUME NEW paragraphs \in Paragraphs,
               lookup' = [kind |-> "document", paragraphs |-> paragraphs]
        PROVE  FoundUnlessCrowded'
    <3>1. lookup'.kind # "question"
      BY <2>1
    <3> QED BY <3>1 DEF FoundUnlessCrowded, Looked
  <2>2. ASSUME NEW table \in ChunkTables, NEW near \in VectorMatches(table),
               NEW worded \in TextMatches(table), outcome' = PolicyAnswer(near, worded),
               lookup' = [kind |-> "question", table |-> table, text |-> worded]
        PROVE  FoundUnlessCrowded'
    <3> DEFINE found == HybridSearch(near, worded)
    <3>1. /\ found \in Seq(Chunk)
          /\ \A n \in 1..Len(found) : found[n] \in table /\ found[n].served
          /\ \A c \in Matches(near, worded) : (\A n \in 1..Len(found) : found[n] # c) =>
                /\ Len(found) = TopK
                /\ \A n \in 1..Len(found) :
                      Scored(near, worded, found[n]) >= Scored(near, worded, c)
      BY SearchFinds
    <3>2. outcome'.found = found /\ lookup'.table = table /\ lookup'.text = worded
      BY <2>2 DEF PolicyAnswer
    <3> HIDE DEF found
    <3>3. ToSet(found) = {found[n] : n \in 1..Len(found)}
      BY <3>1, LenProperties DEF ToSet
    <3>4. /\ table \subseteq Chunk /\ IsFiniteSet(table) /\ TopK \in Nat
      BY RetrievalAssumption
    <3>5. near \subseteq table /\ worded \subseteq table
      BY DEF VectorMatches, TextMatches
    <3>6. ASSUME NEW d \in table
          PROVE  /\ Scored(near, worded, d) \in Int /\ Score(d, worded) \in Int
                 /\ Scored(near, worded, d) <= Score(d, worded)
                 /\ d \in near => Scored(near, worded, d) >= d.similarity
      <4>1. d.similarity \in Int /\ d.rank \in Nat
        BY <3>4 DEF Chunk
      <4>2. Max({0, d.similarity}) = IF 0 >= d.similarity THEN 0 ELSE d.similarity
        BY <4>1, LargerOfTwo
      <4> QED BY <4>1, <4>2 DEF Scored, Score
    <3>7. ASSUME NEW c \in table, c \notin near
          PROVE  Cardinality({d \in table \ {c} : d.similarity >= c.similarity}) >= 2 * TopK
      <4> DEFINE others == {d \in table \ {c} : d.similarity >= c.similarity}
      <4>1. near \subseteq others
        BY <3>5, <3>7 DEF VectorMatches
      <4>2. IsFiniteSet(others)
        BY <3>4, FS_Subset
      <4>3. Cardinality(near) <= Cardinality(others)
        <5> HIDE DEF others
        <5> QED BY <4>1, <4>2, FS_Subset
      <4>4. Cardinality(near) # Cardinality(table) /\ Cardinality(near) \in Nat
        BY <3>4, <3>5, <3>7, FS_Subset, FS_CardinalityType
      <4>5. Cardinality(near) = Pool
        <5>1. Cardinality(near) = Min({Pool, Cardinality(table)})
          BY DEF VectorMatches
        <5>2. Pool \in Int /\ Cardinality(table) \in Int
          BY <3>4, FS_CardinalityType DEF Pool
        <5>3. Min({Pool, Cardinality(table)})
                = IF Pool <= Cardinality(table) THEN Pool ELSE Cardinality(table)
          BY <5>2, SmallerOfTwo
        <5> QED BY <4>4, <5>1, <5>3
      <4>6. Cardinality(others) \in Nat
        BY <4>2, FS_CardinalityType
      <4> HIDE DEF others
      <4>7. Cardinality(others) >= 2 * TopK
        BY <3>4, <4>3, <4>5, <4>6 DEF Pool
      <4> QED BY <4>7 DEF others
    <3>8. ASSUME NEW c \in table, c.served, c \notin ToSet(found), c \in near
          PROVE  /\ Len(found) = TopK
                 /\ \A d \in ToSet(found) : Score(d, worded) >= c.similarity
      <4>1. c \in Matches(near, worded) /\ \A n \in 1..Len(found) : found[n] # c
        BY <3>3, <3>8 DEF Matches
      <4>2. /\ Len(found) = TopK
            /\ \A d \in ToSet(found) : d \in table
                  /\ Scored(near, worded, d) >= Scored(near, worded, c)
        BY <3>1, <3>3, <4>1
      <4>3. ASSUME NEW d \in ToSet(found) PROVE Score(d, worded) >= c.similarity
        <5>1. /\ Scored(near, worded, d) >= Scored(near, worded, c)
              /\ Scored(near, worded, d) \in Int /\ Score(d, worded) \in Int
              /\ Scored(near, worded, d) <= Score(d, worded)
              /\ Scored(near, worded, c) >= c.similarity
              /\ Scored(near, worded, c) \in Int /\ c.similarity \in Int
          BY <3>4, <3>6, <3>8, <4>2 DEF Chunk
        <5> QED BY <5>1
      <4> QED BY <4>2, <4>3
    <3>9. \A c \in ToSet(found) : c \in table /\ c.served
      BY <3>1, <3>3
    <3> QED BY <3>2, <3>7, <3>8, <3>9 DEF FoundUnlessCrowded
  <2>3. CASE UNCHANGED <<lookup, outcome>>
    BY <2>3 DEF FoundUnlessCrowded, Looked
  <2> QED BY <2>1, <2>2, <2>3, RetrievalSteps
<1> QED BY <1>1, <1>2, PTL DEF RetrievalSpec

-----------------------------------------------------------------------------
(* Retrieval: the chunks of a document *)

\* A sentence of a document, a piece of it, and what is made of a part of the document.
SentenceId == Int \X Int
PieceRow == [sentences : Seq(SentenceId), size : Nat]
Pieces == [chunks : Seq(PieceRow), buf : PieceRow]

Texts(chunks) == FlattenSeq([n \in DOMAIN chunks |-> chunks[n].sentences])

\* A piece that is too long is one sentence, and only the empty one has no length.
Fits(piece) ==
    /\ piece.size > ChunkSize => Len(piece.sentences) = 1
    /\ piece.size = 0 => piece.sentences = <<>>

\* The pieces hold this text.
Holds(acc, sentences) ==
    /\ acc \in Pieces
    /\ Fits(acc.buf) /\ \A n \in 1..Len(acc.chunks) : Fits(acc.chunks[n])
    /\ Texts(acc.chunks) \o acc.buf.sentences = sentences

\* One more piece adds its sentences at the end.
LEMMA TextsAppend ==
    ASSUME NEW chunks \in Seq(PieceRow), NEW piece \in PieceRow
    PROVE  /\ Texts(chunks) \in Seq(SentenceId)
           /\ Texts(Append(chunks, piece)) = Texts(chunks) \o piece.sentences
<1> DEFINE n == Len(chunks)
           longer == Append(chunks, piece)
           S == Seq(SentenceId)
           texts == [k \in 1..n |-> chunks[k].sentences]
<1>1. n \in Nat /\ DOMAIN chunks = 1..n /\ \A k \in 1..n : chunks[k].sentences \in S
  <2>1. n \in Nat /\ DOMAIN chunks = 1..n /\ \A k \in 1..n : chunks[k] \in PieceRow
    BY LenProperties, ElementOfSeq
  <2> QED BY <2>1 DEF PieceRow
<1>2. /\ longer \in Seq(PieceRow) /\ Len(longer) = n + 1 /\ longer[n + 1] = piece
      /\ \A k \in 1..n : longer[k] = chunks[k]
  BY AppendProperties
<1>3. DOMAIN longer = 1..(n + 1)
  BY <1>2, LenProperties
<1>4. texts \in Seq(S) /\ Len(texts) = n /\ Texts(chunks) = FlattenSeq(texts)
  BY <1>1 DEF Texts
<1>5. piece.sentences \in S
  BY DEF PieceRow
<1> HIDE DEF longer, n
<1>6. [k \in DOMAIN longer |-> longer[k].sentences] = Append(texts, piece.sentences)
  <2> DEFINE both == [k \in 1..(n + 1) |-> longer[k].sentences]
             appended == Append(texts, piece.sentences)
  <2>1. /\ appended \in Seq(S) /\ Len(appended) = n + 1 /\ appended[n + 1] = piece.sentences
        /\ \A k \in 1..n : appended[k] = texts[k]
    <3> HIDE DEF texts, S
    <3> QED BY <1>4, <1>5, AppendProperties
  <2>2. both \in Seq(S) /\ Len(both) = n + 1
    <3>1. \A k \in 1..(n + 1) : k \in 1..n \/ k = n + 1
      BY <1>1
    <3>2. \A k \in 1..(n + 1) : longer[k].sentences \in S
      <4> HIDE DEF S
      <4> QED BY <1>1, <1>2, <1>5, <3>1
    <3> HIDE DEF S
    <3> QED BY <1>1, <3>2
  <2>3. ASSUME NEW k \in 1..(n + 1) PROVE both[k] = appended[k]
    <3>1. k \in 1..n \/ k = n + 1
      BY <1>1
    <3> HIDE DEF appended, S
    <3> QED BY <1>2, <2>1, <3>1
  <2>4. both = appended
    <3> HIDE DEF both, appended, S
    <3> QED BY <2>1, <2>2, <2>3, SeqEqual
  <2> QED BY <1>3, <2>4
<1>7. FlattenSeq(texts) \in S
      /\ FlattenSeq(Append(texts, piece.sentences)) = FlattenSeq(texts) \o piece.sentences
  <2>1. texts \in Seq(Seq(SentenceId)) /\ piece.sentences \in Seq(SentenceId)
    BY <1>4, <1>5
  <2> HIDE DEF texts
  <2> QED BY <2>1, FlattenAppend
<1> QED BY <1>4, <1>6, <1>7 DEF Texts, longer

\* The pieces with the last one put away.
Kept(acc) == IF acc.buf.size > 0 THEN Append(acc.chunks, acc.buf) ELSE acc.chunks

\* Putting a piece away keeps the text.
LEMMA KeptHolds ==
    ASSUME NEW acc, NEW sentences, Holds(acc, sentences)
    PROVE  /\ Kept(acc) \in Seq(PieceRow) /\ Texts(Kept(acc)) = sentences
           /\ sentences \in Seq(SentenceId)
           /\ \A n \in 1..Len(Kept(acc)) : Fits(Kept(acc)[n])
<1>1. acc.chunks \in Seq(PieceRow) /\ acc.buf \in PieceRow /\ acc.buf.size \in Nat
      /\ acc.buf.sentences \in Seq(SentenceId)
  BY DEF Holds, Pieces, PieceRow
<1>2. /\ Texts(acc.chunks) \in Seq(SentenceId)
      /\ Texts(Append(acc.chunks, acc.buf)) = sentences
  BY <1>1, TextsAppend DEF Holds
<1>3. sentences \in Seq(SentenceId)
  BY <1>1, <1>2, ConcatProperties DEF Holds
<1>4. CASE acc.buf.size > 0
  <2>1. Kept(acc) = Append(acc.chunks, acc.buf)
    BY <1>4 DEF Kept
  <2>2. /\ Kept(acc) \in Seq(PieceRow) /\ Len(Kept(acc)) = Len(acc.chunks) + 1
        /\ Kept(acc)[Len(acc.chunks) + 1] = acc.buf
        /\ \A n \in 1..Len(acc.chunks) : Kept(acc)[n] = acc.chunks[n]
    BY <1>1, <2>1, AppendProperties
  <2>3. \A n \in 1..Len(Kept(acc)) : n \in 1..Len(acc.chunks) \/ n = Len(acc.chunks) + 1
    BY <1>1, <2>2, LenProperties
  <2> QED BY <1>2, <1>3, <2>1, <2>2, <2>3 DEF Holds
<1>5. CASE ~(acc.buf.size > 0)
  <2>1. Kept(acc) = acc.chunks
    BY <1>5 DEF Kept
  <2>2. acc.buf.sentences = <<>>
    BY <1>1, <1>5 DEF Holds, Fits
  <2>3. Texts(acc.chunks) = sentences
    BY <1>2, <2>2, ConcatEmptySeq DEF Holds
  <2> QED BY <1>1, <1>3, <2>1, <2>3 DEF Holds
<1> QED BY <1>4, <1>5

\* A sentence is added at the end.
LEMMA SentenceAdded ==
    ASSUME NEW acc, NEW sentences, Holds(acc, sentences),
           NEW id \in SentenceId, NEW size \in Nat \ {0}
    PROVE  Holds(AddSentence(acc, id, size), Append(sentences, id))
<1> DEFINE next == AddSentence(acc, id, size)
           whole == Texts(acc.chunks)
           last == acc.buf.sentences
<1>1. /\ acc \in Pieces /\ acc.chunks \in Seq(PieceRow) /\ acc.buf \in PieceRow
      /\ acc.buf.size \in Nat /\ last \in Seq(SentenceId) /\ ChunkSize \in Nat
  BY RetrievalAssumption DEF Holds, Pieces, PieceRow
<1>2. sentences \in Seq(SentenceId) /\ whole \in Seq(SentenceId) /\ sentences = whole \o last
  BY <1>1, KeptHolds, TextsAppend DEF Holds
<1>3. <<id>> \in Seq(SentenceId) /\ Len(<<id>>) = 1
  OBVIOUS
<1>4. CASE acc.buf.size + size < ChunkSize
  <2> DEFINE buf == [sentences |-> Append(last, id), size |-> acc.buf.size + size]
  <2>1. next.chunks = acc.chunks /\ next.buf = buf /\ next
          = [chunks |-> acc.chunks, buf |-> buf]
    BY <1>1, <1>4 DEF AddSentence, Piece, Pieces
  <2>2. Append(last, id) = last \o <<id>> /\ Append(last, id) \in Seq(SentenceId)
        /\ Append(sentences, id) = sentences \o <<id>>
    BY <1>1, <1>2, AppendProperties, AppendIsConcat
  <2>3. whole \o (last \o <<id>>) = (whole \o last) \o <<id>>
    <3>1. whole \in Seq(SentenceId) /\ last \in Seq(SentenceId) /\ <<id>> \in Seq(SentenceId)
      BY <1>1, <1>2, <1>3
    <3> HIDE DEF whole, last
    <3> QED BY <3>1, ConcatAssociative
  <2>4. buf \in PieceRow /\ Fits(buf)
    BY <1>1, <1>4, <2>2 DEF PieceRow, Fits
  <2>5. next \in Pieces
    BY <1>1, <2>1, <2>4 DEF Pieces
  <2>6. whole \o buf.sentences = Append(sentences, id)
    BY <1>2, <2>2, <2>3
  <2> HIDE DEF buf, next
  <2> QED BY <2>1, <2>4, <2>5, <2>6 DEF Holds, next
<1>5. CASE ~(acc.buf.size + size < ChunkSize)
  <2> DEFINE buf == [sentences |-> <<id>>, size |-> size]
  <2>1. next = [chunks |-> Kept(acc), buf |-> buf]
    BY <1>5 DEF AddSentence, Piece, Kept
  <2>2. /\ Kept(acc) \in Seq(PieceRow) /\ Texts(Kept(acc)) = sentences
        /\ \A n \in 1..Len(Kept(acc)) : Fits(Kept(acc)[n])
    BY KeptHolds
  <2>3. buf \in PieceRow /\ Fits(buf)
    BY <1>3 DEF PieceRow, Fits
  <2>4. sentences \o buf.sentences = Append(sentences, id)
    BY <1>2, AppendIsConcat
  <2>5. next \in Pieces /\ next.chunks = Kept(acc) /\ next.buf = buf
    BY <2>1, <2>2, <2>3 DEF Pieces
  <2> HIDE DEF buf, next
  <2> QED BY <2>2, <2>3, <2>4, <2>5 DEF Holds, next
<1> QED BY <1>4, <1>5

\* Pieces stay pieces.
LEMMA SentencePieces ==
    ASSUME NEW acc \in Pieces, NEW id \in SentenceId, NEW size \in Nat
    PROVE  AddSentence(acc, id, size) \in Pieces /\ Kept(acc) \in Seq(PieceRow)
<1>1. acc.chunks \in Seq(PieceRow) /\ acc.buf \in PieceRow /\ acc.buf.size \in Nat
      /\ acc.buf.sentences \in Seq(SentenceId)
  BY DEF Pieces, PieceRow
<1>2. Append(acc.chunks, acc.buf) \in Seq(PieceRow)
      /\ Append(acc.buf.sentences, id) \in Seq(SentenceId)
  BY <1>1, AppendProperties
<1>3. Kept(acc) \in Seq(PieceRow)
  BY <1>1, <1>2 DEF Kept
<1>4. CASE acc.buf.size + size < ChunkSize
  <2> DEFINE buf == [sentences |-> Append(acc.buf.sentences, id), size |-> acc.buf.size + size]
  <2>1. AddSentence(acc, id, size) = [chunks |-> acc.chunks, buf |-> buf]
    BY <1>1, <1>4 DEF AddSentence, Piece, Pieces
  <2>2. buf \in PieceRow
    BY <1>1, <1>2 DEF PieceRow
  <2> QED BY <1>1, <1>3, <2>1, <2>2 DEF Pieces
<1>5. CASE ~(acc.buf.size + size < ChunkSize)
  <2> DEFINE buf == [sentences |-> <<id>>, size |-> size]
  <2>1. AddSentence(acc, id, size) = [chunks |-> Kept(acc), buf |-> buf]
    BY <1>5 DEF AddSentence, Piece, Kept
  <2>2. buf \in PieceRow
    BY DEF PieceRow
  <2> QED BY <1>3, <2>1, <2>2 DEF Pieces
<1> QED BY <1>4, <1>5

\* The sentences of a paragraph, and the loop over them, of which order names the sentences.
Ids(p, paragraph) == [s \in DOMAIN paragraph |-> <<p, s>>]

Started(chunks) == [chunks |-> chunks, buf |-> Nothing]
SentenceLoop(chunks, p, paragraph, order) ==
    FoldLeft(LAMBDA acc, s : AddSentence(acc, <<p, s>>, paragraph[s]), Started(chunks), order)

\* The loop over sentences starts with an empty piece.
LEMMA StartedPieces ==
    ASSUME NEW chunks \in Seq(PieceRow)
    PROVE  Started(chunks) \in Pieces /\ Nothing \in PieceRow /\ Fits(Nothing)
           /\ Nothing.sentences = <<>> /\ Nothing.size = 0
<1>1. <<>> \in Seq(SentenceId)
  OBVIOUS
<1>2. Nothing = [sentences |-> <<>>, size |-> 0]
  BY DEF Nothing, Piece
<1> QED BY <1>1, <1>2, RetrievalAssumption DEF Started, Pieces, PieceRow, Fits

\* The pieces after each sentence.
LEMMA SentenceSteps ==
    ASSUME NEW chunks \in Seq(PieceRow), NEW p \in Int, NEW paragraph \in Seq(Nat \ {0}),
           NEW order \in Seq(Int), Len(order) = Len(paragraph),
           \A k \in 1..Len(order) : order[k] = k
    PROVE  \E F \in [0..Len(order) -> Pieces] :
              /\ F[0] = Started(chunks)
              /\ \A k \in 1..Len(order) : F[k]
                   = AddSentence(F[k - 1], <<p, order[k]>>, paragraph[order[k]])
              /\ SentenceLoop(chunks, p, paragraph, order) = F[Len(order)]
<1> DEFINE n == Len(order)
           base == Started(chunks)
           step == [q \in (1..n) \X Pieces |->
                       AddSentence(q[2], <<p, order[q[1]]>>, paragraph[order[q[1]]])]
           Eqn(h) == h = [s \in SUBSET (1..n) |->
                            IF s = {} THEN base
                            ELSE AddSentence(h[s \ {Max(s)}], <<p, order[Max(s)]>>,
                              paragraph[order[Max(s)]])]
           iter == CHOOSE h : Eqn(h)
<1>1. n \in Nat /\ DOMAIN order = 1..n
      /\ \A k \in 1..n : order[k] = k /\ order[k] \in Int /\ paragraph[order[k]] \in Nat \ {0}
  <2>1. \A k \in 1..Len(paragraph) : paragraph[k] \in Nat \ {0}
    BY ElementOfSeq
  <2> QED BY <2>1, LenProperties
<1>2. base \in Pieces /\ step \in [(1..n) \X Pieces -> Pieces]
  <2>1. base \in Pieces
    BY StartedPieces
  <2>2. \A a \in Pieces, k \in 1..n :
           AddSentence(a, <<p, order[k]>>, paragraph[order[k]]) \in Pieces
    <3> SUFFICES ASSUME NEW a \in Pieces, NEW k \in 1..n
                 PROVE  AddSentence(a, <<p, order[k]>>, paragraph[order[k]]) \in Pieces
      OBVIOUS
    <3>1. <<p, order[k]>> \in SentenceId /\ paragraph[order[k]] \in Nat
      BY <1>1 DEF SentenceId
    <3> QED BY <3>1, SentencePieces
  <2> QED BY <2>1, <2>2
<1>3. SentenceLoop(chunks, p, paragraph, order) = iter[1..n]
  BY <1>1 DEF SentenceLoop, FoldLeft, MapThenFoldSet
<1>4. \E h : Eqn(h)
  <2>1. PICK h \in [SUBSET (1..n) -> Pieces] : IsTable(h, n, base, step)
    <3>1. n \in Nat
      BY <1>1
    <3> HIDE DEF step, n, base
    <3> QED BY <3>1, <1>2, FoldTable
  <2>2. ASSUME NEW s \in SUBSET (1..n), s # {}
        PROVE  step[<<Max(s), h[s \ {Max(s)}]>>]
                 = AddSentence(h[s \ {Max(s)}], <<p, order[Max(s)]>>, paragraph[order[Max(s)]])
    <3>1. Max(s) \in 1..n
      BY <1>1, <2>2, MaxIsIn
    <3>2. h[s \ {Max(s)}] \in Pieces
      BY <2>1
    <3> QED BY <3>1, <3>2
  <2>3. Eqn(h)
    <3> HIDE DEF step, n, base
    <3> QED BY <2>1, <2>2 DEF IsTable
  <2> QED BY <2>3
<1>5. Eqn(iter)
  <2> HIDE DEF Eqn
  <2> QED BY <1>4
<1>6. Follows(iter, n, Pieces, base, step)
  <2> HIDE DEF iter, base
  <2>1. \A s \in SUBSET (1..n) :
           iter[s] = IF s = {} THEN base
                     ELSE AddSentence(iter[s \ {Max(s)}], <<p, order[Max(s)]>>,
                       paragraph[order[Max(s)]])
    BY <1>5
  <2>2. \A s \in SUBSET (1..n) : s # {} => Max(s) \in 1..n
    BY <1>1, MaxIsIn
  <2> QED BY <1>1, <1>2, <2>1, <2>2 DEF Follows
<1> HIDE DEF iter, step, n, base, Eqn
<1>7. PICK F \in [0..n -> Pieces] : IsWalk(F, n, base, step) /\ F[n] = iter[1..n]
  BY <1>6, FoldWalk
<1>8. \A k \in 1..n : F[k - 1] \in Pieces
        /\ step[<<k, F[k - 1]>>] = AddSentence(F[k - 1], <<p, order[k]>>, paragraph[order[k]])
  BY <1>1, <1>7 DEF step
<1> QED BY <1>3, <1>7, <1>8 DEF n, base, IsWalk

FirstIds(p, k) == [s \in 1..k |-> <<p, s>>]

\* The sentences of a paragraph, one after the other.
LEMMA OneMoreId ==
    ASSUME NEW p \in Int, NEW n \in Nat, NEW k \in 1..n, NEW sentences \in Seq(SentenceId)
    PROVE  /\ <<p, k>> \in SentenceId /\ FirstIds(p, k) \in Seq(SentenceId)
           /\ FirstIds(p, 0) = <<>>
           /\ Append(sentences \o FirstIds(p, k - 1), <<p, k>>) = sentences \o FirstIds(p, k)
<1> DEFINE first == FirstIds(p, k - 1)
           id == <<p, k>>
<1>1. id \in SentenceId /\ k \in Nat /\ k - 1 \in Nat
  BY DEF SentenceId
<1>2. first \in Seq(SentenceId) /\ Len(first) = k - 1 /\ FirstIds(p, k) \in Seq(SentenceId)
      /\ Len(FirstIds(p, k)) = k
  BY <1>1 DEF FirstIds, SentenceId
<1>3. Append(first, id) = FirstIds(p, k)
  <2>1. /\ Append(first, id) \in Seq(SentenceId) /\ Len(Append(first, id)) = k
        /\ Append(first, id)[k] = id /\ \A s \in 1..(k - 1) : Append(first, id)[s] = first[s]
    <3> HIDE DEF first, id
    <3>1. Len(first) + 1 = k
      BY <1>1, <1>2
    <3> QED BY <1>1, <1>2, <3>1, AppendProperties
  <2>2. \A s \in 1..k : s = k \/ s \in 1..(k - 1)
    BY <1>1
  <2>3. (\A s \in 1..(k - 1) : first[s] = <<p, s>>) /\ \A s \in 1..k : FirstIds(p, k)[s]
          = <<p, s>>
    BY DEF FirstIds
  <2>4. \A s \in 1..k : Append(first, id)[s] = FirstIds(p, k)[s]
    BY <2>1, <2>2, <2>3
  <2> HIDE DEF first, id
  <2> QED BY <1>2, <2>1, <2>4, SeqEqual
<1>4. Append(sentences \o first, id) = (sentences \o first) \o <<id>>
      /\ Append(first, id) = first \o <<id>>
  <2> HIDE DEF first, id
  <2>1. sentences \o first \in Seq(SentenceId)
    BY <1>2, ConcatProperties
  <2> QED BY <1>1, <1>2, <2>1, AppendIsConcat
<1>5. (sentences \o first) \o <<id>> = sentences \o (first \o <<id>>)
  <2> HIDE DEF first, id
  <2>1. <<id>> \in Seq(SentenceId)
    BY <1>1
  <2> QED BY <1>2, <2>1, ConcatAssociative
<1>6. FirstIds(p, 0) = <<>>
  <2>1. 1..0 = {}
    OBVIOUS
  <2>2. FirstIds(p, 0) \in Seq(SentenceId) /\ Len(FirstIds(p, 0)) = 0
    BY <2>1 DEF FirstIds
  <2> QED BY <2>2, EmptySeq
<1> QED BY <1>1, <1>2, <1>3, <1>4, <1>5, <1>6

\* A paragraph that is cut at its sentences keeps them all.
LEMMA ParagraphSplit ==
    ASSUME NEW chunks \in Seq(PieceRow), NEW sentences \in Seq(SentenceId),
           Texts(chunks) = sentences, \A n \in 1..Len(chunks) : Fits(chunks[n]),
           NEW p \in Int, NEW paragraph \in Seq(Nat \ {0})
    PROVE  Holds(SplitParagraph(chunks, p, paragraph), sentences \o Ids(p, paragraph))
<1> DEFINE n == Len(paragraph)
           order == [s \in DOMAIN paragraph |-> s]
<1>1. n \in Nat /\ DOMAIN paragraph = 1..n /\ \A k \in 1..n : paragraph[k] \in Nat \ {0}
  BY LenProperties, ElementOfSeq
<1>2. order \in Seq(Int) /\ Len(order) = n /\ \A k \in 1..n : order[k] = k
  BY <1>1
<1>3. SplitParagraph(chunks, p, paragraph) = SentenceLoop(chunks, p, paragraph, order)
  BY DEF SplitParagraph, FoldLeftDomain, SentenceLoop, Started
<1> HIDE DEF order
<1>4. PICK F \in [0..n -> Pieces] :
         /\ F[0] = Started(chunks)
         /\ \A k \in 1..n :
               F[k] = AddSentence(F[k - 1], <<p, order[k]>>, paragraph[order[k]])
         /\ SentenceLoop(chunks, p, paragraph, order) = F[n]
  <2>1. Len(order) = Len(paragraph) /\ \A k \in 1..Len(order) : order[k] = k
    BY <1>2
  <2>2. \E F \in [0..Len(order) -> Pieces] :
         /\ F[0] = Started(chunks)
         /\ \A k \in 1..Len(order) :
               F[k] = AddSentence(F[k - 1], <<p, order[k]>>, paragraph[order[k]])
         /\ SentenceLoop(chunks, p, paragraph, order) = F[Len(order)]
    BY <1>2, <2>1, SentenceSteps
  <2> HIDE DEF n
  <2> QED BY <1>2, <2>2
<1> HIDE DEF n
<1> DEFINE P == {k \in 0..n : Holds(F[k], sentences \o FirstIds(p, k))}
<1>5. 0 \in P
  <2>1. sentences \o <<>> = sentences
    BY ConcatEmptySeq
  <2>2. FirstIds(p, 0) = <<>>
    <3>1. 1 \in Nat /\ 1 \in 1..1
      OBVIOUS
    <3> QED BY <3>1, OneMoreId
  <2>3. Holds(Started(chunks), sentences)
    <3>1. Started(chunks).chunks = chunks /\ Started(chunks).buf = Nothing
      BY DEF Started
    <3> QED BY <2>1, <3>1, StartedPieces DEF Holds
  <2>4. F[0] = Started(chunks) /\ sentences \o FirstIds(p, 0) = sentences
    BY <1>4, <2>1, <2>2
  <2>5. 0 \in 0..n
    BY <1>1
  <2> QED BY <2>3, <2>4, <2>5
<1>6. ASSUME NEW k \in 1..n, k - 1 \in P PROVE k \in P
  <2>1. Holds(F[k - 1], sentences \o FirstIds(p, k - 1))
    BY <1>6
  <2>2. F[k] = AddSentence(F[k - 1], <<p, k>>, paragraph[k]) /\ paragraph[k] \in Nat \ {0}
    BY <1>1, <1>2, <1>4
  <2>3. /\ <<p, k>> \in SentenceId
        /\ Append(sentences \o FirstIds(p, k - 1), <<p, k>>) = sentences \o FirstIds(p, k)
    BY <1>1, OneMoreId
  <2>4. Holds(AddSentence(F[k - 1], <<p, k>>, paragraph[k]),
              Append(sentences \o FirstIds(p, k - 1), <<p, k>>))
    BY <2>1, <2>2, <2>3, SentenceAdded
  <2>5. k \in 0..n
    BY <1>1
  <2> QED BY <2>2, <2>3, <2>4, <2>5
<1>7. n \in P
  <2>1. n \in 0..n
    BY <1>1
  <2> HIDE DEF P
  <2> QED BY <1>1, <1>5, <1>6, <2>1, UpTo
<1>8. FirstIds(p, n) = Ids(p, paragraph)
  BY <1>1 DEF FirstIds, Ids
<1> QED BY <1>3, <1>4, <1>7, <1>8

\* Only a paragraph without a sentence has no length.
LEMMA TotalOfParagraph ==
    ASSUME NEW paragraph \in Seq(Nat \ {0})
    PROVE  Total(paragraph) \in Nat /\ (Total(paragraph) = 0 => paragraph = <<>>)
<1> DEFINE n == Len(paragraph)
<1>1. n \in Nat /\ (n = 0 => paragraph = <<>>) /\ \A k \in 1..n : paragraph[k] \in Nat \ {0}
  BY LenProperties, ElementOfSeq, EmptySeq
<1>2. paragraph \in Seq(Int)
  OBVIOUS
<1>3. PICK F \in [0..n -> Int] :
         /\ F[0] = 0 /\ \A k \in 1..n : F[k] = F[k - 1] + paragraph[k]
         /\ Total(paragraph) = F[n]
  BY <1>2, TotalSteps
<1> HIDE DEF n
<1> DEFINE P == {k \in 0..n : F[k] >= k}
<1>4. 0 \in P
  BY <1>1, <1>3
<1>5. \A k \in 1..n : k - 1 \in P => k \in P
  <2> SUFFICES ASSUME NEW k \in 1..n, k - 1 \in P PROVE k \in P
    OBVIOUS
  <2>1. /\ F[k - 1] \in Int /\ F[k] = F[k - 1] + paragraph[k] /\ paragraph[k] \in Nat \ {0}
        /\ F[k - 1] >= k - 1 /\ k \in 0..n
    BY <1>1, <1>3
  <2> QED BY <2>1
<1>6. n \in P
  <2>1. n \in 0..n
    BY <1>1
  <2> HIDE DEF P
  <2> QED BY <1>1, <1>4, <1>5, <2>1, UpTo
<1>7. F[n] \in Int /\ F[n] >= n
  BY <1>1, <1>3, <1>6
<1> QED BY <1>1, <1>3, <1>7

\* A paragraph is added at the end.
LEMMA ParagraphAdded ==
    ASSUME NEW acc, NEW sentences, Holds(acc, sentences),
           NEW p \in Int, NEW paragraph \in Seq(Nat \ {0})
    PROVE  Holds(AddParagraph(acc, p, paragraph), sentences \o Ids(p, paragraph))
<1> DEFINE ids == Ids(p, paragraph)
           total == Total(paragraph)
           whole == [sentences |-> ids, size |-> total]
           next == AddParagraph(acc, p, paragraph)
<1>1. /\ acc \in Pieces /\ acc.chunks \in Seq(PieceRow) /\ acc.buf \in PieceRow
      /\ acc.buf.size \in Nat /\ acc.buf.sentences \in Seq(SentenceId)
      /\ Texts(acc.chunks) \in Seq(SentenceId) /\ ChunkSize \in Nat
      /\ sentences = Texts(acc.chunks) \o acc.buf.sentences
  BY RetrievalAssumption, TextsAppend DEF Holds, Pieces, PieceRow
<1>2. /\ Kept(acc) \in Seq(PieceRow) /\ Texts(Kept(acc)) = sentences
      /\ sentences \in Seq(SentenceId) /\ \A n \in 1..Len(Kept(acc)) : Fits(Kept(acc)[n])
  BY KeptHolds
<1>3. total \in Nat /\ (total = 0 => paragraph = <<>>)
  BY TotalOfParagraph
<1>4. ids \in Seq(SentenceId) /\ (paragraph = <<>> => ids = <<>>)
  <2>1. DOMAIN paragraph = 1..Len(paragraph) /\ Len(paragraph) \in Nat
    BY LenProperties
  <2>2. ids \in Seq(SentenceId) /\ Len(ids) = Len(paragraph)
    BY <2>1 DEF Ids, SentenceId
  <2>3. paragraph = <<>> => Len(paragraph) = 0
    BY EmptySeq
  <2> QED BY <2>2, <2>3, EmptySeq
<1>5. next = IF acc.buf.size + total < ChunkSize
             THEN [acc EXCEPT !.buf =
                      IF acc.buf.size = 0 THEN whole
                      ELSE [sentences |-> acc.buf.sentences \o ids,
                            size |-> acc.buf.size + 1 + total]]
             ELSE IF total > ChunkSize THEN SplitParagraph(Kept(acc), p, paragraph)
                  ELSE [chunks |-> Kept(acc), buf |-> whole]
  BY DEF AddParagraph, Piece, Kept, Ids
<1>6. whole \in PieceRow
  BY <1>3, <1>4 DEF PieceRow
<1> HIDE DEF ids, total, next
<1>7. total <= ChunkSize => Fits(whole)
  BY <1>1, <1>3, <1>4 DEF Fits
<1>8. CASE acc.buf.size + total < ChunkSize /\ acc.buf.size = 0
  <2>1. next = [acc EXCEPT !.buf = whole]
    BY <1>5, <1>8
  <2>2. next \in Pieces /\ next.chunks = acc.chunks /\ next.buf = whole
    BY <1>1, <1>6, <2>1 DEF Pieces
  <2>3. acc.buf.sentences = <<>>
    BY <1>8 DEF Holds, Fits
  <2>4. sentences = Texts(acc.chunks)
    BY <1>1, <2>3, ConcatEmptySeq
  <2>5. Fits(whole)
    BY <1>1, <1>3, <1>7, <1>8
  <2>6. Texts(next.chunks) \o next.buf.sentences = sentences \o ids
    <3>1. next.buf.sentences = ids
      BY <2>2
    <3>2. Texts(next.chunks) = sentences
      <4> HIDE DEF whole
      <4> QED BY <2>2, <2>4
    <3> QED BY <3>1, <3>2, Zenon
  <2> QED BY <2>2, <2>5, <2>6 DEF Holds, next, ids
<1>9. CASE acc.buf.size + total < ChunkSize /\ acc.buf.size # 0
  <2> DEFINE last == acc.buf.sentences
             buf == [sentences |-> last \o ids, size |-> acc.buf.size + 1 + total]
  <2>1. next = [acc EXCEPT !.buf = buf]
    BY <1>5, <1>9
  <2>2. last \o ids \in Seq(SentenceId)
    BY <1>1, <1>4, ConcatProperties
  <2>3. buf \in PieceRow /\ Fits(buf)
    BY <1>1, <1>3, <1>9, <2>2 DEF PieceRow, Fits
  <2>4. next \in Pieces /\ next.chunks = acc.chunks /\ next.buf = buf
    BY <1>1, <2>1, <2>3 DEF Pieces
  <2>5. Texts(acc.chunks) \o (last \o ids) = (Texts(acc.chunks) \o last) \o ids
    <3> DEFINE before == Texts(acc.chunks)
    <3>1. before \in Seq(SentenceId) /\ last \in Seq(SentenceId) /\ ids \in Seq(SentenceId)
      BY <1>1, <1>4
    <3> HIDE DEF before, last
    <3>2. before \o (last \o ids) = (before \o last) \o ids
      BY <3>1, ConcatAssociative
    <3> QED BY <3>2 DEF before
  <2>6. Texts(next.chunks) \o next.buf.sentences = sentences \o ids
    <3>1. next.buf.sentences = last \o ids
      BY <2>4
    <3>2. Texts(next.chunks) = Texts(acc.chunks) /\ sentences = Texts(acc.chunks) \o last
      <4> HIDE DEF buf
      <4> QED BY <1>1, <2>4
    <3> HIDE DEF last
    <3> QED BY <2>5, <3>1, <3>2, Zenon
  <2> HIDE DEF buf
  <2> QED BY <2>3, <2>4, <2>6 DEF Holds, next, ids
<1>10. CASE ~(acc.buf.size + total < ChunkSize) /\ total > ChunkSize
  <2>1. next = SplitParagraph(Kept(acc), p, paragraph)
    BY <1>5, <1>10
  <2> QED BY <1>2, <2>1, ParagraphSplit DEF next
<1>11. CASE ~(acc.buf.size + total < ChunkSize) /\ ~(total > ChunkSize)
  <2>1. next = [chunks |-> Kept(acc), buf |-> whole]
    BY <1>5, <1>11
  <2>2. next \in Pieces /\ next.chunks = Kept(acc) /\ next.buf = whole
    BY <1>2, <1>6, <2>1 DEF Pieces
  <2>3. Fits(whole)
    BY <1>1, <1>3, <1>7, <1>11
  <2>4. Texts(next.chunks) \o next.buf.sentences = sentences \o ids
    BY <1>2, <2>2
  <2> QED BY <1>2, <2>2, <2>3, <2>4 DEF Holds, next, ids
<1> QED BY <1>8, <1>9, <1>10, <1>11

\* The loop over paragraphs, of which order names the paragraphs.
SoundPieces == {acc \in Pieces : \E sentences : Holds(acc, sentences)}

ParagraphLoop(paragraphs, order) ==
    FoldLeft(LAMBDA acc, p : AddParagraph(acc, p, paragraphs[p]), Started(<<>>), order)

\* At the start there are no sentences.
LEMMA NothingHeld == Holds(Started(<<>>), <<>>)
<1>1. <<>> \in Seq(PieceRow) /\ Len(<<>>) = 0 /\ <<>> \in Seq(SentenceId)
  OBVIOUS
<1>2. Started(<<>>) \in Pieces /\ Started(<<>>).chunks = <<>> /\ Started(<<>>).buf = Nothing
  BY <1>1, StartedPieces DEF Started
<1>3. Texts(<<>>) = <<>>
  <2>1. [n \in DOMAIN <<>> |-> (<<>>)[n].sentences] = <<>>
    OBVIOUS
  <2>2. FlattenSeq(<<>>) = <<>>
    BY <1>1 DEF FlattenSeq
  <2> QED BY <2>1, <2>2 DEF Texts
<1>4. <<>> \o <<>> = <<>>
  BY <1>1, ConcatEmptySeq
<1>5. /\ Fits(Started(<<>>).buf) /\ Started(<<>>).buf.sentences = <<>>
      /\ \A n \in 1..Len(Started(<<>>).chunks) : Fits(Started(<<>>).chunks[n])
  <2>1. Fits(Nothing) /\ Nothing.sentences = <<>>
    BY <1>1, StartedPieces
  <2>2. \A n \in 1..Len(<<>>) : FALSE
    BY <1>1
  <2> QED BY <1>2, <2>1, <2>2
<1>6. Texts(Started(<<>>).chunks) \o Started(<<>>).buf.sentences = <<>>
  BY <1>2, <1>3, <1>4, <1>5
<1> QED BY <1>2, <1>5, <1>6 DEF Holds

\* The pieces after each paragraph.
LEMMA ParagraphSteps ==
    ASSUME NEW paragraphs \in Seq(Seq(Nat \ {0})),
           NEW order \in Seq(Int), Len(order) = Len(paragraphs),
           \A k \in 1..Len(order) : order[k] = k
    PROVE  \E F \in [0..Len(order) -> SoundPieces] :
              /\ F[0] = Started(<<>>)
              /\ \A k \in 1..Len(order) : F[k]
                   = AddParagraph(F[k - 1], order[k], paragraphs[order[k]])
              /\ ParagraphLoop(paragraphs, order) = F[Len(order)]
<1> DEFINE n == Len(order)
           base == Started(<<>>)
           step == [q \in (1..n) \X SoundPieces |->
                       AddParagraph(q[2], order[q[1]], paragraphs[order[q[1]]])]
           Eqn(h) == h = [s \in SUBSET (1..n) |->
                            IF s = {} THEN base
                            ELSE AddParagraph(h[s \ {Max(s)}], order[Max(s)],
                              paragraphs[order[Max(s)]])]
           iter == CHOOSE h : Eqn(h)
<1>1. n \in Nat /\ DOMAIN order = 1..n
      /\ \A k \in 1..n : order[k] = k /\ order[k] \in Int
                          /\ paragraphs[order[k]] \in Seq(Nat \ {0})
  <2>1. \A k \in 1..Len(paragraphs) : paragraphs[k] \in Seq(Nat \ {0})
    BY ElementOfSeq
  <2> QED BY <2>1, LenProperties
<1>2. base \in SoundPieces /\ step \in [(1..n) \X SoundPieces -> SoundPieces]
  <2>1. base \in SoundPieces
    BY NothingHeld DEF SoundPieces, Holds
  <2>2. \A a \in SoundPieces, k \in 1..n :
           AddParagraph(a, order[k], paragraphs[order[k]]) \in SoundPieces
    <3> SUFFICES ASSUME NEW a \in SoundPieces, NEW k \in 1..n
                 PROVE  AddParagraph(a, order[k], paragraphs[order[k]]) \in SoundPieces
      OBVIOUS
    <3>1. PICK sentences : Holds(a, sentences)
      BY DEF SoundPieces
    <3>2. Holds(AddParagraph(a, order[k], paragraphs[order[k]]),
                sentences \o Ids(order[k], paragraphs[order[k]]))
      BY <1>1, <3>1, ParagraphAdded
    <3> QED BY <3>2 DEF SoundPieces, Holds
  <2> QED BY <2>1, <2>2
<1>3. ParagraphLoop(paragraphs, order) = iter[1..n]
  BY <1>1 DEF ParagraphLoop, FoldLeft, MapThenFoldSet
<1>4. \E h : Eqn(h)
  <2>1. PICK h \in [SUBSET (1..n) -> SoundPieces] : IsTable(h, n, base, step)
    <3>1. n \in Nat
      BY <1>1
    <3> HIDE DEF step, n, base
    <3> QED BY <3>1, <1>2, FoldTable
  <2>2. ASSUME NEW s \in SUBSET (1..n), s # {}
        PROVE  step[<<Max(s), h[s \ {Max(s)}]>>]
                 = AddParagraph(h[s \ {Max(s)}], order[Max(s)], paragraphs[order[Max(s)]])
    <3>1. Max(s) \in 1..n
      BY <1>1, <2>2, MaxIsIn
    <3>2. h[s \ {Max(s)}] \in SoundPieces
      BY <2>1
    <3> QED BY <3>1, <3>2
  <2>3. Eqn(h)
    <3> HIDE DEF step, n, base
    <3> QED BY <2>1, <2>2 DEF IsTable
  <2> QED BY <2>3
<1>5. Eqn(iter)
  <2> HIDE DEF Eqn
  <2> QED BY <1>4
<1>6. Follows(iter, n, SoundPieces, base, step)
  <2> HIDE DEF iter, base
  <2>1. \A s \in SUBSET (1..n) :
           iter[s] = IF s = {} THEN base
                     ELSE AddParagraph(iter[s \ {Max(s)}], order[Max(s)],
                       paragraphs[order[Max(s)]])
    BY <1>5
  <2>2. \A s \in SUBSET (1..n) : s # {} => Max(s) \in 1..n
    BY <1>1, MaxIsIn
  <2> QED BY <1>1, <1>2, <2>1, <2>2 DEF Follows
<1> HIDE DEF iter, step, n, base, Eqn
<1>7. PICK F \in [0..n -> SoundPieces] : IsWalk(F, n, base, step) /\ F[n] = iter[1..n]
  BY <1>6, FoldWalk
<1>8. \A k \in 1..n : F[k - 1] \in SoundPieces
        /\ step[<<k, F[k - 1]>>] = AddParagraph(F[k - 1], order[k], paragraphs[order[k]])
  BY <1>1, <1>7 DEF step
<1> QED BY <1>3, <1>7, <1>8 DEF n, base, IsWalk

\* The sentences of a document.
Document(paragraphs) == FlattenSeq([p \in DOMAIN paragraphs |-> Ids(p, paragraphs[p])])

Loop(paragraphs) == ParagraphLoop(paragraphs, [p \in DOMAIN paragraphs |-> p])

\* The loop over a document keeps all its sentences in order.
LEMMA LoopHolds ==
    ASSUME NEW paragraphs \in Seq(Seq(Nat \ {0}))
    PROVE  Holds(Loop(paragraphs), Document(paragraphs))
<1> DEFINE n == Len(paragraphs)
           order == [p \in DOMAIN paragraphs |-> p]
           rows == [p \in DOMAIN paragraphs |-> Ids(p, paragraphs[p])]
<1>1. n \in Nat /\ DOMAIN paragraphs = 1..n /\ \A k \in 1..n : paragraphs[k] \in Seq(Nat \ {0})
  BY LenProperties, ElementOfSeq
<1>2. order \in Seq(Int) /\ Len(order) = n /\ \A k \in 1..n : order[k] = k
  BY <1>1
<1>3. rows \in Seq(Seq(SentenceId)) /\ Len(rows) = n
      /\ \A k \in 1..n : rows[k] = Ids(k, paragraphs[k])
  <2>1. ASSUME NEW k \in 1..n PROVE Ids(k, paragraphs[k]) \in Seq(SentenceId)
    <3>1. /\ DOMAIN paragraphs[k] = 1..Len(paragraphs[k]) /\ Len(paragraphs[k]) \in Nat
      BY <1>1, LenProperties
    <3> QED BY <3>1 DEF Ids, SentenceId
  <2> QED BY <1>1, <2>1
<1> HIDE DEF order, rows
<1>4. PICK F \in [0..n -> SoundPieces] :
         /\ F[0] = Started(<<>>)
         /\ \A k \in 1..n : F[k] = AddParagraph(F[k - 1], order[k], paragraphs[order[k]])
         /\ ParagraphLoop(paragraphs, order) = F[n]
  <2>1. Len(order) = Len(paragraphs) /\ \A k \in 1..Len(order) : order[k] = k
    BY <1>2
  <2>2. \E F \in [0..Len(order) -> SoundPieces] :
         /\ F[0] = Started(<<>>)
         /\ \A k \in 1..Len(order) :
               F[k] = AddParagraph(F[k - 1], order[k], paragraphs[order[k]])
         /\ ParagraphLoop(paragraphs, order) = F[Len(order)]
    BY <1>2, <2>1, ParagraphSteps
  <2> HIDE DEF n
  <2> QED BY <1>2, <2>2
<1>5. PICK G \in [0..n -> Seq(SentenceId)] :
         /\ G[0] = <<>> /\ \A k \in 1..n : G[k] = G[k - 1] \o rows[k]
         /\ FlattenSeq(rows) = G[n]
  <2>1. \E G \in [0..Len(rows) -> Seq(SentenceId)] :
         /\ G[0] = <<>> /\ \A k \in 1..Len(rows) : G[k] = G[k - 1] \o rows[k]
         /\ FlattenSeq(rows) = G[Len(rows)]
    BY <1>3, FlattenSteps
  <2> HIDE DEF n
  <2> QED BY <1>3, <2>1
<1> HIDE DEF n
<1> DEFINE P == {k \in 0..n : Holds(F[k], G[k])}
<1>6. 0 \in P
  BY <1>1, <1>4, <1>5, NothingHeld
<1>7. ASSUME NEW k \in 1..n, k - 1 \in P PROVE k \in P
  <2>1. Holds(F[k - 1], G[k - 1])
    BY <1>7
  <2>2. /\ F[k] = AddParagraph(F[k - 1], k, paragraphs[k])
        /\ G[k] = G[k - 1] \o Ids(k, paragraphs[k])
        /\ paragraphs[k] \in Seq(Nat \ {0}) /\ k \in Int /\ k \in 0..n
    <3>1. F[k] = AddParagraph(F[k - 1], k, paragraphs[k])
      BY <1>2, <1>4
    <3>2. G[k] = G[k - 1] \o Ids(k, paragraphs[k])
      BY <1>3, <1>5
    <3>3. paragraphs[k] \in Seq(Nat \ {0}) /\ k \in Int /\ k \in 0..n
      BY <1>1
    <3> QED BY <3>1, <3>2, <3>3
  <2>3. Holds(AddParagraph(F[k - 1], k, paragraphs[k]), G[k - 1] \o Ids(k, paragraphs[k]))
    BY <2>1, <2>2, ParagraphAdded
  <2> QED BY <2>2, <2>3
<1>8. n \in P
  <2>1. n \in 0..n
    BY <1>1
  <2> HIDE DEF P
  <2> QED BY <1>1, <1>6, <1>7, <2>1, UpTo
<1>9. Loop(paragraphs) = F[n] /\ Document(paragraphs) = G[n]
  BY <1>4, <1>5 DEF Loop, Document, order, rows
<1> QED BY <1>8, <1>9

\* The chunks of a document.
LEMMA SplitHolds ==
    ASSUME NEW paragraphs \in Seq(Seq(Nat \ {0}))
    PROVE  LET chunks == SplitText(paragraphs) IN
           /\ FlattenSeq([n \in DOMAIN chunks |-> chunks[n].sentences]) = Document(paragraphs)
           /\ \A n \in DOMAIN chunks :
                 chunks[n].size > ChunkSize => Len(chunks[n].sentences) = 1
<1> DEFINE loop == Loop(paragraphs)
           kept == Kept(loop)
           chunks == SplitText(paragraphs)
           stored(n) == IF n = 1 \/ ChunkOverlap = 0 THEN kept[n].size
                        ELSE Min({kept[n - 1].size, ChunkOverlap}) + 1 + kept[n].size
<1>1. /\ kept \in Seq(PieceRow) /\ Texts(kept) = Document(paragraphs)
      /\ \A n \in 1..Len(kept) : Fits(kept[n])
  BY LoopHolds, KeptHolds
<1>2. chunks = [n \in DOMAIN kept |-> [sentences |-> kept[n].sentences, size |-> kept[n].size,
                                       stored |-> stored(n)]]
  BY DEF SplitText, FoldLeftDomain, Loop, ParagraphLoop, Started, Kept
<1> HIDE DEF kept, chunks, stored
<1>3. DOMAIN chunks = DOMAIN kept /\ DOMAIN kept = 1..Len(kept)
      /\ \A n \in DOMAIN kept : chunks[n].sentences = kept[n].sentences
                                /\ chunks[n].size = kept[n].size
  BY <1>1, <1>2, LenProperties
<1>4. [n \in DOMAIN chunks |-> chunks[n].sentences] = [n \in DOMAIN kept |-> kept[n].sentences]
  BY <1>3
<1>5. FlattenSeq([n \in DOMAIN chunks |-> chunks[n].sentences]) = Document(paragraphs)
  BY <1>1, <1>4 DEF Texts
<1>6. \A n \in DOMAIN chunks : chunks[n].size > ChunkSize => Len(chunks[n].sentences) = 1
  BY <1>1, <1>3 DEF Fits
<1> QED BY <1>5, <1>6 DEF chunks

\* (split_text) ChunksKeepText in every behaviour.
THEOREM ChunksKeepTextAlways == RetrievalSpec => []ChunksKeepText
<1>1. RetrievalInit => ChunksKeepText
  BY DEF RetrievalInit, ChunksKeepText, Looked
<1>2. ChunksKeepText /\ [RetrievalNext]_retrievalVars => ChunksKeepText'
  <2> SUFFICES ASSUME ChunksKeepText, [RetrievalNext]_retrievalVars PROVE ChunksKeepText'
    OBVIOUS
  <2>1. ASSUME NEW paragraphs \in Paragraphs,
               lookup' = [kind |-> "document", paragraphs |-> paragraphs],
               outcome' = SplitText(paragraphs)
        PROVE  ChunksKeepText'
    <3>1. paragraphs \in Seq(Seq(Nat \ {0}))
      BY RetrievalAssumption
    <3>2. lookup'.paragraphs = paragraphs
      BY <2>1
    <3>3. /\ FlattenSeq([n \in DOMAIN outcome' |-> outcome'[n].sentences])
               = FlattenSeq([p \in DOMAIN paragraphs |->
                                [s \in DOMAIN paragraphs[p] |-> <<p, s>>]])
          /\ \A n \in DOMAIN outcome' :
                outcome'[n].size > ChunkSize => Len(outcome'[n].sentences) = 1
      BY <2>1, <3>1, SplitHolds DEF Document, Ids
    <3> QED BY <3>2, <3>3 DEF ChunksKeepText
  <2>2. ASSUME NEW table \in ChunkTables, NEW worded \in TextMatches(table),
               lookup' = [kind |-> "question", table |-> table, text |-> worded]
        PROVE  ChunksKeepText'
    <3>1. lookup'.kind # "document"
      BY <2>2
    <3> QED BY <3>1 DEF ChunksKeepText, Looked
  <2>3. CASE UNCHANGED <<lookup, outcome>>
    BY <2>3 DEF ChunksKeepText, Looked
  <2> QED BY <2>1, <2>2, <2>3, RetrievalSteps
<1> QED BY <1>1, <1>2, PTL DEF RetrievalSpec

-----------------------------------------------------------------------------
(* Extraction: the two ways in *)

Candidate == [content : Sentence, evidence : Sentence, confidence : Nat]
Message == [sentences : Seq(Sentence), broken : BOOLEAN]

\* One turn of the loops of deterministic_candidates and validate_and_filter_candidates.
TakeLocal(acc, s) ==
    IF Len(acc) < LocalLimit /\ LocalSentence(s) THEN Append(acc, Local(s)) ELSE acc

TakeAccepted(acc, c, message, threshold) ==
    IF Accepts(c, message, threshold) THEN Append(acc, c) ELSE acc

\* What the loops make of all the sentences, and of all the candidates.
LocalOnes(sentences) ==
    FoldLeft(LAMBDA acc, s : IF Len(acc) < LocalLimit /\ LocalSentence(s)
                             THEN Append(acc, Local(s)) ELSE acc,
             <<>>, sentences)

Accepted(raw, message, threshold) ==
    FoldLeft(LAMBDA acc, c : IF Accepts(c, message, threshold) THEN Append(acc, c) ELSE acc,
             <<>>, raw)

\* The local candidates after each sentence.
LEMMA LocalSteps ==
    ASSUME NEW sentences \in Seq(Sentence)
    PROVE  \E F \in [0..Len(sentences) -> Seq(Candidate)] :
              /\ F[0] = <<>>
              /\ \A k \in 1..Len(sentences) : F[k] = TakeLocal(F[k - 1], sentences[k])
              /\ LocalOnes(sentences) = F[Len(sentences)]
<1> DEFINE n == Len(sentences)
           base == <<>>
           step == [q \in (1..n) \X Seq(Candidate) |-> TakeLocal(q[2], sentences[q[1]])]
           Eqn(h) == h = [s \in SUBSET (1..n) |->
                            IF s = {} THEN base
                            ELSE TakeLocal(h[s \ {Max(s)}], sentences[Max(s)])]
           iter == CHOOSE h : Eqn(h)
<1>1. n \in Nat /\ DOMAIN sentences = 1..n /\ \A k \in 1..n : sentences[k] \in Sentence
  BY LenProperties, ElementOfSeq
<1>2. base \in Seq(Candidate) /\ step \in [(1..n) \X Seq(Candidate) -> Seq(Candidate)]
  <2>1. <<>> \in Seq(Candidate)
    OBVIOUS
  <2>2. \A s \in Sentence : Local(s) \in Candidate
    BY DEF Local, Candidate
  <2>3. \A a \in Seq(Candidate), s \in Sentence : TakeLocal(a, s) \in Seq(Candidate)
    BY <2>2, AppendProperties DEF TakeLocal
  <2> QED BY <1>1, <2>1, <2>3
<1>3. LocalOnes(sentences) = iter[1..n]
  BY <1>1 DEF LocalOnes, FoldLeft, MapThenFoldSet, TakeLocal
<1>4. \E h : Eqn(h)
  <2>1. PICK h \in [SUBSET (1..n) -> Seq(Candidate)] : IsTable(h, n, base, step)
    <3>1. n \in Nat
      BY <1>1
    <3> HIDE DEF step, n, base
    <3> QED BY <3>1, <1>2, FoldTable
  <2>2. ASSUME NEW s \in SUBSET (1..n), s # {}
        PROVE  step[<<Max(s), h[s \ {Max(s)}]>>] = TakeLocal(h[s \ {Max(s)}], sentences[Max(s)])
    <3>1. Max(s) \in 1..n
      BY <1>1, <2>2, MaxIsIn
    <3>2. h[s \ {Max(s)}] \in Seq(Candidate)
      BY <2>1
    <3> QED BY <3>1, <3>2
  <2>3. Eqn(h)
    <3> HIDE DEF step, n, base
    <3> QED BY <2>1, <2>2 DEF IsTable
  <2> QED BY <2>3
<1>5. Eqn(iter)
  <2> HIDE DEF Eqn
  <2> QED BY <1>4
<1>6. Follows(iter, n, Seq(Candidate), base, step)
  <2> HIDE DEF iter, base
  <2>1. \A s \in SUBSET (1..n) :
           iter[s] = IF s = {} THEN base
                     ELSE TakeLocal(iter[s \ {Max(s)}], sentences[Max(s)])
    BY <1>5
  <2>2. \A s \in SUBSET (1..n) : s # {} => Max(s) \in 1..n
    BY <1>1, MaxIsIn
  <2> QED BY <1>1, <1>2, <2>1, <2>2 DEF Follows
<1> HIDE DEF iter, step, n, base, Eqn
<1>7. PICK F \in [0..n -> Seq(Candidate)] : IsWalk(F, n, base, step) /\ F[n] = iter[1..n]
  BY <1>6, FoldWalk
<1>8. \A k \in 1..n : F[k - 1] \in Seq(Candidate)
        /\ step[<<k, F[k - 1]>>] = TakeLocal(F[k - 1], sentences[k])
  BY <1>1, <1>7 DEF step
<1> QED BY <1>3, <1>7, <1>8 DEF n, base, IsWalk

\* The accepted candidates after each one.
LEMMA AcceptedSteps ==
    ASSUME NEW raw \in Seq(Candidate), NEW message, NEW threshold
    PROVE  \E F \in [0..Len(raw) -> Seq(Candidate)] :
              /\ F[0] = <<>>
              /\ \A k \in 1..Len(raw) : F[k]
                   = TakeAccepted(F[k - 1], raw[k], message, threshold)
              /\ Accepted(raw, message, threshold) = F[Len(raw)]
<1> DEFINE n == Len(raw)
           base == <<>>
           step == [q \in (1..n) \X Seq(Candidate) |->
                       TakeAccepted(q[2], raw[q[1]], message, threshold)]
           Eqn(h) == h = [s \in SUBSET (1..n) |->
                            IF s = {} THEN base
                            ELSE TakeAccepted(h[s \ {Max(s)}], raw[Max(s)], message, threshold)]
           iter == CHOOSE h : Eqn(h)
<1>1. n \in Nat /\ DOMAIN raw = 1..n /\ \A k \in 1..n : raw[k] \in Candidate
  BY LenProperties, ElementOfSeq
<1>2. base \in Seq(Candidate) /\ step \in [(1..n) \X Seq(Candidate) -> Seq(Candidate)]
  <2>1. <<>> \in Seq(Candidate)
    OBVIOUS
  <2>2. \A a \in Seq(Candidate), c \in Candidate :
           TakeAccepted(a, c, message, threshold) \in Seq(Candidate)
    BY AppendProperties DEF TakeAccepted
  <2> QED BY <1>1, <2>1, <2>2
<1>3. Accepted(raw, message, threshold) = iter[1..n]
  BY <1>1 DEF Accepted, FoldLeft, MapThenFoldSet, TakeAccepted
<1>4. \E h : Eqn(h)
  <2>1. PICK h \in [SUBSET (1..n) -> Seq(Candidate)] : IsTable(h, n, base, step)
    <3>1. n \in Nat
      BY <1>1
    <3> HIDE DEF step, n, base
    <3> QED BY <3>1, <1>2, FoldTable
  <2>2. ASSUME NEW s \in SUBSET (1..n), s # {}
        PROVE  step[<<Max(s), h[s \ {Max(s)}]>>]
                 = TakeAccepted(h[s \ {Max(s)}], raw[Max(s)], message, threshold)
    <3>1. Max(s) \in 1..n
      BY <1>1, <2>2, MaxIsIn
    <3>2. h[s \ {Max(s)}] \in Seq(Candidate)
      BY <2>1
    <3> QED BY <3>1, <3>2
  <2>3. Eqn(h)
    <3> HIDE DEF step, n, base
    <3> QED BY <2>1, <2>2 DEF IsTable
  <2> QED BY <2>3
<1>5. Eqn(iter)
  <2> HIDE DEF Eqn
  <2> QED BY <1>4
<1>6. Follows(iter, n, Seq(Candidate), base, step)
  <2> HIDE DEF iter, base
  <2>1. \A s \in SUBSET (1..n) :
           iter[s] = IF s = {} THEN base
                     ELSE TakeAccepted(iter[s \ {Max(s)}], raw[Max(s)], message, threshold)
    BY <1>5
  <2>2. \A s \in SUBSET (1..n) : s # {} => Max(s) \in 1..n
    BY <1>1, MaxIsIn
  <2> QED BY <1>1, <1>2, <2>1, <2>2 DEF Follows
<1> HIDE DEF iter, step, n, base, Eqn
<1>7. PICK F \in [0..n -> Seq(Candidate)] : IsWalk(F, n, base, step) /\ F[n] = iter[1..n]
  BY <1>6, FoldWalk
<1>8. \A k \in 1..n : F[k - 1] \in Seq(Candidate)
        /\ step[<<k, F[k - 1]>>] = TakeAccepted(F[k - 1], raw[k], message, threshold)
  BY <1>1, <1>7 DEF step
<1> QED BY <1>3, <1>7, <1>8 DEF n, base, IsWalk

\* Every local candidate is one of the sentences the local rules take.
LEMMA LocalOnesTaken ==
    ASSUME NEW sentences \in Seq(Sentence)
    PROVE  /\ LocalOnes(sentences) \in Seq(Candidate)
           /\ \A m \in 1..Len(LocalOnes(sentences)) : \E s \in ToSet(sentences) :
                 LocalOnes(sentences)[m] = Local(s) /\ LocalSentence(s)
<1> DEFINE n == Len(sentences)
           Taken(acc) == /\ acc \in Seq(Candidate)
                         /\ \A m \in 1..Len(acc) : \E s \in ToSet(sentences) :
                               acc[m] = Local(s) /\ LocalSentence(s)
<1>1. PICK F \in [0..n -> Seq(Candidate)] :
         /\ F[0] = <<>>
         /\ \A k \in 1..n : F[k] = TakeLocal(F[k - 1], sentences[k])
         /\ LocalOnes(sentences) = F[n]
  BY LocalSteps
<1>2. /\ n \in Nat /\ DOMAIN sentences = 1..n
      /\ \A k \in 1..n : sentences[k] \in Sentence /\ sentences[k] \in ToSet(sentences)
  BY LenProperties, ElementOfSeq DEF ToSet
<1>3. ASSUME NEW acc, Taken(acc), NEW s \in ToSet(sentences), s \in Sentence
      PROVE  Taken(TakeLocal(acc, s))
  <2>1. CASE ~(Len(acc) < LocalLimit /\ LocalSentence(s))
    BY <1>3, <2>1 DEF TakeLocal
  <2>2. CASE LocalSentence(s) /\ TakeLocal(acc, s) = Append(acc, Local(s))
    <3>1. acc \in Seq(Candidate) /\ Local(s) \in Candidate /\ Len(acc) \in Nat
      BY <1>3, LenProperties DEF Local, Candidate
    <3> DEFINE longer == Append(acc, Local(s))
    <3>2. /\ longer \in Seq(Candidate) /\ Len(longer) = Len(acc) + 1
          /\ longer[Len(acc) + 1] = Local(s)
          /\ \A m \in 1..Len(acc) : longer[m] = acc[m]
      BY <3>1, AppendProperties
    <3>3. \A m \in 1..(Len(acc) + 1) : m \in 1..Len(acc) \/ m = Len(acc) + 1
      BY <3>1
    <3> HIDE DEF longer
    <3>4. Taken(longer)
      BY <1>3, <2>2, <3>2, <3>3
    <3> QED BY <2>2, <3>4 DEF longer
  <2> QED BY <2>1, <2>2 DEF TakeLocal
<1>4. Taken(<<>>)
  OBVIOUS
<1> HIDE DEF Taken
<1> DEFINE P == {k \in 0..n : Taken(F[k])}
<1>5. 0 \in P
  BY <1>1, <1>2, <1>4
<1>6. \A k \in 1..n : k - 1 \in P => k \in P
  BY <1>1, <1>2, <1>3
<1>7. n \in P
  <2>1. n \in 0..n
    BY <1>2
  <2> HIDE DEF P
  <2> QED BY <1>2, <1>5, <1>6, <2>1, UpTo
<1> QED BY <1>1, <1>7 DEF Taken

\* What is accepted is accepted one by one, and all of it when each one is.
LEMMA AcceptedOnes ==
    ASSUME NEW raw \in Seq(Candidate), NEW message, NEW threshold
    PROVE  LET taken == Accepted(raw, message, threshold) IN
           /\ taken \in Seq(Candidate)
           /\ \A m \in 1..Len(taken) :
                 taken[m] \in ToSet(raw) /\ Accepts(taken[m], message, threshold)
           /\ (\A k \in 1..Len(raw) : Accepts(raw[k], message, threshold)) => taken = raw
<1> DEFINE n == Len(raw)
           all == \A k \in 1..n : Accepts(raw[k], message, threshold)
           Good(acc, k) ==
              /\ acc \in Seq(Candidate)
              /\ \A m \in 1..Len(acc) :
                    acc[m] \in ToSet(raw) /\ Accepts(acc[m], message, threshold)
              /\ all => Len(acc) = k /\ \A m \in 1..k : acc[m] = raw[m]
<1>1. PICK F \in [0..n -> Seq(Candidate)] :
         /\ F[0] = <<>>
         /\ \A k \in 1..n : F[k] = TakeAccepted(F[k - 1], raw[k], message, threshold)
         /\ Accepted(raw, message, threshold) = F[n]
  BY AcceptedSteps
<1>2. /\ n \in Nat /\ DOMAIN raw = 1..n
      /\ \A k \in 1..n : raw[k] \in Candidate /\ raw[k] \in ToSet(raw)
  BY LenProperties, ElementOfSeq DEF ToSet
<1>3. ASSUME NEW acc, NEW k \in 1..n, Good(acc, k - 1)
      PROVE  Good(TakeAccepted(acc, raw[k], message, threshold), k)
  <2>1. CASE ~Accepts(raw[k], message, threshold)
    <3>1. ~all
      BY <2>1
    <3> HIDE DEF all
    <3> QED BY <1>3, <2>1, <3>1 DEF TakeAccepted
  <2>2. CASE Accepts(raw[k], message, threshold)
    <3>1. acc \in Seq(Candidate) /\ raw[k] \in Candidate /\ Len(acc) \in Nat
      BY <1>2, <1>3, LenProperties
    <3> DEFINE longer == Append(acc, raw[k])
    <3>2. /\ longer \in Seq(Candidate) /\ Len(longer) = Len(acc) + 1
          /\ longer[Len(acc) + 1] = raw[k]
          /\ \A m \in 1..Len(acc) : longer[m] = acc[m]
      BY <3>1, AppendProperties
    <3>3. \A m \in 1..(Len(acc) + 1) : m \in 1..Len(acc) \/ m = Len(acc) + 1
      BY <3>1
    <3> HIDE DEF longer, all
    <3>4. \A m \in 1..Len(longer) :
             longer[m] \in ToSet(raw) /\ Accepts(longer[m], message, threshold)
      BY <1>2, <1>3, <2>2, <3>2, <3>3
    <3>5. all => Len(longer) = k /\ \A m \in 1..k : longer[m] = raw[m]
      <4> SUFFICES ASSUME all PROVE Len(longer) = k /\ \A m \in 1..k : longer[m] = raw[m]
        OBVIOUS
      <4>1. Len(acc) = k - 1 /\ \A m \in 1..(k - 1) : acc[m] = raw[m]
        BY <1>3
      <4>2. Len(acc) + 1 = k
        BY <1>2, <4>1
      <4> QED BY <3>2, <3>3, <4>1, <4>2
    <3>6. Good(longer, k)
      BY <3>2, <3>4, <3>5
    <3> QED BY <2>2, <3>6 DEF TakeAccepted, longer
  <2> QED BY <2>1, <2>2
<1>4. Good(<<>>, 0)
  OBVIOUS
<1> HIDE DEF Good
<1> DEFINE P == {k \in 0..n : Good(F[k], k)}
<1>5. 0 \in P
  BY <1>1, <1>2, <1>4
<1>6. \A k \in 1..n : k - 1 \in P => k \in P
  BY <1>1, <1>2, <1>3
<1>7. n \in P
  <2>1. n \in 0..n
    BY <1>2
  <2> HIDE DEF P
  <2> QED BY <1>2, <1>5, <1>6, <2>1, UpTo
<1>8. all => F[n] = raw
  BY <1>7, SeqEqual DEF Good
<1> QED BY <1>1, <1>7, <1>8 DEF Good

\* A sentence the local rules take passes the filter, and what passes is one they may take.
LEMMA GatesMeet ==
    ASSUME NEW s \in Sentence, NEW message, NEW threshold \in Nat
    PROVE  /\ LocalSentence(s) /\ s \in ToSet(message.sentences) /\ threshold <= 90
                 => Accepts(Local(s), message, threshold)
           /\ \A c \in Candidate :
                 Accepts(c, message, threshold) /\ ~c.evidence.long
                    => LocalSource(c.content)
<1>1. ASSUME LocalSentence(s), s \in ToSet(message.sentences), threshold <= 90
      PROVE  Accepts(Local(s), message, threshold)
  <2>1. Local(s).content = s /\ Local(s).evidence = s /\ Local(s).confidence = 90
    BY DEF Local
  <2>2. s.sensitivity \in {"normal", "personal_sensitive", "credential"}
    BY ExtractionAssumption DEF SentenceRow
  <2>3. Min({threshold, 50}) <= 90
    BY SmallerOfTwo
  <2> HIDE DEF Local
  <2> QED BY <1>1, <2>1, <2>2, <2>3
         DEF Accepts, VerifiedEvidence, LocalSentence, LocalSource, Sanitized
<1>2. ASSUME NEW c \in Candidate, Accepts(c, message, threshold), ~c.evidence.long
      PROVE  LocalSource(c.content)
  BY <1>2 DEF Accepts, VerifiedEvidence, Sanitized, LocalSource
<1> QED BY <1>1, <1>2

\* A step extracts from a message, or leaves the last extraction alone.
LEMMA ExtractionSteps ==
    ASSUME [ExtractionNext]_extractionVars
    PROVE  \/ turn' = turn
           \/ \E message \in Message, raw \in Seq(Candidate), threshold \in Nat :
                 /\ turn' = ExtractMemoryCandidates(message, raw, threshold)
                 /\ \A m \in 1..Len(raw) : ~raw[m].evidence.long
<1>1. CASE Extract
  <2>1. PICK n \in 0..MaxSentences : \E sentences \in [1..n -> Sentence], broken \in BOOLEAN :
           LET message == [sentences |-> sentences, broken |-> broken] IN
           \/ RequestCandidates(message)
           \/ \E threshold \in Thresholds :
                 turn' = ExtractMemoryCandidates(message, DeterministicCandidates(message),
                                                 threshold)
    BY <1>1 DEF Extract
  <2>2. PICK sentences \in [1..n -> Sentence], broken \in BOOLEAN :
           LET message == [sentences |-> sentences, broken |-> broken] IN
           \/ RequestCandidates(message)
           \/ \E threshold \in Thresholds :
                 turn' = ExtractMemoryCandidates(message, DeterministicCandidates(message),
                                                 threshold)
    BY <2>1
  <2> DEFINE message == [sentences |-> sentences, broken |-> broken]
  <2>3. /\ n \in Nat /\ sentences \in Seq(Sentence) /\ message \in Message
        /\ message.sentences = sentences
    BY ExtractionAssumption DEF Message
  <2>4. Thresholds \subseteq Nat /\ <<>> \in Seq(Candidate) /\ Len(<<>>) = 0
    BY ExtractionAssumption
  <2>5. ToSet(sentences) \subseteq Sentence
    BY DEF ToSet
  <2>6. RequestCandidates(message) \/ \E threshold \in Thresholds :
           turn' = ExtractMemoryCandidates(message, DeterministicCandidates(message), threshold)
    BY <2>2
  <2> HIDE DEF message
  <2>7. CASE RequestCandidates(message)
    <3>1. PICK threshold \in Thresholds :
             \/ turn' = ExtractMemoryCandidates(message, <<>>, threshold)
             \/ \E e, s \in Invented \cup ToSet(message.sentences), c \in Confidence :
                   ~e.long /\ turn' = ExtractMemoryCandidates(message,
                       <<[content |-> s, evidence |-> e, confidence |-> c]>>, threshold)
      BY <2>7 DEF RequestCandidates
    <3>2. CASE turn' = ExtractMemoryCandidates(message, <<>>, threshold)
      <4> DEFINE none == <<>>
      <4>1. none \in Seq(Candidate) /\ \A m \in 1..Len(none) : ~none[m].evidence.long
        BY <2>4
      <4>2. turn' = ExtractMemoryCandidates(message, none, threshold)
        BY <3>2
      <4> HIDE DEF none
      <4> QED BY <2>3, <2>4, <4>1, <4>2
    <3>3. CASE \E e, s \in Invented \cup ToSet(message.sentences), c \in Confidence :
                  ~e.long /\ turn' = ExtractMemoryCandidates(message,
                      <<[content |-> s, evidence |-> e, confidence |-> c]>>, threshold)
      <4>1. PICK e, s \in Invented \cup ToSet(message.sentences), c \in Confidence :
               ~e.long /\ turn' = ExtractMemoryCandidates(message,
                   <<[content |-> s, evidence |-> e, confidence |-> c]>>, threshold)
        BY <3>3
      <4> DEFINE raw == <<[content |-> s, evidence |-> e, confidence |-> c]>>
      <4>2. [content |-> s, evidence |-> e, confidence |-> c] \in Candidate
        BY <2>3, <2>5, ExtractionAssumption DEF Candidate
      <4>3. raw \in Seq(Candidate) /\ Len(raw) = 1 /\ raw[1].evidence = e
        BY <4>2
      <4>4. \A m \in 1..Len(raw) : ~raw[m].evidence.long
        BY <4>1, <4>3
      <4> HIDE DEF raw
      <4>5. turn' = ExtractMemoryCandidates(message, raw, threshold)
        BY <4>1 DEF raw
      <4> QED BY <2>3, <2>4, <4>3, <4>4, <4>5
    <3> QED BY <3>1, <3>2, <3>3
  <2>8. CASE \E threshold \in Thresholds :
                turn' = ExtractMemoryCandidates(message, DeterministicCandidates(message),
                  threshold)
    <3> DEFINE raw == DeterministicCandidates(message)
    <3>1. raw \in Seq(Candidate) /\ \A m \in 1..Len(raw) : ~raw[m].evidence.long
      <4>1. CASE Refuses(message)
        <5>1. raw = <<>>
          BY <4>1 DEF DeterministicCandidates
        <5>2. 1..0 = {}
          OBVIOUS
        <5> HIDE DEF raw
        <5> QED BY <2>4, <5>1, <5>2
      <4>2. CASE ~Refuses(message)
        <5>1. raw = LocalOnes(sentences)
          BY <2>3, <4>2 DEF DeterministicCandidates, LocalOnes
        <5>2. \A s \in ToSet(sentences) : LocalSentence(s) => ~Local(s).evidence.long
          BY DEF LocalSentence, LocalSource, Local
        <5> HIDE DEF raw
        <5>3. raw \in Seq(Candidate) /\ \A m \in 1..Len(raw) : \E s \in ToSet(sentences) :
                 raw[m] = Local(s) /\ LocalSentence(s)
          BY <2>3, <5>1, LocalOnesTaken
        <5> QED BY <5>2, <5>3
      <4> QED BY <4>1, <4>2
    <3> QED BY <2>3, <2>4, <2>8, <3>1
  <2> QED BY <2>6, <2>7, <2>8
<1>2. CASE TypeCharacter \/ UNCHANGED extractionVars
  BY <1>2 DEF TypeCharacter, extractionVars
<1> QED BY <1>1, <1>2 DEF ExtractionNext

\* (deterministic_candidates, validate_and_filter_candidates) GatesAgree in every behaviour.
THEOREM GatesAgreeAlways == ExtractionSpec => []GatesAgree
<1>1. ExtractionInit => GatesAgree
  BY DEF ExtractionInit, GatesAgree
<1>2. GatesAgree /\ [ExtractionNext]_extractionVars => GatesAgree'
  <2> SUFFICES ASSUME GatesAgree, [ExtractionNext]_extractionVars PROVE GatesAgree'
    OBVIOUS
  <2>1. CASE turn' = turn
    BY <2>1 DEF GatesAgree
  <2>2. CASE \E message \in Message, raw \in Seq(Candidate), threshold \in Nat :
                /\ turn' = ExtractMemoryCandidates(message, raw, threshold)
                /\ \A m \in 1..Len(raw) : ~raw[m].evidence.long
    <3>1. PICK message \in Message, raw \in Seq(Candidate), threshold \in Nat :
             /\ turn' = ExtractMemoryCandidates(message, raw, threshold)
             /\ \A m \in 1..Len(raw) : ~raw[m].evidence.long
      BY <2>2
    <3> DEFINE taken == ValidateAndFilterCandidates(raw, message, threshold)
    <3>2. /\ turn'.message = message /\ turn'.raw = raw /\ turn'.threshold = threshold
          /\ turn'.taken = taken
      BY <3>1 DEF ExtractMemoryCandidates
    <3>3. message.sentences \in Seq(Sentence) /\ ToSet(message.sentences) \subseteq Sentence
      <4>1. message.sentences \in Seq(Sentence)
        BY DEF Message
      <4> QED BY <4>1, LenProperties, ElementOfSeq DEF ToSet
    <3>4. CASE Refuses(message)
      <4>1. taken = <<>> /\ DeterministicCandidates(message) = <<>>
        BY <3>4 DEF ValidateAndFilterCandidates, DeterministicCandidates
      <4>0. ToSet(taken) = {}
        <5>1. DOMAIN <<>> = {}
          OBVIOUS
        <5> HIDE DEF taken
        <5> QED BY <4>1, <5>1 DEF ToSet
      <4> HIDE DEF taken
      <4> QED BY <3>2, <4>0, <4>1 DEF GatesAgree
    <3>5. CASE ~Refuses(message)
      <4>1. taken = Accepted(raw, message, threshold)
        BY <3>5 DEF ValidateAndFilterCandidates, Accepted
      <4>2. DeterministicCandidates(message) = LocalOnes(message.sentences)
        BY <3>5 DEF DeterministicCandidates, LocalOnes
      <4> HIDE DEF taken
      <4>3. /\ taken \in Seq(Candidate)
            /\ \A m \in 1..Len(taken) :
                  taken[m] \in ToSet(raw) /\ Accepts(taken[m], message, threshold)
            /\ (\A k \in 1..Len(raw) : Accepts(raw[k], message, threshold)) => taken = raw
        BY <4>1, AcceptedOnes
      <4>4. ASSUME raw = LocalOnes(message.sentences), threshold <= 90 PROVE taken = raw
        <5>1. \A k \in 1..Len(raw) : \E s \in ToSet(message.sentences) :
                 raw[k] = Local(s) /\ LocalSentence(s)
          BY <3>3, <4>4, LocalOnesTaken
        <5>2. \A k \in 1..Len(raw) : Accepts(raw[k], message, threshold)
          BY <3>3, <4>4, <5>1, GatesMeet
        <5> QED BY <4>3, <5>2
      <4>5. \A c \in ToSet(taken) : LocalSource(c.content)
        <5> SUFFICES ASSUME NEW c \in ToSet(taken)
                     PROVE  LocalSource(c.content)
          OBVIOUS
        <5>1. PICK m \in 1..Len(taken) : c = taken[m]
          BY <4>3, LenProperties DEF ToSet
        <5>2. c \in Candidate /\ c \in ToSet(raw) /\ Accepts(c, message, threshold)
          BY <4>3, <5>1, ElementOfSeq
        <5>3. ~c.evidence.long
          BY <3>1, <5>2, LenProperties DEF ToSet
        <5>4. c.evidence \in Sentence
          BY <5>2 DEF Candidate
        <5> QED BY <5>2, <5>3, <5>4, GatesMeet
      <4> QED BY <3>2, <4>2, <4>4, <4>5 DEF GatesAgree
    <3> QED BY <3>4, <3>5
  <2> QED BY <2>1, <2>2, ExtractionSteps
<1> QED BY <1>1, <1>2, PTL DEF ExtractionSpec

-----------------------------------------------------------------------------
(* Extraction: where a text is cut *)

Span == Nat \X Nat
Scanned == [spans : Seq(Span), start : Nat \ {0}, next : Nat]
NothingScanned == [spans |-> <<>>, start |-> 1, next |-> 1]

\* The marks that follow the one at i, up to e; the furthest of them.
Run(t, i, e) == \A k \in (i + 1)..e : t[k] \in TerminalGroup
RunEnd(t, i) == Max({j \in i..Len(t) : \A k \in (i + 1)..j : t[k] \in TerminalGroup})

\* The largest and the smallest of numbers.
LEMMA LargestOf ==
    ASSUME NEW n \in Nat, NEW s \in SUBSET (1..n), s # {}
    PROVE  Max(s) \in s /\ \A x \in s : x <= Max(s)
<1> DEFINE S == {k \in 0..n : \A x \in s : k >= x}
<1>1. S \subseteq Nat /\ n \in S
  OBVIOUS
<1>2. PICK k \in S : \A m \in S : k <= m
  <2> HIDE DEF S
  <2> QED BY <1>1, LeastOne
<1>3. Max(s) \in s /\ Max(s) \in 1..n
  BY MaxIsIn
<1>4. k \in s
  <2> SUFFICES ASSUME k \notin s PROVE FALSE
    OBVIOUS
  <2>1. \A x \in s : x \in Nat /\ x >= 1 /\ k - 1 >= x
    OBVIOUS
  <2>2. k - 1 \in S
    BY <1>3, <2>1
  <2> QED BY <1>2, <2>2
<1>5. \E m \in s : \A x \in s : m >= x
  BY <1>4
<1>6. \A x \in s : Max(s) >= x
  BY <1>5 DEF Max
<1> QED BY <1>3, <1>6

LEMMA SmallestOf ==
    ASSUME NEW n \in Nat, NEW s \in SUBSET (1..n), s # {}
    PROVE  Min(s) \in s /\ \A x \in s : Min(s) <= x
<1>1. s \subseteq Nat
  OBVIOUS
<1>2. PICK k \in s : \A m \in s : k <= m
  BY <1>1, LeastOne
<1> QED BY <1>2 DEF Min

\* Where the marks that follow end.
LEMMA RunEnds ==
    ASSUME NEW A, NEW t \in Seq(A), NEW i \in 1..Len(t)
    PROVE  /\ RunEnd(t, i) \in i..Len(t) /\ Run(t, i, RunEnd(t, i))
           /\ RunEnd(t, i) = Len(t) \/ t[RunEnd(t, i) + 1] \notin TerminalGroup
<1> DEFINE n == Len(t)
           e == RunEnd(t, i)
           s == {j \in i..n : \A k \in (i + 1)..j : t[k] \in TerminalGroup}
<1>1. n \in Nat
  BY LenProperties
<1> HIDE DEF n
<1>2. i \in 1..n
  BY DEF n
<1>3. i \in s /\ s \in SUBSET (1..n)
  BY <1>1, <1>2
<1>4. e = Max(s)
  BY DEF RunEnd, n
<1> HIDE DEF e
<1>5. e \in s /\ \A x \in s : x <= e
  <2> HIDE DEF s
  <2> QED BY <1>1, <1>3, <1>4, LargestOf
<1>6. e \in i..n /\ Run(t, i, e) /\ e \in Nat
  BY <1>1, <1>2, <1>5 DEF Run
<1>7. ASSUME e # n, t[e + 1] \in TerminalGroup PROVE FALSE
  <2>1. e + 1 \in i..n /\ ~(e + 1 <= e)
    BY <1>1, <1>2, <1>6, <1>7
  <2>2. \A k \in (i + 1)..(e + 1) : k \in (i + 1)..e \/ k = e + 1
    BY <1>6, <1>2
  <2>3. e + 1 \in s
    BY <1>6, <1>7, <2>1, <2>2 DEF Run
  <2> QED BY <1>5, <2>1, <2>3
<1> QED BY <1>6, <1>7 DEF e, n

\* A sentence without the white space around it is nothing or a span of it.
LEMMA StrippedOne ==
    ASSUME NEW t, NEW a \in Nat \ {0}, NEW b \in Nat
    PROVE  \/ Stripped(t, a, b) = <<>>
           \/ \E f, g \in Nat : Stripped(t, a, b) = << <<f, g>> >> /\ a <= f /\ f <= g /\ g <= b
<1> DEFINE s == {i \in a..b : t[i] # "space"}
<1>1. CASE s = {}
  BY <1>1 DEF Stripped
<1>2. CASE s # {}
  <2>1. s \in SUBSET (1..b) /\ \A x \in s : x \in Nat /\ a <= x /\ x <= b
    OBVIOUS
  <2>2. Stripped(t, a, b) = << <<Min(s), Max(s)>> >>
    BY <1>2 DEF Stripped
  <2> HIDE DEF s
  <2>3. Max(s) \in s /\ Min(s) \in s /\ Min(s) <= Max(s)
    BY <1>2, <2>1, LargestOf, SmallestOf
  <2> QED BY <2>1, <2>2, <2>3
<1> QED BY <1>1, <1>2

LEMMA StrippedSpans ==
    ASSUME NEW t, NEW a \in Nat \ {0}, NEW b \in Nat
    PROVE  Stripped(t, a, b) \in Seq(Span)
<1>1. <<>> \in Seq(Span)
  OBVIOUS
<1>2. CASE Stripped(t, a, b) = <<>>
  BY <1>1, <1>2
<1>3. CASE \E f, g \in Nat :
              Stripped(t, a, b) = << <<f, g>> >> /\ a <= f /\ f <= g /\ g <= b
  <2>1. PICK f, g \in Nat : Stripped(t, a, b) = << <<f, g>> >>
    BY <1>3
  <2> DEFINE span == <<f, g>>
  <2>2. span \in Span
    BY DEF Span
  <2>3. Stripped(t, a, b) = <<span>>
    BY <2>1
  <2> HIDE DEF span
  <2>4. <<span>> \in Seq(Span)
    BY <2>2
  <2> QED BY <2>3, <2>4
<1> QED BY <1>2, <1>3, StrippedOne

LEMMA ScanOne ==
    ASSUME NEW A, NEW t \in Seq(A), NEW acc \in Scanned, NEW i \in 1..Len(t)
    PROVE  Scan(t, acc, i) \in Scanned
<1> DEFINE e == RunEnd(t, i)
           more == Stripped(t, acc.start, e)
<1>1. e \in Nat /\ e + 1 \in Nat \ {0} /\ e + 1 \in Nat
  <2>1. e \in i..Len(t) /\ Len(t) \in Nat
    BY RunEnds, LenProperties
  <2> HIDE DEF e
  <2> QED BY <2>1
<1>2. acc.start \in Nat \ {0} /\ acc.spans \in Seq(Span)
  BY DEF Scanned
<1>3. more \in Seq(Span)
  <2> HIDE DEF e
  <2> QED BY <1>1, <1>2, StrippedSpans
<1>4. acc.spans \o more \in Seq(Span)
  <2> HIDE DEF more
  <2> QED BY <1>2, <1>3, ConcatProperties
<1> DEFINE all == acc.spans \o more
           after == e + 1
<1>5. Scan(t, acc, i) = acc
        \/ Scan(t, acc, i) = [spans |-> all, start |-> after, next |-> after]
  BY DEF Scan, RunEnd
<1>6. all \in Seq(Span) /\ after \in Nat \ {0} /\ after \in Nat
  BY <1>1, <1>4
<1> HIDE DEF e, more, all, after
<1> QED BY <1>5, <1>6 DEF Scanned

\* The scan of the characters of a text, in this order.
ScanLoop(t, order) ==
    FoldLeft(LAMBDA acc, i : Scan(t, acc, i), NothingScanned, order)

\* What the scan has after each character.
LEMMA ScanSteps ==
    ASSUME NEW A, NEW t \in Seq(A), NEW order \in Seq(Int), Len(order) = Len(t),
           \A k \in 1..Len(order) : order[k] = k
    PROVE  \E F \in [0..Len(order) -> Scanned] :
              /\ F[0] = NothingScanned
              /\ \A k \in 1..Len(order) : F[k] = Scan(t, F[k - 1], order[k])
              /\ ScanLoop(t, order) = F[Len(order)]
<1> DEFINE n == Len(order)
           base == NothingScanned
           step == [q \in (1..n) \X Scanned |-> Scan(t, q[2], order[q[1]])]
           Eqn(h) == h = [s \in SUBSET (1..n) |->
                            IF s = {} THEN base
                            ELSE Scan(t, h[s \ {Max(s)}], order[Max(s)])]
           iter == CHOOSE h : Eqn(h)
<1>1. n \in Nat /\ DOMAIN order = 1..n /\ \A k \in 1..n : order[k] \in 1..Len(t)
  BY LenProperties
<1>2. base \in Scanned /\ step \in [(1..n) \X Scanned -> Scanned]
  <2>1. NothingScanned \in Scanned
    <3>1. <<>> \in Seq(Span)
      OBVIOUS
    <3> QED BY <3>1 DEF NothingScanned, Scanned
  <2>2. \A a \in Scanned, k \in 1..n : Scan(t, a, order[k]) \in Scanned
    BY <1>1, ScanOne
  <2> HIDE DEF n
  <2> QED BY <2>1, <2>2
<1>3. ScanLoop(t, order) = iter[1..n]
  BY <1>1 DEF ScanLoop, FoldLeft, MapThenFoldSet
<1>4. \E h : Eqn(h)
  <2>1. PICK h \in [SUBSET (1..n) -> Scanned] : IsTable(h, n, base, step)
    <3>1. n \in Nat
      BY <1>1
    <3> HIDE DEF step, n, base
    <3> QED BY <3>1, <1>2, FoldTable
  <2>2. ASSUME NEW s \in SUBSET (1..n), s # {}
        PROVE  step[<<Max(s), h[s \ {Max(s)}]>>] = Scan(t, h[s \ {Max(s)}], order[Max(s)])
    <3>1. Max(s) \in 1..n
      BY <1>1, <2>2, MaxIsIn
    <3>2. h[s \ {Max(s)}] \in Scanned
      BY <2>1
    <3> QED BY <3>1, <3>2
  <2>3. Eqn(h)
    <3> HIDE DEF step, n, base
    <3> QED BY <2>1, <2>2 DEF IsTable
  <2> QED BY <2>3
<1>5. Eqn(iter)
  <2> HIDE DEF Eqn
  <2> QED BY <1>4
<1>6. Follows(iter, n, Scanned, base, step)
  <2> HIDE DEF iter, base
  <2>1. \A s \in SUBSET (1..n) :
           iter[s] = IF s = {} THEN base ELSE Scan(t, iter[s \ {Max(s)}], order[Max(s)])
    BY <1>5
  <2>2. \A s \in SUBSET (1..n) : s # {} => Max(s) \in 1..n
    BY <1>1, MaxIsIn
  <2> QED BY <1>1, <1>2, <2>1, <2>2 DEF Follows
<1> HIDE DEF iter, step, n, base, Eqn
<1>7. PICK F \in [0..n -> Scanned] : IsWalk(F, n, base, step) /\ F[n] = iter[1..n]
  BY <1>6, FoldWalk
<1>8. \A k \in 1..n : F[k - 1] \in Scanned
        /\ step[<<k, F[k - 1]>>] = Scan(t, F[k - 1], order[k])
  BY <1>1, <1>7 DEF step
<1> QED BY <1>3, <1>7, <1>8 DEF n, base, IsWalk

\* The sentences are what the scan has after the last character, and the rest.
LEMMA SentencesScanned ==
    ASSUME NEW A, NEW t \in Seq(A)
    PROVE  \E F \in [0..Len(t) -> Scanned] :
              /\ F[0] = NothingScanned
              /\ \A k \in 1..Len(t) : F[k] = Scan(t, F[k - 1], k)
              /\ SourceSentences(t) = F[Len(t)].spans \o Stripped(t, F[Len(t)].start, Len(t))
<1> DEFINE n == Len(t)
           order == [i \in DOMAIN t |-> i]
<1>1. n \in Nat /\ DOMAIN t = 1..n
  BY LenProperties
<1>2. order \in Seq(Int) /\ Len(order) = n /\ \A k \in 1..n : order[k] = k
  BY <1>1
<1>3. SourceSentences(t)
        = ScanLoop(t, order).spans \o Stripped(t, ScanLoop(t, order).start, n)
  BY DEF SourceSentences, FoldLeftDomain, ScanLoop, NothingScanned
<1> HIDE DEF order
<1>4. PICK F \in [0..n -> Scanned] :
         /\ F[0] = NothingScanned
         /\ \A k \in 1..n : F[k] = Scan(t, F[k - 1], order[k])
         /\ ScanLoop(t, order) = F[n]
  BY <1>2, ScanSteps
<1> QED BY <1>2, <1>3, <1>4

-----------------------------------------------------------------------------
(* Extraction: the pieces between the cuts *)

\* The sentences of SentencesAreCuts, as the spans from cut to cut.
PiecesOf(t) ==
    {p \in (DOMAIN t) \X (DOMAIN t) :
        /\ p[1] = 1 \/ p[1] - 1 \in Cuts(t)
        /\ p[2] = Len(t) \/ p[2] \in Cuts(t)
        /\ p[1] <= p[2] /\ \A k \in p[1]..(p[2] - 1) : k \notin Cuts(t)}

PiecesBefore(t, s) == {p \in PiecesOf(t) : p[2] < s}
SpansOf(t, pieces) == UNION {ToSet(Stripped(t, p[1], p[2])) : p \in pieces}

\* The rest from s on begins where a sentence does.
Begins(t, s) == s = 1 \/ s - 1 \in Cuts(t)

\* A cut behind s has the mark that ends its sentence behind s as well, or before s too.
LEMMA CutAfter ==
    ASSUME NEW A, NEW t \in Seq(A), NEW s \in Nat \ {0}, Begins(t, s),
           NEW c \in Cuts(t), s <= c
    PROVE  \E i \in s..c : EndsSentence(t, i) /\ Run(t, i, c)
<1>1. /\ DOMAIN t = 1..Len(t) /\ Len(t) \in Nat
  BY LenProperties
<1>2. c \in 1..Len(t) /\ \E i \in 1..c : EndsSentence(t, i) /\ Run(t, i, c)
  BY <1>1 DEF Cuts, Run
<1>3. PICK i \in 1..c : EndsSentence(t, i) /\ Run(t, i, c)
  BY <1>2
<1>4. CASE i < s
  <2>1. s - 1 \in Cuts(t) /\ s - 1 \in Nat /\ s - 1 < Len(t) /\ s \in (i + 1)..c
    BY <1>1, <1>2, <1>4 DEF Begins
  <2>2. s - 1 = Len(t) \/ t[(s - 1) + 1] \notin TerminalGroup
    BY <2>1 DEF Cuts
  <2>3. (s - 1) + 1 = s /\ s - 1 # Len(t)
    BY <1>1, <2>1
  <2>4. t[s] \in TerminalGroup
    BY <1>3, <2>1 DEF Run
  <2> QED BY <2>2, <2>3, <2>4
<1>5. CASE ~(i < s)
  BY <1>2, <1>3, <1>5
<1> QED BY <1>4, <1>5

\* From where a sentence begins to the next cut, or to the end, is one piece, and the only
\* one that ends there.
LEMMA NextPiece ==
    ASSUME NEW A, NEW t \in Seq(A), NEW s \in 1..Len(t), Begins(t, s), NEW e \in s..Len(t),
           e = Len(t) \/ e \in Cuts(t), \A k \in s..(e - 1) : k \notin Cuts(t)
    PROVE  PiecesBefore(t, e + 1) = PiecesBefore(t, s) \cup {<<s, e>>}
<1> DEFINE n == Len(t)
<1>1. n \in Nat /\ DOMAIN t = 1..n
  BY LenProperties
<1>2. /\ s \in 1..n /\ e \in s..n /\ (e = n \/ e \in Cuts(t))
      /\ \A k \in s..(e - 1) : k \notin Cuts(t)
  OBVIOUS
<1> HIDE DEF n
<1>0. e \in Nat /\ s \in Nat
  BY <1>1, <1>2
<1>3. <<s, e>> \in PiecesBefore(t, e + 1)
  <2> DEFINE p == <<s, e>>
  <2>1. p \in (DOMAIN t) \X (DOMAIN t) /\ p[1] = s /\ p[2] = e
    BY <1>1, <1>2
  <2> HIDE DEF p
  <2>2. p \in PiecesOf(t)
    BY <1>2, <2>1 DEF PiecesOf, Begins, n
  <2>3. p[2] < e + 1
    BY <1>0, <1>2, <2>1
  <2> QED BY <2>2, <2>3 DEF PiecesBefore, p
<1>4. ASSUME NEW p \in PiecesBefore(t, s) PROVE p \in PiecesBefore(t, e + 1)
  BY <1>0, <1>1, <1>2 DEF PiecesBefore, PiecesOf
<1>5. ASSUME NEW p \in PiecesBefore(t, e + 1), p \notin PiecesBefore(t, s)
      PROVE  p = <<s, e>>
  <2>0. p \in PiecesOf(t) /\ p[2] < e + 1 /\ ~(p[2] < s)
    BY <1>5 DEF PiecesBefore
  <2>6. p \in (1..n) \X (1..n)
    BY <1>1, <2>0 DEF PiecesOf
  <2>7. p[1] \in 1..n /\ p[2] \in 1..n /\ p = <<p[1], p[2]>>
    BY <2>6
  <2>8. s <= p[2]
    BY <1>1, <1>0, <2>0, <2>7
  <2>9. /\ p[1] = 1 \/ p[1] - 1 \in Cuts(t)
        /\ p[2] = n \/ p[2] \in Cuts(t)
        /\ p[1] <= p[2] /\ \A k \in p[1]..(p[2] - 1) : k \notin Cuts(t)
    BY <2>0 DEF PiecesOf, n
  <2>1. /\ p[1] \in 1..n /\ p[2] \in 1..n /\ p = <<p[1], p[2]>> /\ p[2] < e + 1 /\ s <= p[2]
        /\ p[1] = 1 \/ p[1] - 1 \in Cuts(t)
        /\ p[2] = n \/ p[2] \in Cuts(t)
        /\ p[1] <= p[2] /\ \A k \in p[1]..(p[2] - 1) : k \notin Cuts(t)
    BY <2>0, <2>7, <2>8, <2>9
  <2> DEFINE a == p[1]
             b == p[2]
  <2>2. b = e
    <3>1. b \in s..e
      BY <1>0, <1>1, <1>2, <2>1
    <3>2. b # e => b \in s..(e - 1) /\ b # n
      BY <1>0, <1>1, <1>2, <3>1
    <3> QED BY <2>1, <3>2
  <2>3. ~(a < s)
    <3> SUFFICES ASSUME a < s PROVE FALSE
      OBVIOUS
    <3>1. s # 1 /\ s - 1 \in a..(b - 1)
      BY <1>0, <1>1, <1>2, <2>1
    <3> QED BY <2>1, <3>1 DEF Begins
  <2>4. ~(s < a)
    <3> SUFFICES ASSUME s < a PROVE FALSE
      OBVIOUS
    <3>1. a # 1 /\ a - 1 \in s..(e - 1)
      BY <1>0, <1>1, <1>2, <2>1
    <3> QED BY <2>1, <3>1
  <2>5. a = s
    BY <1>0, <1>1, <2>1, <2>3, <2>4
  <2> QED BY <2>1, <2>2, <2>5
<1> QED BY <1>3, <1>4, <1>5

\* The spans stand one behind the other, and all before s.
SpansInOrder(spans) ==
    \A m, n \in 1..Len(spans) : m < n => spans[m][2] < spans[n][1]
SpansBefore(spans, s) == \A m \in 1..Len(spans) : spans[m][2] < s

\* One more sentence stands behind the others.
LEMMA SpansJoin ==
    ASSUME NEW t, NEW spans \in Seq(Span), NEW s \in Nat \ {0}, NEW e \in Nat, s <= e + 1,
           SpansInOrder(spans), SpansBefore(spans, s)
    PROVE  /\ spans \o Stripped(t, s, e) \in Seq(Span)
           /\ SpansInOrder(spans \o Stripped(t, s, e))
           /\ SpansBefore(spans \o Stripped(t, s, e), e + 1)
           /\ ToSet(spans \o Stripped(t, s, e)) = ToSet(spans) \cup ToSet(Stripped(t, s, e))
<1> DEFINE more == Stripped(t, s, e)
           all == spans \o more
           a == Len(spans)
           b == Len(more)
<1>1. more \in Seq(Span) /\ b \in {0, 1}
      /\ \A m \in 1..b : s <= more[m][1] /\ more[m][2] <= e
  <2>1. more \in Seq(Span)
    BY StrippedSpans
  <2>2. CASE more = <<>>
    BY <2>1, <2>2
  <2>3. CASE \E f, g \in Nat : more = << <<f, g>> >> /\ s <= f /\ f <= g /\ g <= e
    <3>1. PICK f, g \in Nat : more = << <<f, g>> >> /\ s <= f /\ f <= g /\ g <= e
      BY <2>3
    <3> DEFINE span == <<f, g>>
    <3>2. more = <<span>> /\ span[1] = f /\ span[2] = g
      BY <3>1
    <3> HIDE DEF span, more
    <3>3. Len(more) = 1 /\ more[1] = span
      BY <3>2
    <3>4. \A m \in 1..1 : m = 1
      OBVIOUS
    <3> QED BY <2>1, <3>1, <3>2, <3>3, <3>4
  <2> HIDE DEF more
  <2> QED BY <2>2, <2>3, StrippedOne DEF more
<1> HIDE DEF more
<1>2. /\ all \in Seq(Span) /\ Len(all) = a + b /\ a \in Nat /\ b \in Nat
      /\ \A i \in 1..(a + b) : all[i] = IF i <= a THEN spans[i] ELSE more[i - a]
      /\ \A i \in 1..a : spans[i] \in Span
      /\ \A i \in 1..b : more[i] \in Span
  <2>1. spans \in Seq(Span) /\ more \in Seq(Span)
    BY <1>1
  <2> QED BY <2>1, ConcatProperties, LenProperties, ElementOfSeq
<1>3. /\ \A i \in 1..a : spans[i][1] \in Nat /\ spans[i][2] \in Nat /\ spans[i][2] < s
      /\ \A i \in 1..b : more[i][1] \in Nat /\ more[i][2] \in Nat
  BY <1>2 DEF Span, SpansBefore
<1> HIDE DEF all
<1>4. SpansInOrder(all)
  <2> SUFFICES ASSUME NEW m \in 1..(a + b), NEW n \in 1..(a + b), m < n
               PROVE  all[m][2] < all[n][1]
    BY <1>2 DEF SpansInOrder
  <2>1. CASE n <= a
    <3>1. m \in 1..a /\ n \in 1..a /\ all[m] = spans[m] /\ all[n] = spans[n]
      <4> HIDE DEF a, b
      <4> QED BY <1>2, <2>1
    <3> QED BY <3>1 DEF SpansInOrder
  <2>2. CASE ~(n <= a)
    <3>1. m \in 1..a /\ n - a \in 1..b /\ all[m] = spans[m] /\ all[n] = more[n - a]
      <4> HIDE DEF a, b
      <4> QED BY <1>1, <1>2, <2>2
    <3>2. all[m][2] \in Nat /\ all[n][1] \in Nat /\ all[m][2] < s /\ s <= all[n][1]
      BY <1>1, <1>3, <3>1
    <3> QED BY <3>2
  <2> QED BY <2>1, <2>2
<1>5. SpansBefore(all, e + 1)
  <2> SUFFICES ASSUME NEW m \in 1..(a + b) PROVE all[m][2] < e + 1
    BY <1>2 DEF SpansBefore
  <2>1. CASE m <= a
    <3>1. m \in 1..a /\ all[m] = spans[m]
      <4> HIDE DEF a, b
      <4> QED BY <1>2, <2>1
    <3>2. all[m][2] \in Nat /\ all[m][2] < s
      BY <1>3, <3>1
    <3> QED BY <3>2
  <2>2. CASE ~(m <= a)
    <3>1. m - a \in 1..b /\ all[m] = more[m - a]
      <4> HIDE DEF a, b
      <4> QED BY <1>2, <2>2
    <3>2. all[m][2] \in Nat /\ all[m][2] <= e
      BY <1>1, <1>3, <3>1
    <3> QED BY <3>2
  <2> QED BY <2>1, <2>2
<1>6. ToSet(all) = ToSet(spans) \cup ToSet(more)
  <2>1. DOMAIN all = 1..(a + b) /\ DOMAIN spans = 1..a /\ DOMAIN more = 1..b
    BY <1>1, <1>2, LenProperties
  <2>2. \A i \in 1..a : i \in 1..(a + b) /\ all[i] = spans[i]
    <3> HIDE DEF a, b
    <3> QED BY <1>2
  <2>3. \A i \in 1..b : i + a \in 1..(a + b) /\ all[i + a] = more[i]
    <3> HIDE DEF a, b
    <3> QED BY <1>2
  <2>4. \A i \in 1..(a + b) : i \in 1..a \/ (i - a \in 1..b /\ all[i] = more[i - a])
    <3> HIDE DEF a, b
    <3> QED BY <1>2
  <2> HIDE DEF a, b
  <2> QED BY <2>1, <2>2, <2>3, <2>4 DEF ToSet
<1> QED BY <1>2, <1>4, <1>5, <1>6 DEF all, more

\* The spans of one more piece.
LEMMA SpansOneMore ==
    ASSUME NEW t, NEW pieces, NEW s, NEW e
    PROVE  SpansOf(t, pieces \cup {<<s, e>>}) = SpansOf(t, pieces) \cup ToSet(Stripped(t, s, e))
<1> DEFINE V(p) == ToSet(Stripped(t, p[1], p[2]))
           q == <<s, e>>
<1>1. V(q) = ToSet(Stripped(t, s, e))
  OBVIOUS
<1>2. \A P : SpansOf(t, P) = UNION {V(p) : p \in P}
  BY DEF SpansOf
<1> HIDE DEF V, q
<1>3. UNION {V(p) : p \in pieces \cup {q}} = (UNION {V(p) : p \in pieces}) \cup V(q)
  OBVIOUS
<1> QED BY <1>1, <1>2, <1>3 DEF q

\* After k characters: the sentences so far are those between the cuts before the start of
\* the next one, and every mark that ends a sentence lies before it.
ScannedTo(t, k, acc) ==
    /\ acc.start = acc.next /\ acc.start <= Len(t) + 1 /\ Begins(t, acc.start)
    /\ \A i \in 1..k : EndsSentence(t, i) => i < acc.start
    /\ ToSet(acc.spans) = SpansOf(t, PiecesBefore(t, acc.start))
    /\ SpansInOrder(acc.spans) /\ SpansBefore(acc.spans, acc.start)

LEMMA ScannedOneMore ==
    ASSUME NEW A, NEW t \in Seq(A), NEW acc \in Scanned, NEW k \in 1..Len(t),
           ScannedTo(t, k - 1, acc)
    PROVE  ScannedTo(t, k, Scan(t, acc, k))
<1> DEFINE n == Len(t)
           s == acc.start
           e == RunEnd(t, k)
<1>1. /\ n \in Nat /\ DOMAIN t = 1..n /\ s \in Nat \ {0} /\ s \in Nat /\ s <= n + 1
      /\ acc.spans \in Seq(Span)
  BY LenProperties DEF Scanned, ScannedTo
<1>2. \A i \in 1..k : i \in 1..(k - 1) \/ i = k
  OBVIOUS
<1>3. CASE acc.next > k \/ ~EndsSentence(t, k)
  <2>1. Scan(t, acc, k) = acc
    BY <1>3 DEF Scan
  <2>2. EndsSentence(t, k) => k < s
    BY <1>1, <1>3 DEF ScannedTo
  <2> QED BY <1>2, <2>1, <2>2 DEF ScannedTo
<1>4. CASE ~(acc.next > k) /\ EndsSentence(t, k)
  <2> DEFINE more == Stripped(t, s, e)
             new == [spans |-> acc.spans \o more, start |-> e + 1, next |-> e + 1]
  <2>1. Scan(t, acc, k) = new
    BY <1>4 DEF Scan, RunEnd
  <2>2. s <= k /\ k \in 1..n
    BY <1>1, <1>4 DEF ScannedTo
  <2>3. e \in k..n /\ Run(t, k, e) /\ (e = n \/ t[e + 1] \notin TerminalGroup)
    BY RunEnds
  <2> HIDE DEF e, n, s
  <2>4. e \in Nat /\ s \in 1..n /\ e \in s..n /\ k \in 1..e /\ e \in 1..n /\ s <= e + 1
    BY <1>1, <2>2, <2>3
  <2>5. e \in Cuts(t)
    BY <1>1, <1>4, <2>3, <2>4 DEF Cuts, Run, n
  <2>6. Begins(t, s) /\ \A i \in 1..(k - 1) : EndsSentence(t, i) => i < s
    BY DEF ScannedTo, s
  <2>7. ASSUME NEW c \in s..(e - 1), c \in Cuts(t) PROVE FALSE
    <3>1. s <= c
      BY <1>1, <2>4
    <3>2. PICK i \in s..c : EndsSentence(t, i) /\ Run(t, i, c)
      BY <1>1, <2>6, <2>7, <3>1, CutAfter
    <3>3. i \notin 1..(k - 1)
      BY <1>1, <2>4, <2>6, <3>2
    <3>4. k <= i /\ c + 1 \in (k + 1)..e /\ c # n
      BY <1>1, <2>2, <2>4, <3>3
    <3>5. t[c + 1] \in TerminalGroup
      BY <2>3, <3>4 DEF Run
    <3> QED BY <2>7, <3>4, <3>5 DEF Cuts, n
  <2>8. PiecesBefore(t, e + 1) = PiecesBefore(t, s) \cup {<<s, e>>}
    BY <2>4, <2>5, <2>6, <2>7, NextPiece DEF n
  <2>9. /\ SpansInOrder(acc.spans \o more) /\ SpansBefore(acc.spans \o more, e + 1)
        /\ ToSet(acc.spans \o more) = ToSet(acc.spans) \cup ToSet(more)
    <3>1. SpansInOrder(acc.spans) /\ SpansBefore(acc.spans, s)
      BY DEF ScannedTo, s
    <3> QED BY <1>1, <2>4, <3>1, SpansJoin
  <2>10. ToSet(acc.spans \o more) = SpansOf(t, PiecesBefore(t, e + 1))
    <3>1. ToSet(acc.spans) = SpansOf(t, PiecesBefore(t, s))
      BY DEF ScannedTo, s
    <3> QED BY <2>8, <2>9, <3>1, SpansOneMore
  <2>11. (e + 1) - 1 = e /\ e + 1 <= n + 1
    BY <1>1, <2>4
  <2>12. \A i \in 1..k : i < e + 1
    BY <2>4
  <2> DEFINE joined == acc.spans \o more
             after == e + 1
  <2> HIDE DEF more
  <2>13. /\ SpansInOrder(joined) /\ SpansBefore(joined, after)
         /\ ToSet(joined) = SpansOf(t, PiecesBefore(t, after))
         /\ Begins(t, after) /\ after <= n + 1 /\ \A i \in 1..k : i < after
    BY <2>5, <2>9, <2>10, <2>11, <2>12 DEF Begins
  <2>14. Scan(t, acc, k) = [spans |-> joined, start |-> after, next |-> after]
    BY <2>1
  <2> HIDE DEF joined, after
  <2> QED BY <2>13, <2>14 DEF ScannedTo, n
<1> QED BY <1>3, <1>4

\* The sentences of a text, which SentencesAreCuts speaks of.
CutAsSaid(t) ==
    /\ ToSet(SourceSentences(t)) = SpansOf(t, PiecesOf(t))
    /\ SpansInOrder(SourceSentences(t))

LEMMA SentencesCut ==
    ASSUME NEW A, NEW t \in Seq(A)
    PROVE  CutAsSaid(t) /\ SourceSentences(t) \in Seq(Span)
<1> DEFINE n == Len(t)
<1>1. n \in Nat /\ DOMAIN t = 1..n
  BY LenProperties
<1>2. PICK F \in [0..n -> Scanned] :
         /\ F[0] = NothingScanned
         /\ \A k \in 1..n : F[k] = Scan(t, F[k - 1], k)
         /\ SourceSentences(t) = F[n].spans \o Stripped(t, F[n].start, n)
  BY SentencesScanned
<1> DEFINE P == {k \in 0..n : ScannedTo(t, k, F[k])}
<1>3. 0 \in P
  <2>1. NothingScanned.start = 1 /\ NothingScanned.next = 1 /\ NothingScanned.spans = <<>>
    BY DEF NothingScanned
  <2>2. PiecesBefore(t, 1) = {}
    BY <1>1 DEF PiecesBefore, PiecesOf
  <2>3. SpansOf(t, {}) = {}
    BY DEF SpansOf
  <2>4. /\ ToSet(<<>>) = {}
    BY DEF ToSet
  <2>5. SpansInOrder(<<>>) /\ SpansBefore(<<>>, 1)
    BY DEF SpansInOrder, SpansBefore
  <2>6. Begins(t, 1) /\ 1 <= n + 1
    BY <1>1 DEF Begins
  <2>7. ScannedTo(t, 0, NothingScanned)
    BY <2>1, <2>2, <2>3, <2>4, <2>5, <2>6 DEF ScannedTo
  <2> QED BY <1>1, <1>2, <2>7
<1>4. ASSUME NEW k \in 1..n, k - 1 \in P PROVE k \in P
  <2>1. k \in 0..n /\ k - 1 \in 0..n
    BY <1>1
  <2>2. F[k - 1] \in Scanned /\ ScannedTo(t, k - 1, F[k - 1]) /\ F[k] = Scan(t, F[k - 1], k)
    BY <1>2, <1>4, <2>1
  <2> QED BY <2>1, <2>2, ScannedOneMore
<1>5. \A k \in 0..n : k \in P
  <2> HIDE DEF P
  <2> QED BY <1>1, <1>3, <1>4, UpTo
<1> DEFINE acc == F[n]
           s == acc.start
           more == Stripped(t, s, n)
<1>6. acc \in Scanned /\ ScannedTo(t, n, acc)
  <2>1. n \in 0..n
    BY <1>1
  <2> QED BY <1>2, <1>5, <2>1
<1> HIDE DEF acc, P
<1>7. /\ s \in Nat \ {0} /\ s \in Nat /\ s <= n + 1 /\ acc.spans \in Seq(Span) /\ Begins(t, s)
      /\ \A i \in 1..n : EndsSentence(t, i) => i < s
      /\ ToSet(acc.spans) = SpansOf(t, PiecesBefore(t, s))
      /\ SpansInOrder(acc.spans) /\ SpansBefore(acc.spans, s)
  BY <1>6 DEF Scanned, ScannedTo
<1>8. SourceSentences(t) = acc.spans \o more
  BY <1>2 DEF acc
<1> HIDE DEF s
<1>9. /\ acc.spans \o more \in Seq(Span) /\ SpansInOrder(acc.spans \o more)
      /\ ToSet(acc.spans \o more) = ToSet(acc.spans) \cup ToSet(more)
  BY <1>1, <1>7, SpansJoin
<1>10. PiecesOf(t) = PiecesBefore(t, n + 1)
  BY <1>1 DEF PiecesOf, PiecesBefore
<1>11. SpansOf(t, PiecesOf(t)) = SpansOf(t, PiecesBefore(t, s)) \cup ToSet(more)
  <2>1. CASE s = n + 1
    <3>1. \A i : i \notin s..n
      BY <1>1, <2>1
    <3>2. more = <<>>
      BY <3>1 DEF Stripped
    <3>3. ToSet(<<>>) = {}
      BY DEF ToSet
    <3> HIDE DEF more
    <3> QED BY <1>10, <2>1, <3>2, <3>3
  <2>2. CASE s # n + 1
    <3>1. s \in 1..n /\ n \in s..n
      BY <1>1, <1>7, <2>2
    <3>2. ASSUME NEW c \in s..(n - 1), c \in Cuts(t) PROVE FALSE
      <4>1. s <= c
        BY <1>1, <3>1
      <4>2. PICK i \in s..c : EndsSentence(t, i) /\ Run(t, i, c)
        BY <1>1, <1>7, <3>2, <4>1, CutAfter
      <4>3. i \in 1..n /\ ~(i < s)
        BY <1>1, <1>7, <3>1, <4>2
      <4> QED BY <1>7, <4>2, <4>3
    <3>3. PiecesBefore(t, n + 1) = PiecesBefore(t, s) \cup {<<s, n>>}
      BY <1>7, <3>1, <3>2, NextPiece
    <3> QED BY <1>10, <3>3, SpansOneMore
  <2> QED BY <2>1, <2>2
<1> HIDE DEF more
<1> QED BY <1>7, <1>8, <1>9, <1>11 DEF CutAsSaid

TextOK == text \in Seq(Character)

LEMMA TextSteps ==
    ASSUME TextOK, [ExtractionNext]_extractionVars
    PROVE  TextOK'
<1>1. CASE TypeCharacter
  BY <1>1, AppendProperties DEF TextOK, TypeCharacter
<1>2. CASE Extract
  BY <1>2 DEF TextOK, Extract
<1>3. CASE UNCHANGED extractionVars
  BY <1>3 DEF TextOK, extractionVars
<1> QED BY <1>1, <1>2, <1>3 DEF ExtractionNext

\* The sentences of a text are what lies between its cuts, without the white space around
\* it, in order and with nothing lost, for any text (_source_sentences).
THEOREM SentencesAreCutsAlways == ExtractionSpec => []SentencesAreCuts
<1>1. ExtractionInit => TextOK
  <2>1. <<>> \in Seq(Character)
    OBVIOUS
  <2> QED BY <2>1 DEF ExtractionInit, TextOK
<1>2. TextOK /\ [ExtractionNext]_extractionVars => TextOK'
  BY TextSteps
<1>3. TextOK => SentencesAreCuts
  <2> SUFFICES ASSUME TextOK PROVE SentencesAreCuts
    OBVIOUS
  <2>1. CutAsSaid(text) /\ SourceSentences(text) \in Seq(Span)
    BY SentencesCut DEF TextOK
  <2>2. DOMAIN SourceSentences(text) = 1..Len(SourceSentences(text))
    BY <2>1, LenProperties
  <2> QED BY <2>1, <2>2 DEF SentencesAreCuts, CutAsSaid, PiecesOf, SpansOf, SpansInOrder
<1> QED BY <1>1, <1>2, <1>3, PTL DEF ExtractionSpec

-----------------------------------------------------------------------------
(* Planning: the course plan *)

PlanState == [items : Seq([semester : Int, course : Int, credits : Int]), warnings : Int]

\* The semester a course should be taken in.
Wanted(profile, course) ==
    StartSemester[profile.grade] + course.semester - 1 + (IF profile.late THEN 2 ELSE 0)

\* A step of the plan appends one item, in the wanted semester or the one after.
LEMMA PlacedOne ==
    ASSUME NEW plan \in PlanState, NEW course \in CatalogueCourse, NEW profile,
           profile.grade \in DOMAIN StartSemester
    PROVE  /\ Placed(profile, plan, course) \in PlanState
           /\ \E item \in [semester : Int, course : Int, credits : Int] :
                 /\ Placed(profile, plan, course).items = Append(plan.items, item)
                 /\ item.semester \in {Wanted(profile, course), Wanted(profile, course) + 1}
           /\ Wanted(profile, course) \in Int
<1> DEFINE wanted == Wanted(profile, course)
           s == Shifted(plan.items, course, wanted)
           item == [semester |-> s, course |-> course.course, credits |-> course.credits]
           beyond == IF s > wanted /\ s > 12 THEN 1 ELSE 0
           away == IF ~profile.flexible /\ profile.campus # None
             /\ course.campus # profile.campus
                   THEN 1 ELSE 0
<1>1. StartSemester[profile.grade] \in Int
  BY DEF StartSemester
<1>2. wanted \in Int
  BY <1>1 DEF Wanted, CatalogueCourse
<1>3. s \in {wanted, wanted + 1}
  BY DEF Shifted
<1>4. item \in [semester : Int, course : Int, credits : Int]
  <2> HIDE DEF wanted
  <2> QED BY <1>2, <1>3 DEF CatalogueCourse
<1>5. beyond \in Int /\ away \in Int
  OBVIOUS
<1>6. Placed(profile, plan, course)
        = [items |-> Append(plan.items, item), warnings |-> plan.warnings + beyond + away]
  BY DEF Placed, Wanted
<1> HIDE DEF item, beyond, away
<1>7. Append(plan.items, item) \in Seq([semester : Int, course : Int, credits : Int])
  BY <1>4, AppendProperties DEF PlanState
<1>8. Placed(profile, plan, course) \in PlanState
  BY <1>5, <1>6, <1>7 DEF PlanState
<1> QED BY <1>2, <1>3, <1>4, <1>6, <1>8 DEF item

\* The semesters of the first items of a plan.
Follow(profile, courses, plan, k) ==
    /\ plan \in PlanState /\ Len(plan.items) = k
    /\ \A n \in 1..k :
          plan.items[n].semester
            \in {Wanted(profile, courses[n]), Wanted(profile, courses[n]) + 1}

\* The plan of generate_plan, and the plan after each of its courses.
NoItems == [items |-> <<>>, warnings |-> 0]
Laid(profile, courses) ==
    FoldLeft(LAMBDA p, c : Placed(profile, p, c), NoItems, courses)

\* The plan after each of its courses.
LEMMA PlacedSteps ==
    ASSUME NEW courses \in Seq(CatalogueCourse), NEW profile,
           profile.grade \in DOMAIN StartSemester
    PROVE  \E F \in [0..Len(courses) -> PlanState] :
              /\ F[0] = NoItems
              /\ \A k \in 1..Len(courses) : F[k] = Placed(profile, F[k - 1], courses[k])
              /\ Laid(profile, courses) = F[Len(courses)]
<1> DEFINE n == Len(courses)
           base == NoItems
           step == [q \in (1..n) \X PlanState |-> Placed(profile, q[2], courses[q[1]])]
           Eqn(h) == h = [s \in SUBSET (1..n) |->
                            IF s = {} THEN base
                            ELSE Placed(profile, h[s \ {Max(s)}], courses[Max(s)])]
           iter == CHOOSE h : Eqn(h)
<1>1. n \in Nat /\ DOMAIN courses = 1..n /\ \A k \in 1..n : courses[k] \in CatalogueCourse
  BY LenProperties, ElementOfSeq
<1>2. base \in PlanState /\ step \in [(1..n) \X PlanState -> PlanState]
  <2>1. base \in PlanState
    BY DEF NoItems, PlanState
  <2>2. \A p \in PlanState, c \in CatalogueCourse : Placed(profile, p, c) \in PlanState
    BY PlacedOne
  <2> QED BY <1>1, <2>1, <2>2
<1>3. Laid(profile, courses) = iter[1..n]
  BY <1>1 DEF Laid, FoldLeft, MapThenFoldSet
<1>4. \E h : Eqn(h)
  <2>1. PICK h \in [SUBSET (1..n) -> PlanState] : IsTable(h, n, base, step)
    <3>1. n \in Nat
      BY <1>1
    <3> HIDE DEF step, n
    <3> QED BY <3>1, <1>2, FoldTable
  <2>2. ASSUME NEW s \in SUBSET (1..n), s # {}
        PROVE  step[<<Max(s), h[s \ {Max(s)}]>>]
                 = Placed(profile, h[s \ {Max(s)}], courses[Max(s)])
    <3>1. Max(s) \in 1..n
      BY <1>1, <2>2, MaxIsIn
    <3> QED BY <3>1, <2>1
  <2>3. h = [s \in SUBSET (1..n) |->
                            IF s = {} THEN base
                            ELSE Placed(profile, h[s \ {Max(s)}], courses[Max(s)])]
    <3> HIDE DEF step, n
    <3> QED BY <2>1, <2>2 DEF IsTable
  <2> QED BY <2>3
<1>5. Eqn(iter)
  <2> HIDE DEF Eqn
  <2> QED BY <1>4
<1>6. Follows(iter, n, PlanState, base, step)
  <2> HIDE DEF iter
  <2>1. \A s \in SUBSET (1..n) : iter[s] = IF s = {} THEN base
                            ELSE Placed(profile, iter[s \ {Max(s)}], courses[Max(s)])
    BY <1>5
  <2>2. \A s \in SUBSET (1..n) : s # {} => Max(s) \in 1..n
    BY <1>1, MaxIsIn
  <2> QED BY <1>1, <1>2, <2>1, <2>2 DEF Follows
<1>7. n \in Nat
  BY <1>1
<1> HIDE DEF iter, step, n, Eqn
<1>8. PICK F \in [0..n -> PlanState] : IsWalk(F, n, base, step) /\ F[n] = iter[1..n]
  BY <1>6, FoldWalk
<1>9. \A k \in 1..n : F[k - 1] \in PlanState
        /\ step[<<k, F[k - 1]>>] = Placed(profile, F[k - 1], courses[k])
  BY <1>7, <1>8 DEF step
<1> QED BY <1>3, <1>8, <1>9 DEF n, IsWalk

\* Every item of the plan follows its course.
LEMMA PlanFollows ==
    ASSUME NEW courses \in Seq(CatalogueCourse), NEW profile,
           profile.grade \in DOMAIN StartSemester
    PROVE  Follow(profile, courses, Laid(profile, courses), Len(courses))
<1> DEFINE n == Len(courses)
<1>3. n \in Nat /\ \A k \in 1..n : courses[k] \in CatalogueCourse
  BY LenProperties, ElementOfSeq
<1>4. PICK F \in [0..n -> PlanState] :
              /\ F[0] = NoItems
              /\ \A k \in 1..n : F[k] = Placed(profile, F[k - 1], courses[k])
              /\ Laid(profile, courses) = F[n]
  BY PlacedSteps
<1> DEFINE P == {k \in 0..n : Follow(profile, courses, F[k], k)}
<1>5. 0 \in P
  BY <1>3, <1>4 DEF Follow, NoItems
<1> HIDE DEF n
<1>6. ASSUME NEW k \in 1..n, k - 1 \in P PROVE k \in P
  <2> DEFINE before == F[k - 1]
             items == before.items
  <2>1. before \in PlanState /\ courses[k] \in CatalogueCourse /\ F[k]
          = Placed(profile, before, courses[k])
    BY <1>3, <1>4
  <2>2. Follow(profile, courses, before, k - 1)
    BY <1>6
  <2> HIDE DEF before
  <2>3. PICK item \in [semester : Int, course : Int, credits : Int] :
                 /\ F[k].items = Append(before.items, item)
                 /\ item.semester
                      \in {Wanted(profile, courses[k]), Wanted(profile, courses[k]) + 1}
    BY <2>1, PlacedOne
  <2>4. F[k] \in PlanState
    BY <1>3, <1>4
  <2>5. items \in Seq([semester : Int, course : Int, credits : Int]) /\ Len(items) = k - 1
    BY <2>1, <2>2 DEF PlanState, Follow
  <2>6. Len(F[k].items) = k /\ F[k].items[k] = item /\ \A m \in 1..(k - 1) : F[k].items[m]
          = items[m]
    BY <2>3, <2>5, AppendProperties
  <2>7. \A m \in 1..k : m = k \/ m \in 1..(k - 1)
    OBVIOUS
  <2> HIDE DEF items
  <2>8. \A m \in 1..k :
          F[k].items[m].semester
            \in {Wanted(profile, courses[m]), Wanted(profile, courses[m]) + 1}
    BY <2>2, <2>3, <2>6, <2>7 DEF Follow, items
  <2> QED BY <2>4, <2>6, <2>8 DEF Follow
<1>7. n \in P
  <2> HIDE DEF P
  <2>1. n \in 0..n
    BY <1>3
  <2> QED BY <1>3, <1>5, <1>6, <2>1, UpTo
<1> QED BY <1>4, <1>7 DEF n

\* (generate_plan) OrderKept in every behaviour.
THEOREM OrderKeptAlways == PlanningSpec => []OrderKept
<1>1. PlanningInit => OrderKept
  BY DEF PlanningInit, OrderKept, Asked
<1>2. OrderKept /\ [PlanningNext]_planningVars => OrderKept'
  <2> SUFFICES ASSUME OrderKept, [PlanningNext]_planningVars PROVE OrderKept'
    OBVIOUS
  <2>1. CASE CoursePlan
    <3>1. PICK courses \in CoursePlans, profile \in PlanProfiles :
             Answered([kind |-> "plan", courses |-> courses, profile |-> profile],
                      GeneratePlan(courses, profile))
      BY <2>1 DEF CoursePlan
    <3>2. courses \in Seq(CatalogueCourse) /\ profile.grade \in DOMAIN StartSemester
      BY PlanningAssumption
    <3> DEFINE plan == Laid(profile, courses)
               n == Len(courses)
    <3>3. Follow(profile, courses, plan, n)
      BY <3>2, PlanFollows
    <3>4. request'.courses = courses /\ answer'.items = plan.items
          /\ answer'.alternative = [k \in DOMAIN plan.items |->
                                       [plan.items[k] EXCEPT !.semester = @ + 1]]
      BY <3>1 DEF Answered, GeneratePlan, Laid, NoItems
    <3>5. n \in Nat /\ DOMAIN courses = 1..n
          /\ \A k \in 1..n : courses[k] \in CatalogueCourse
      BY <3>2, LenProperties, ElementOfSeq
    <3> HIDE DEF plan, n
    <3>6. DOMAIN plan.items = 1..n
          /\ \A k \in 1..n : plan.items[k] \in [semester : Int, course : Int, credits : Int]
      BY <3>3, <3>5, LenProperties, ElementOfSeq DEF Follow, PlanState
    <3>7. \A k \in 1..n : answer'.items[k].semester = plan.items[k].semester
             /\ answer'.alternative[k].semester = plan.items[k].semester + 1
      BY <3>4, <3>6
    <3>8. ASSUME NEW m \in 1..n, NEW k \in 1..n, courses[m].semester < courses[k].semester
          PROVE  plan.items[m].semester <= plan.items[k].semester
      <4>1. courses[m].semester \in Int /\ courses[k].semester \in Int
        BY <3>5 DEF CatalogueCourse
      <4>2. StartSemester[profile.grade] \in Int
        BY <3>2 DEF StartSemester
      <4>3. /\ plan.items[m].semester
              \in {Wanted(profile, courses[m]), Wanted(profile, courses[m]) + 1}
            /\ plan.items[k].semester
                 \in {Wanted(profile, courses[k]), Wanted(profile, courses[k]) + 1}
        BY <3>3 DEF Follow
      <4>4. Wanted(profile, courses[m]) \in Int /\ Wanted(profile, courses[k]) \in Int
            /\ Wanted(profile, courses[m]) + 1 <= Wanted(profile, courses[k])
        BY <3>8, <4>1, <4>2 DEF Wanted
      <4> QED BY <4>3, <4>4
    <3>9. \A k \in 1..n : plan.items[k].semester \in Int
      BY <3>6
    <3>10. \A m, k \in 1..n : courses[m].semester < courses[k].semester =>
              /\ answer'.items[m].semester <= answer'.items[k].semester
              /\ answer'.alternative[m].semester <= answer'.alternative[k].semester
      BY <3>7, <3>8, <3>9
    <3> QED BY <3>4, <3>5, <3>10 DEF OrderKept
  <2>2. CASE AutoScheduleProgram \/ ProgramEligibility \/ RecommendPrograms
    <3>1. request'.kind # "plan"
      BY <2>2 DEF AutoScheduleProgram, ProgramEligibility, RecommendPrograms, Answered
    <3> QED BY <3>1 DEF OrderKept, Asked
  <2>3. CASE UNCHANGED planningVars
    BY <2>3 DEF planningVars, OrderKept, Asked
  <2> QED BY <2>1, <2>2, <2>3 DEF PlanningNext
<1> QED BY <1>1, <1>2, PTL DEF PlanningSpec

-----------------------------------------------------------------------------
(* Planning: the credits *)

\* The courses counted and their credits.
Count == [courses : SUBSET Int, credits : Nat]
NoCount == [courses |-> {}, credits |-> 0]

Counted(acc, r) ==
    IF r.status # "completed" \/ r.course \in acc.courses THEN acc
    ELSE [courses |-> acc.courses \cup {r.course}, credits |-> acc.credits + r.credits]

\* What is counted after each record.
LEMMA CreditedSteps ==
    ASSUME NEW records \in Seq(LearningRecord)
    PROVE  \E F \in [0..Len(records) -> Count] :
              /\ F[0] = NoCount
              /\ \A k \in 1..Len(records) : F[k] = Counted(F[k - 1], records[k])
              /\ Credited(records) = F[Len(records)]
<1> DEFINE n == Len(records)
           base == NoCount
           step == [q \in (1..n) \X Count |-> Counted(q[2], records[q[1]])]
           Eqn(h) == h = [s \in SUBSET (1..n) |->
                            IF s = {} THEN base
                            ELSE Counted(h[s \ {Max(s)}], records[Max(s)])]
           iter == CHOOSE h : Eqn(h)
<1>1. n \in Nat /\ DOMAIN records = 1..n /\ \A k \in 1..n : records[k] \in LearningRecord
  BY LenProperties, ElementOfSeq
<1>2. base \in Count /\ step \in [(1..n) \X Count -> Count]
  <2>1. base \in Count
    BY DEF Count, NoCount
  <2>2. \A a \in Count, r \in LearningRecord : Counted(a, r) \in Count
    BY DEF Count, Counted, LearningRecord
  <2> QED BY <1>1, <2>1, <2>2
<1>3. Credited(records) = iter[1..n]
  BY <1>1 DEF Credited, FoldLeft, MapThenFoldSet, Counted, NoCount
<1>4. \E h : Eqn(h)
  <2>1. PICK h \in [SUBSET (1..n) -> Count] : IsTable(h, n, base, step)
    <3>1. n \in Nat
      BY <1>1
    <3> HIDE DEF step, n, base
    <3> QED BY <3>1, <1>2, FoldTable
  <2>2. ASSUME NEW s \in SUBSET (1..n), s # {}
        PROVE  step[<<Max(s), h[s \ {Max(s)}]>>] = Counted(h[s \ {Max(s)}], records[Max(s)])
    <3>1. Max(s) \in 1..n
      BY <1>1, <2>2, MaxIsIn
    <3>2. h[s \ {Max(s)}] \in Count
      BY <2>1
    <3> QED BY <3>1, <3>2
  <2>3. Eqn(h)
    <3> HIDE DEF step, n, base
    <3> QED BY <2>1, <2>2 DEF IsTable
  <2> QED BY <2>3
<1>5. Eqn(iter)
  <2> HIDE DEF Eqn
  <2> QED BY <1>4
<1>6. Follows(iter, n, Count, base, step)
  <2> HIDE DEF iter, base
  <2>1. \A s \in SUBSET (1..n) :
           iter[s] = IF s = {} THEN base
                     ELSE Counted(iter[s \ {Max(s)}], records[Max(s)])
    BY <1>5
  <2>2. \A s \in SUBSET (1..n) : s # {} => Max(s) \in 1..n
    BY <1>1, MaxIsIn
  <2> QED BY <1>1, <1>2, <2>1, <2>2 DEF Follows
<1> HIDE DEF iter, step, n, base, Eqn
<1>7. PICK F \in [0..n -> Count] : IsWalk(F, n, base, step) /\ F[n] = iter[1..n]
  BY <1>6, FoldWalk
<1>8. \A k \in 1..n : F[k - 1] \in Count
        /\ step[<<k, F[k - 1]>>] = Counted(F[k - 1], records[k])
  BY <1>1, <1>7 DEF step
<1> QED BY <1>3, <1>7, <1>8 DEF n, base, IsWalk

AddedIf(sum, r, status) == IF r.status = status THEN sum + r.credits ELSE sum

\* The credits shown after each record.
LEMMA CreditsSteps ==
    ASSUME NEW records \in Seq(LearningRecord), NEW status
    PROVE  \E F \in [0..Len(records) -> Nat] :
              /\ F[0] = 0
              /\ \A k \in 1..Len(records) : F[k] = AddedIf(F[k - 1], records[k], status)
              /\ CreditsOf(records, status) = F[Len(records)]
<1> DEFINE n == Len(records)
           base == 0
           step == [q \in (1..n) \X Nat |-> AddedIf(q[2], records[q[1]], status)]
           Eqn(h) == h = [s \in SUBSET (1..n) |->
                            IF s = {} THEN base
                            ELSE AddedIf(h[s \ {Max(s)}], records[Max(s)], status)]
           iter == CHOOSE h : Eqn(h)
<1>1. n \in Nat /\ DOMAIN records = 1..n /\ \A k \in 1..n : records[k] \in LearningRecord
  BY LenProperties, ElementOfSeq
<1>2. base \in Nat /\ step \in [(1..n) \X Nat -> Nat]
  <2>1. \A a \in Nat, r \in LearningRecord : AddedIf(a, r, status) \in Nat
    BY DEF AddedIf, LearningRecord
  <2> QED BY <1>1, <2>1
<1>3. CreditsOf(records, status) = iter[1..n]
  BY <1>1 DEF CreditsOf, FoldLeft, MapThenFoldSet, AddedIf
<1>4. \E h : Eqn(h)
  <2>1. PICK h \in [SUBSET (1..n) -> Nat] : IsTable(h, n, base, step)
    <3>1. n \in Nat
      BY <1>1
    <3> HIDE DEF step, n, base
    <3> QED BY <3>1, <1>2, FoldTable
  <2>2. ASSUME NEW s \in SUBSET (1..n), s # {}
        PROVE  step[<<Max(s), h[s \ {Max(s)}]>>]
                 = AddedIf(h[s \ {Max(s)}], records[Max(s)], status)
    <3>1. Max(s) \in 1..n
      BY <1>1, <2>2, MaxIsIn
    <3>2. h[s \ {Max(s)}] \in Nat
      BY <2>1
    <3> QED BY <3>1, <3>2
  <2>3. Eqn(h)
    <3> HIDE DEF step, n, base
    <3> QED BY <2>1, <2>2 DEF IsTable
  <2> QED BY <2>3
<1>5. Eqn(iter)
  <2> HIDE DEF Eqn
  <2> QED BY <1>4
<1>6. Follows(iter, n, Nat, base, step)
  <2> HIDE DEF iter, base
  <2>1. \A s \in SUBSET (1..n) :
           iter[s] = IF s = {} THEN base
                     ELSE AddedIf(iter[s \ {Max(s)}], records[Max(s)], status)
    BY <1>5
  <2>2. \A s \in SUBSET (1..n) : s # {} => Max(s) \in 1..n
    BY <1>1, MaxIsIn
  <2> QED BY <1>1, <1>2, <2>1, <2>2 DEF Follows
<1> HIDE DEF iter, step, n, base, Eqn
<1>7. PICK F \in [0..n -> Nat] : IsWalk(F, n, base, step) /\ F[n] = iter[1..n]
  BY <1>6, FoldWalk
<1>8. \A k \in 1..n : F[k - 1] \in Nat
        /\ step[<<k, F[k - 1]>>] = AddedIf(F[k - 1], records[k], status)
  BY <1>1, <1>7 DEF step
<1> QED BY <1>3, <1>7, <1>8 DEF n, base, IsWalk

Completed(records) == {n \in DOMAIN records : records[n].status = "completed"}
Once(records) ==
    \A m, n \in Completed(records) : records[m].course = records[n].course => m = n

CompletedTo(records, k) == {m \in 1..k : records[m].status = "completed"}

\* After k records: what is counted beside what is shown.
CountedTo(records, k, count, shown) ==
    /\ count.courses = {records[m].course : m \in CompletedTo(records, k)}
    /\ count.credits <= shown
    /\ Once(records) => count.credits = shown

\* Counting a course once gives no more credits than the records show.
LEMMA CountedOnce ==
    ASSUME NEW records \in Seq(LearningRecord)
    PROVE  /\ Credited(records) \in Count /\ CreditsOf(records, "completed") \in Nat
           /\ Credited(records).courses = {records[m].course : m \in Completed(records)}
           /\ Credited(records).credits <= CreditsOf(records, "completed")
           /\ Once(records) => Credited(records).credits = CreditsOf(records, "completed")
<1> DEFINE n == Len(records)
<1>1. n \in Nat /\ DOMAIN records = 1..n /\ \A k \in 1..n : records[k] \in LearningRecord
  BY LenProperties, ElementOfSeq
<1>2. PICK F \in [0..n -> Count] :
         /\ F[0] = NoCount /\ \A k \in 1..n : F[k] = Counted(F[k - 1], records[k])
         /\ Credited(records) = F[n]
  BY CreditedSteps
<1>3. PICK S \in [0..n -> Nat] :
         /\ S[0] = 0 /\ \A k \in 1..n : S[k] = AddedIf(S[k - 1], records[k], "completed")
         /\ CreditsOf(records, "completed") = S[n]
  BY CreditsSteps
<1> HIDE DEF n
<1> DEFINE P == {k \in 0..n : CountedTo(records, k, F[k], S[k])}
<1>4. 0 \in P
  <2>1. CompletedTo(records, 0) = {}
    BY DEF CompletedTo
  <2> QED BY <1>1, <1>2, <1>3, <2>1 DEF NoCount, CountedTo
<1>5. ASSUME NEW k \in 1..n, k - 1 \in P PROVE k \in P
  <2> DEFINE r == records[k]
             before == F[k - 1]
             shown == S[k - 1]
             earlier == CompletedTo(records, k - 1)
             now == CompletedTo(records, k)
  <2>1. /\ k \in Nat /\ k \in 0..n /\ k - 1 \in 0..n
        /\ r \in LearningRecord /\ before \in Count /\ shown \in Nat
        /\ F[k] = Counted(before, r) /\ S[k] = AddedIf(shown, r, "completed")
    BY <1>1, <1>2, <1>3
  <2>2. /\ before.courses = {records[m].course : m \in earlier}
        /\ before.credits <= shown
        /\ Once(records) => before.credits = shown
    BY <1>5 DEF CountedTo
  <2>3. \A m \in 1..k : m = k \/ m \in 1..(k - 1)
    BY <2>1
  <2>4. 1..(k - 1) \subseteq 1..k /\ k \in 1..k /\ k \notin 1..(k - 1)
    BY <2>1
  <2>5. /\ r.credits \in Nat /\ before.credits \in Nat /\ before.courses \subseteq Int
    BY <2>1 DEF LearningRecord, Count
  <2> HIDE DEF before, shown, P, earlier, now
  <2>6. CASE r.status # "completed"
    <3>1. F[k] = before /\ S[k] = shown
      BY <2>1, <2>6 DEF Counted, AddedIf
    <3>2. now = earlier
      BY <2>3, <2>4, <2>6 DEF earlier, now, CompletedTo
    <3>3. /\ F[k].courses = {records[m].course : m \in now} /\ F[k].credits <= S[k]
          /\ (Once(records) => F[k].credits = S[k])
      BY <2>2, <3>1, <3>2
    <3> QED BY <2>1, <3>3 DEF P, CountedTo, now
  <2>7. CASE r.status = "completed" /\ r.course \in before.courses
    <3>1. F[k] = before /\ S[k] = shown + r.credits
      BY <2>1, <2>7 DEF Counted, AddedIf
    <3>2. PICK m \in earlier : records[m].course = r.course
      BY <2>2, <2>7
    <3>3. now = earlier \cup {k}
      BY <2>3, <2>4, <2>7 DEF earlier, now, CompletedTo
    <3>4. ~Once(records)
      <4>1. m \in Completed(records) /\ k \in Completed(records) /\ m # k
        BY <1>1, <2>1, <2>4, <2>7, <3>2 DEF Completed, earlier, CompletedTo
      <4> QED BY <3>2, <4>1 DEF Once
    <3>5. {records[j].course : j \in now} = {records[j].course : j \in earlier}
      BY <3>2, <3>3
    <3>6. F[k].credits <= S[k]
      BY <2>2, <2>5, <2>1, <3>1
    <3>7. F[k].courses = {records[j].course : j \in now}
      BY <2>2, <3>1, <3>5
    <3> QED BY <2>1, <3>4, <3>6, <3>7 DEF P, CountedTo, now
  <2>8. CASE r.status = "completed" /\ r.course \notin before.courses
    <3>1. /\ F[k].courses = before.courses \cup {r.course}
          /\ F[k].credits = before.credits + r.credits
          /\ S[k] = shown + r.credits
      BY <2>1, <2>8 DEF Counted, AddedIf
    <3>2. now = earlier \cup {k}
      BY <2>3, <2>4, <2>8 DEF earlier, now, CompletedTo
    <3>3. F[k].courses = {records[j].course : j \in now}
      BY <2>2, <3>1, <3>2
    <3>4. F[k].credits <= S[k] /\ (Once(records) => F[k].credits = S[k])
      BY <2>1, <2>2, <2>5, <3>1
    <3> QED BY <2>1, <3>3, <3>4 DEF P, CountedTo, now
  <2> QED BY <2>6, <2>7, <2>8
<1>6. n \in P
  <2>1. n \in 0..n
    BY <1>1
  <2> HIDE DEF P
  <2> QED BY <1>1, <1>4, <1>5, <2>1, UpTo
<1>7. CompletedTo(records, n) = Completed(records)
  BY <1>1 DEF Completed, CompletedTo
<1>8. n \in 0..n
  BY <1>1
<1>9. CountedTo(records, n, F[n], S[n])
  BY <1>6
<1> QED BY <1>2, <1>3, <1>7, <1>8, <1>9 DEF CountedTo

\* (evaluate_program_eligibility, _summarize_learning_records) CreditsAgree in every behaviour.
THEOREM CreditsAgreeAlways == PlanningSpec => []CreditsAgree
<1>1. PlanningInit => CreditsAgree
  BY DEF PlanningInit, CreditsAgree, Asked
<1>2. CreditsAgree /\ [PlanningNext]_planningVars => CreditsAgree'
  <2> SUFFICES ASSUME CreditsAgree, [PlanningNext]_planningVars PROVE CreditsAgree'
    OBVIOUS
  <2>1. CASE ProgramEligibility
    <3>1. PICK program \in ToSet(Programs), items \in PlanItemLists, records \in RecordLists :
             Answered([kind |-> "eligibility", program |-> program, items |-> items,
                       records |-> records],
                      EvaluateProgramEligibility(program, items, records))
      BY <2>1 DEF ProgramEligibility
    <3> DEFINE done == Credited(records)
               shown == CreditsOf(records, "completed")
    <3>2. records \in Seq(LearningRecord) /\ program \in Program
      <4>1. Programs \in Seq(Program)
        BY PlanningAssumption
      <4>2. \A n \in DOMAIN Programs : Programs[n] \in Program
        BY <4>1, LenProperties, ElementOfSeq
      <4> QED BY <4>2, PlanningAssumption DEF ToSet
    <3>3. /\ done \in Count /\ shown \in Nat
          /\ done.courses = {records[m].course : m \in Completed(records)}
          /\ done.credits <= shown /\ (Once(records) => done.credits = shown)
      BY <3>2, CountedOnce
    <3>4. /\ request'.program = program /\ request'.items = items /\ request'.records = records
          /\ answer'.credits = done.credits
          /\ answer'.eligible =>
                /\ {items[n].course : n \in DOMAIN items} \ done.courses = {}
                /\ done.credits >= program.credits
      BY <3>1 DEF Answered, EvaluateProgramEligibility
    <3>5. program.credits \in Int /\ done.credits \in Nat
      BY <3>2, <3>3 DEF Program, Count
    <3> HIDE DEF done, shown
    <3>6. answer'.eligible =>
             /\ shown >= program.credits
             /\ \A n \in DOMAIN items : \E m \in Completed(records) :
                   records[m].course = items[n].course
      BY <3>3, <3>4, <3>5
    <3> QED BY <3>3, <3>4, <3>6 DEF CreditsAgree, Completed, Once, shown
  <2>2. CASE AutoScheduleProgram \/ CoursePlan \/ RecommendPrograms
    <3>1. request'.kind # "eligibility"
      BY <2>2 DEF AutoScheduleProgram, CoursePlan, RecommendPrograms, Answered
    <3> QED BY <3>1 DEF CreditsAgree, Asked
  <2>3. CASE UNCHANGED planningVars
    BY <2>3 DEF planningVars, CreditsAgree, Asked
  <2> QED BY <2>1, <2>2, <2>3 DEF PlanningNext
<1> QED BY <1>1, <1>2, PTL DEF PlanningSpec

-----------------------------------------------------------------------------
(* Planning: the recommendation *)

\* The programs that pass, and their order.
Passing(p) == {n \in DOMAIN Programs : HardFilter(Programs[n], p)}

Preferred(p) ==
    {q \in Passing(p) \X Passing(p) :
        \/ ScoreProgram(Programs[q[1]], p) > ScoreProgram(Programs[q[2]], p)
        \/ ScoreProgram(Programs[q[1]], p) = ScoreProgram(Programs[q[2]], p) /\ q[1] < q[2]}

\* The rows of the catalogue.
LEMMA ProgramTypes ==
    /\ Len(Programs) \in Nat /\ DOMAIN Programs = 1..Len(Programs)
    /\ \A n \in DOMAIN Programs : Programs[n] \in Program
<1>1. Programs \in Seq(Program)
  BY PlanningAssumption
<1> QED BY <1>1, LenProperties, ElementOfSeq

\* The parts of a score.
Exact(program, p) ==
    120 * (28 * Fit(p.interests, program) + 22 * Fit(p.career, program)
           + 22 * Prerequisites(program, p) + 11 * Campus(program, p))
    + 17 * 100 * Lightness(program)

\* A score is a number, and a larger sum does not round to a smaller one.
LEMMA ScoreTypes ==
    ASSUME NEW program \in Program, NEW p
    PROVE  /\ Fit(p.interests, program) \in Nat /\ Fit(p.career, program) \in Nat
           /\ Prerequisites(program, p) \in Nat /\ Campus(program, p) \in Nat
           /\ Lightness(program) \in Int /\ Exact(program, p) \in Int
           /\ ScoreProgram(program, p) \in Int
<1>1. /\ Fit(p.interests, program) \in Nat /\ Fit(p.career, program) \in Nat
      /\ Prerequisites(program, p) \in Nat /\ Campus(program, p) \in Nat
  BY DEF Fit, Prerequisites, Campus
<1>2. Lightness(program) \in Int
  <2>1. 120 - program.credits \in Int /\ 36 \in Int
    BY DEF Program
  <2> QED BY <2>1, LargerOfTwo DEF Lightness
<1>3. Exact(program, p) \in Int
  BY <1>1, <1>2 DEF Exact
<1>4. ScoreProgram(program, p) = (Exact(program, p) + 600) \div 1200
  BY DEF ScoreProgram, Exact
<1>5. \A x \in Int : (x + 600) \div 1200 \in Int
  OBVIOUS
<1> QED BY <1>1, <1>2, <1>3, <1>4, <1>5

\* Every program that passes is recommended, once, and no other.
LEMMA RecommendedPass ==
    ASSUME NEW p
    PROVE  ToSet(Recommend(Programs, p))
             = {[name |-> Programs[n].name, score |-> ScoreProgram(Programs[n], p)] :
                   n \in Passing(p)}
<1> DEFINE S == Passing(p)
           order == Preferred(p)
           score(n) == ScoreProgram(Programs[n], p)
           places == 1..Cardinality(S)
           ranked == Ranked(S, order)
<1>1. S \subseteq 1..Len(Programs)
  BY ProgramTypes DEF Passing
<1>2. IsFiniteSet(S)
  <2>1. 1 \in Int /\ Len(Programs) \in Int
    BY ProgramTypes
  <2>2. IsFiniteSet(1..Len(Programs))
    BY <2>1, FS_Interval
  <2> HIDE DEF S
  <2> QED BY <1>1, <2>2, FS_Subset
<1>3. \A n \in S : score(n) \in Int /\ n \in Int
  BY <1>1, ProgramTypes, ScoreTypes
<1>4. \A x, y \in S : <<x, y>> \in order <=> score(x) > score(y) \/ (score(x)
        = score(y) /\ x < y)
  BY DEF Preferred
<1> HIDE DEF S, order, score
<1>5. StrictOrder(S, order)
  <2>1. \A x \in S : <<x, x>> \notin order
    BY <1>3, <1>4
  <2>2. \A x, y \in S : x = y \/ <<x, y>> \in order \/ <<y, x>> \in order
    <3> SUFFICES ASSUME NEW x \in S, NEW y \in S, x # y
                 PROVE  <<x, y>> \in order \/ <<y, x>> \in order
      OBVIOUS
    <3>1. score(x) \in Int /\ score(y) \in Int /\ x \in Int /\ y \in Int
      BY <1>3
    <3>2. \/ score(x) > score(y) \/ (score(x) = score(y) /\ x < y)
          \/ score(y) > score(x) \/ (score(y) = score(x) /\ y < x)
      BY <3>1
    <3> QED BY <1>4, <3>2
  <2>3. \A x, y, z \in S : <<x, y>> \in order /\ <<y, z>> \in order => <<x, z>> \in order
    <3> SUFFICES ASSUME NEW x \in S, NEW y \in S, NEW z \in S,
                        <<x, y>> \in order, <<y, z>> \in order
                 PROVE  <<x, z>> \in order
      OBVIOUS
    <3>1. /\ score(x) > score(y) \/ (score(x) = score(y) /\ x < y)
          /\ score(y) > score(z) \/ (score(y) = score(z) /\ y < z)
      BY <1>4
    <3>2. /\ score(x) \in Int /\ score(y) \in Int /\ score(z) \in Int
          /\ x \in Int /\ y \in Int /\ z \in Int
      BY <1>3
    <3>3. score(x) > score(z) \/ (score(x) = score(z) /\ x < z)
      BY <3>1, <3>2
    <3> QED BY <1>4, <3>3
  <2> QED BY <2>1, <2>2, <2>3 DEF StrictOrder
<1>6. ranked \in [places -> S] /\ \A x \in S : \E k \in places : ranked[k] = x
  BY <1>2, <1>5, RankedAll
<1>7. Recommend(Programs, p)
        = [k \in DOMAIN ranked |-> [name |-> Programs[ranked[k]].name, score |->
          score(ranked[k])]]
  BY DEF Recommend, Passing, Preferred, S, order, score
<1> HIDE DEF ranked, places
<1>8. ToSet(Recommend(Programs, p))
        = {[name |-> Programs[ranked[k]].name, score |-> score(ranked[k])] : k \in places}
  BY <1>6, <1>7 DEF ToSet
<1>9. {[name |-> Programs[ranked[k]].name, score |-> score(ranked[k])] : k \in places}
        = {[name |-> Programs[n].name, score |-> score(n)] : n \in S}
  BY <1>6
<1> QED BY <1>8, <1>9 DEF S, score

\* A program that passes still passes for a freer profile, with no lower score.
LEMMA FreerScores ==
    ASSUME NEW p \in Profile, NEW program \in Program,
           NEW q \in {[p EXCEPT !.flexible = TRUE], [p EXCEPT !.mathDone = TRUE],
                      [p EXCEPT !.budget = 2 * p.budget]}
    PROVE  /\ HardFilter(program, p) => HardFilter(program, q)
           /\ ScoreProgram(program, q) >= ScoreProgram(program, p)
<1>1. /\ q.grade = p.grade /\ q.campus = p.campus /\ q.arts = p.arts
      /\ q.interests = p.interests /\ q.career = p.career
      /\ p.flexible \in BOOLEAN /\ p.mathDone \in BOOLEAN
      /\ p.flexible => q.flexible
      /\ p.mathDone => q.mathDone
      /\ p.budget \in Nat /\ (q.budget = p.budget \/ q.budget = 2 * p.budget)
  BY DEF Profile
<1>2. program.credits \in Int /\ program.math \in BOOLEAN
  BY DEF Program
<1>3. HardFilter(program, p) => HardFilter(program, q)
  <2> SUFFICES ASSUME HardFilter(program, p) PROVE HardFilter(program, q)
    OBVIOUS
  <2>1. q.flexible \/ q.campus = None \/ program.campus = q.campus
          \/ "suzhou" \notin {program.campus, q.campus}
    BY <1>1 DEF HardFilter
  <2>2. Remaining[q.grade] >= program.semesters
    BY <1>1 DEF HardFilter
  <2>3. q.budget = 0 \/ q.budget >= program.credits
    BY <1>1, <1>2 DEF HardFilter
  <2> QED BY <2>1, <2>2, <2>3 DEF HardFilter
<1>4. Prerequisites(program, q) >= Prerequisites(program, p)
  BY <1>1, <1>2 DEF Prerequisites
<1>5. Campus(program, q) >= Campus(program, p)
  BY <1>1 DEF Campus
<1>6. Exact(program, q) >= Exact(program, p)
  <2>1. Fit(q.interests, program) = Fit(p.interests, program)
        /\ Fit(q.career, program) = Fit(p.career, program)
    BY <1>1
  <2>2. /\ Fit(p.interests, program) \in Nat /\ Fit(p.career, program) \in Nat
        /\ Prerequisites(program, p) \in Nat /\ Campus(program, p) \in Nat
        /\ Prerequisites(program, q) \in Nat /\ Campus(program, q) \in Nat
        /\ Lightness(program) \in Int
    BY ScoreTypes
  <2> QED BY <1>4, <1>5, <2>1, <2>2 DEF Exact
<1>7. \A x, y \in Int : x >= y => (x + 600) \div 1200 >= (y + 600) \div 1200
  OBVIOUS
<1>8. Exact(program, q) \in Int /\ Exact(program, p) \in Int
  BY ScoreTypes
<1>9. /\ ScoreProgram(program, q) = (Exact(program, q) + 600) \div 1200
      /\ ScoreProgram(program, p) = (Exact(program, p) + 600) \div 1200
  BY DEF ScoreProgram, Exact
<1> QED BY <1>3, <1>6, <1>7, <1>8, <1>9

\* (recommend: hard_filter, score_program) FreedomNeverHurts in every behaviour.
THEOREM FreedomNeverHurtsAlways == PlanningSpec => []FreedomNeverHurts
<1>1. PlanningInit => FreedomNeverHurts
  BY DEF PlanningInit, FreedomNeverHurts, Asked
<1>2. FreedomNeverHurts /\ [PlanningNext]_planningVars => FreedomNeverHurts'
  <2> SUFFICES ASSUME FreedomNeverHurts, [PlanningNext]_planningVars PROVE FreedomNeverHurts'
    OBVIOUS
  <2>1. CASE RecommendPrograms
    <3>1. PICK p \in Profiles :
             Answered([kind |-> "recommend", profile |-> p], Recommend(Programs, p))
      BY <2>1 DEF RecommendPrograms
    <3>2. request'.profile = p /\ answer' = Recommend(Programs, p) /\ p \in Profile
      BY <3>1, PlanningAssumption DEF Answered
    <3>3. ASSUME NEW q \in {[p EXCEPT !.flexible = TRUE], [p EXCEPT !.mathDone = TRUE],
                            [p EXCEPT !.budget = 2 * p.budget]},
                 NEW r \in ToSet(Recommend(Programs, p))
          PROVE  \E s \in ToSet(Recommend(Programs, q)) : s.name = r.name /\ s.score >= r.score
      <4>1. PICK n \in Passing(p) :
               r = [name |-> Programs[n].name, score |-> ScoreProgram(Programs[n], p)]
        BY RecommendedPass
      <4> DEFINE s == [name |-> Programs[n].name, score |-> ScoreProgram(Programs[n], q)]
      <4>2. Programs[n] \in Program /\ n \in DOMAIN Programs /\ HardFilter(Programs[n], p)
        BY ProgramTypes DEF Passing
      <4>3. /\ HardFilter(Programs[n], p) => HardFilter(Programs[n], q)
            /\ ScoreProgram(Programs[n], q) >= ScoreProgram(Programs[n], p)
        BY <3>2, <4>2, FreerScores
      <4>4. n \in Passing(q)
        BY <4>2, <4>3 DEF Passing
      <4>5. s \in ToSet(Recommend(Programs, q))
        BY <4>4, RecommendedPass
      <4>6. s.name = r.name /\ s.score >= r.score
        BY <4>1, <4>3
      <4> HIDE DEF s
      <4> QED BY <4>5, <4>6
    <3> QED BY <3>2, <3>3 DEF FreedomNeverHurts
  <2>2. CASE AutoScheduleProgram \/ CoursePlan \/ ProgramEligibility
    <3>1. request'.kind # "recommend"
      BY <2>2 DEF AutoScheduleProgram, CoursePlan, ProgramEligibility, Answered
    <3> QED BY <3>1 DEF FreedomNeverHurts, Asked
  <2>3. CASE UNCHANGED planningVars
    BY <2>3 DEF planningVars, FreedomNeverHurts, Asked
  <2> QED BY <2>1, <2>2, <2>3 DEF PlanningNext
<1> QED BY <1>1, <1>2, PTL DEF PlanningSpec

-----------------------------------------------------------------------------
(* Planning: the loops of the choice of classes *)

CourseOptions == [course : Int, offerings : Seq(Offering)]

TakeNew(seen, x) == IF x \in ToSet(seen) THEN seen ELSE Append(seen, x)
TakeAvailable(acc, c) == IF c.offerings = <<>> THEN acc ELSE Append(acc, c)
ScoreOf(classes, pref) ==
    FoldLeft(LAMBDA sum, o : sum + OfferingScore(o, pref), 0, classes)

\* The names met after each item.
LEMMA DistinctSteps ==
    ASSUME NEW items \in Seq(Int)
    PROVE  \E F \in [0..Len(items) -> Seq(Int)] :
              /\ F[0] = <<>>
              /\ \A k \in 1..Len(items) : F[k] = TakeNew(F[k - 1], items[k])
              /\ Distinct(items) = F[Len(items)]
<1> DEFINE n == Len(items)
           base == <<>>
           step == [q \in (1..n) \X Seq(Int) |-> TakeNew(q[2], items[q[1]])]
           Eqn(h) == h = [s \in SUBSET (1..n) |->
                            IF s = {} THEN base
                            ELSE TakeNew(h[s \ {Max(s)}], items[Max(s)])]
           iter == CHOOSE h : Eqn(h)
<1>1. n \in Nat /\ DOMAIN items = 1..n /\ \A k \in 1..n : items[k] \in Int
  BY LenProperties, ElementOfSeq
<1>2. base \in Seq(Int) /\ step \in [(1..n) \X Seq(Int) -> Seq(Int)]
  <2>1. <<>> \in Seq(Int)
    OBVIOUS
  <2>2. \A a \in Seq(Int), x \in Int : TakeNew(a, x) \in Seq(Int)
    BY AppendProperties DEF TakeNew
  <2> QED BY <1>1, <2>1, <2>2
<1>3. Distinct(items) = iter[1..n]
  BY <1>1 DEF Distinct, TakeNew, FoldLeft, MapThenFoldSet
<1>4. \E h : Eqn(h)
  <2>1. PICK h \in [SUBSET (1..n) -> Seq(Int)] : IsTable(h, n, base, step)
    <3>1. n \in Nat
      BY <1>1
    <3> HIDE DEF step, n, base
    <3> QED BY <3>1, <1>2, FoldTable
  <2>2. ASSUME NEW s \in SUBSET (1..n), s # {}
        PROVE  step[<<Max(s), h[s \ {Max(s)}]>>]
                 = TakeNew(h[s \ {Max(s)}], items[Max(s)])
    <3>1. Max(s) \in 1..n
      BY <1>1, <2>2, MaxIsIn
    <3>2. h[s \ {Max(s)}] \in Seq(Int)
      BY <2>1
    <3> QED BY <3>1, <3>2
  <2>3. Eqn(h)
    <3> HIDE DEF step, n, base
    <3> QED BY <2>1, <2>2 DEF IsTable
  <2> QED BY <2>3
<1>5. Eqn(iter)
  <2> HIDE DEF Eqn
  <2> QED BY <1>4
<1>6. Follows(iter, n, Seq(Int), base, step)
  <2> HIDE DEF iter, base
  <2>1. \A s \in SUBSET (1..n) :
           iter[s] = IF s = {} THEN base
                     ELSE TakeNew(iter[s \ {Max(s)}], items[Max(s)])
    BY <1>5
  <2>2. \A s \in SUBSET (1..n) : s # {} => Max(s) \in 1..n
    BY <1>1, MaxIsIn
  <2> QED BY <1>1, <1>2, <2>1, <2>2 DEF Follows
<1> HIDE DEF iter, step, n, base, Eqn
<1>7. PICK F \in [0..n -> Seq(Int)] : IsWalk(F, n, base, step) /\ F[n] = iter[1..n]
  BY <1>6, FoldWalk
<1>8. \A k \in 1..n : F[k - 1] \in Seq(Int)
        /\ step[<<k, F[k - 1]>>] = TakeNew(F[k - 1], items[k])
  BY <1>1, <1>7 DEF step
<1> QED BY <1>3, <1>7, <1>8 DEF n, base, IsWalk

\* The courses with classes after each course.
LEMMA AvailableSteps ==
    ASSUME NEW courses \in Seq(CourseOptions)
    PROVE  \E F \in [0..Len(courses) -> Seq(CourseOptions)] :
              /\ F[0] = <<>>
              /\ \A k \in 1..Len(courses) : F[k] = TakeAvailable(F[k - 1], courses[k])
              /\ Available(courses) = F[Len(courses)]
<1> DEFINE n == Len(courses)
           base == <<>>
           step == [q \in (1..n) \X Seq(CourseOptions) |-> TakeAvailable(q[2], courses[q[1]])]
           Eqn(h) == h = [s \in SUBSET (1..n) |->
                            IF s = {} THEN base
                            ELSE TakeAvailable(h[s \ {Max(s)}], courses[Max(s)])]
           iter == CHOOSE h : Eqn(h)
<1>1. n \in Nat /\ DOMAIN courses = 1..n /\ \A k \in 1..n : courses[k] \in CourseOptions
  BY LenProperties, ElementOfSeq
<1>2. /\ base \in Seq(CourseOptions)
      /\ step \in [(1..n) \X Seq(CourseOptions) -> Seq(CourseOptions)]
  <2>1. <<>> \in Seq(CourseOptions)
    OBVIOUS
  <2>2. \A a \in Seq(CourseOptions), c \in CourseOptions :
           TakeAvailable(a, c) \in Seq(CourseOptions)
    BY AppendProperties DEF TakeAvailable
  <2> HIDE DEF n
  <2> QED BY <1>1, <2>1, <2>2
<1>3. Available(courses) = iter[1..n]
  BY <1>1 DEF Available, TakeAvailable, FoldLeft, MapThenFoldSet
<1>4. \E h : Eqn(h)
  <2>1. PICK h \in [SUBSET (1..n) -> Seq(CourseOptions)] : IsTable(h, n, base, step)
    <3>1. n \in Nat
      BY <1>1
    <3> HIDE DEF step, n, base
    <3> QED BY <3>1, <1>2, FoldTable
  <2>2. ASSUME NEW s \in SUBSET (1..n), s # {}
        PROVE  step[<<Max(s), h[s \ {Max(s)}]>>]
                 = TakeAvailable(h[s \ {Max(s)}], courses[Max(s)])
    <3>1. Max(s) \in 1..n
      BY <1>1, <2>2, MaxIsIn
    <3>2. h[s \ {Max(s)}] \in Seq(CourseOptions)
      BY <2>1
    <3> QED BY <3>1, <3>2
  <2>3. Eqn(h)
    <3> HIDE DEF step, n, base
    <3> QED BY <2>1, <2>2 DEF IsTable
  <2> QED BY <2>3
<1>5. Eqn(iter)
  <2> HIDE DEF Eqn
  <2> QED BY <1>4
<1>6. Follows(iter, n, Seq(CourseOptions), base, step)
  <2> HIDE DEF iter, base
  <2>1. \A s \in SUBSET (1..n) :
           iter[s] = IF s = {} THEN base
                     ELSE TakeAvailable(iter[s \ {Max(s)}], courses[Max(s)])
    BY <1>5
  <2>2. \A s \in SUBSET (1..n) : s # {} => Max(s) \in 1..n
    BY <1>1, MaxIsIn
  <2> QED BY <1>1, <1>2, <2>1, <2>2 DEF Follows
<1> HIDE DEF iter, step, n, base, Eqn
<1>7. PICK F \in [0..n -> Seq(CourseOptions)] : IsWalk(F, n, base, step) /\ F[n] = iter[1..n]
  BY <1>6, FoldWalk
<1>8. \A k \in 1..n : F[k - 1] \in Seq(CourseOptions)
        /\ step[<<k, F[k - 1]>>] = TakeAvailable(F[k - 1], courses[k])
  BY <1>1, <1>7 DEF step
<1> QED BY <1>3, <1>7, <1>8 DEF n, base, IsWalk

LEMMA ScoreIsNumber ==
    ASSUME NEW o, NEW pref
    PROVE  OfferingScore(o, pref) \in Int
BY DEF OfferingScore

\* The score after each class.
LEMMA ScoreSteps ==
    ASSUME NEW classes \in Seq(Offering), NEW pref
    PROVE  \E F \in [0..Len(classes) -> Int] :
              /\ F[0] = 0
              /\ \A k \in 1..Len(classes) : F[k] = F[k - 1] + OfferingScore(classes[k], pref)
              /\ ScoreOf(classes, pref) = F[Len(classes)]
<1> DEFINE n == Len(classes)
           base == 0
           step == [q \in (1..n) \X Int |-> q[2] + OfferingScore(classes[q[1]], pref)]
           Eqn(h) == h = [s \in SUBSET (1..n) |->
                            IF s = {} THEN base
                            ELSE h[s \ {Max(s)}] + OfferingScore(classes[Max(s)], pref)]
           iter == CHOOSE h : Eqn(h)
<1>1. n \in Nat /\ DOMAIN classes = 1..n /\ \A k \in 1..n : classes[k] \in Offering
  BY LenProperties, ElementOfSeq
<1>2. base \in Int /\ step \in [(1..n) \X Int -> Int]
  <2>1. \A a \in Int : \A o : a + OfferingScore(o, pref) \in Int
    BY ScoreIsNumber
  <2> QED BY <1>1, <2>1
<1>3. ScoreOf(classes, pref) = iter[1..n]
  BY <1>1 DEF ScoreOf, FoldLeft, MapThenFoldSet
<1>4. \E h : Eqn(h)
  <2>1. PICK h \in [SUBSET (1..n) -> Int] : IsTable(h, n, base, step)
    <3>1. n \in Nat
      BY <1>1
    <3> HIDE DEF step, n, base
    <3> QED BY <3>1, <1>2, FoldTable
  <2>2. ASSUME NEW s \in SUBSET (1..n), s # {}
        PROVE  step[<<Max(s), h[s \ {Max(s)}]>>]
                 = h[s \ {Max(s)}] + OfferingScore(classes[Max(s)], pref)
    <3>1. Max(s) \in 1..n
      BY <1>1, <2>2, MaxIsIn
    <3>2. h[s \ {Max(s)}] \in Int
      BY <2>1
    <3> QED BY <3>1, <3>2
  <2>3. Eqn(h)
    <3> HIDE DEF step, n, base
    <3> QED BY <2>1, <2>2 DEF IsTable
  <2> QED BY <2>3
<1>5. Eqn(iter)
  <2> HIDE DEF Eqn
  <2> QED BY <1>4
<1>6. Follows(iter, n, Int, base, step)
  <2> HIDE DEF iter, base
  <2>1. \A s \in SUBSET (1..n) :
           iter[s] = IF s = {} THEN base
                     ELSE iter[s \ {Max(s)}] + OfferingScore(classes[Max(s)], pref)
    BY <1>5
  <2>2. \A s \in SUBSET (1..n) : s # {} => Max(s) \in 1..n
    BY <1>1, MaxIsIn
  <2> QED BY <1>1, <1>2, <2>1, <2>2 DEF Follows
<1> HIDE DEF iter, step, n, base, Eqn
<1>7. PICK F \in [0..n -> Int] : IsWalk(F, n, base, step) /\ F[n] = iter[1..n]
  BY <1>6, FoldWalk
<1>8. \A k \in 1..n : F[k - 1] \in Int
        /\ step[<<k, F[k - 1]>>] = F[k - 1] + OfferingScore(classes[k], pref)
  BY <1>1, <1>7 DEF step
<1> QED BY <1>3, <1>7, <1>8 DEF n, base, IsWalk

\* No name is met twice.
LEMMA DistinctNames ==
    ASSUME NEW items \in Seq(Int)
    PROVE  /\ Distinct(items) \in Seq(Int)
           /\ \A i, j \in 1..Len(Distinct(items)) :
                 Distinct(items)[i] = Distinct(items)[j] => i = j
<1> DEFINE n == Len(items)
           Apart(s) == \A i, j \in 1..Len(s) : s[i] = s[j] => i = j
<1>1. n \in Nat /\ \A k \in 1..n : items[k] \in Int
  BY LenProperties, ElementOfSeq
<1>2. PICK F \in [0..n -> Seq(Int)] :
         /\ F[0] = <<>>
         /\ \A k \in 1..n : F[k] = TakeNew(F[k - 1], items[k])
         /\ Distinct(items) = F[n]
  BY DistinctSteps
<1> HIDE DEF n
<1> DEFINE P == {k \in 0..n : Apart(F[k])}
<1>3. 0 \in P
  BY <1>1, <1>2
<1>4. ASSUME NEW k \in 1..n, k - 1 \in P PROVE k \in P
  <2> DEFINE s == F[k - 1]
             x == items[k]
  <2>1. s \in Seq(Int) /\ Apart(s) /\ k \in 0..n /\ F[k] = TakeNew(s, x) /\ x \in Int
    BY <1>1, <1>2, <1>4
  <2> HIDE DEF s, x
  <2>2. CASE x \in ToSet(s)
    BY <2>1, <2>2 DEF TakeNew
  <2>3. CASE x \notin ToSet(s)
    <3>1. F[k] = Append(s, x)
      BY <2>1, <2>3 DEF TakeNew
    <3>2. /\ Len(Append(s, x)) = Len(s) + 1 /\ Len(s) \in Nat
          /\ \A i \in 1..Len(s) : Append(s, x)[i] = s[i] /\ s[i] # x
          /\ Append(s, x)[Len(s) + 1] = x
      BY <2>1, <2>3, AppendProperties, LenProperties DEF ToSet
    <3>3. Apart(Append(s, x))
      <4> SUFFICES ASSUME NEW i \in 1..Len(Append(s, x)), NEW j \in 1..Len(Append(s, x)),
                          Append(s, x)[i] = Append(s, x)[j]
                   PROVE  i = j
        OBVIOUS
      <4>1. /\ i \in 1..Len(s) \/ i = Len(s) + 1
            /\ j \in 1..Len(s) \/ j = Len(s) + 1
        BY <3>2
      <4> QED BY <2>1, <3>2, <4>1
    <3> QED BY <2>1, <3>1, <3>3
  <2> QED BY <2>2, <2>3
<1>5. \A k \in 0..n : k \in P
  <2> HIDE DEF P
  <2> QED BY <1>1, <1>3, <1>4, UpTo
<1>6. n \in 0..n
  BY <1>1
<1> QED BY <1>2, <1>5, <1>6

\* When every course has classes, none is left out.
LEMMA AllAvailable ==
    ASSUME NEW courses \in Seq(CourseOptions),
           \A k \in 1..Len(courses) : courses[k].offerings # <<>>
    PROVE  Available(courses) = courses
<1> DEFINE n == Len(courses)
<1>1. n \in Nat /\ DOMAIN courses = 1..n /\ \A k \in 1..n : courses[k] \in CourseOptions
  BY LenProperties, ElementOfSeq
<1>2. PICK F \in [0..n -> Seq(CourseOptions)] :
         /\ F[0] = <<>>
         /\ \A k \in 1..n : F[k] = TakeAvailable(F[k - 1], courses[k])
         /\ Available(courses) = F[n]
  BY AvailableSteps
<1>3. \A k \in 1..n : courses[k].offerings # <<>>
  OBVIOUS
<1> HIDE DEF n
<1> DEFINE P == {k \in 0..n : Len(F[k]) = k /\ \A i \in 1..k : F[k][i] = courses[i]}
<1>4. 0 \in P
  BY <1>1, <1>2
<1>5. ASSUME NEW k \in 1..n, k - 1 \in P PROVE k \in P
  <2> DEFINE s == F[k - 1]
             x == courses[k]
  <2>5. k - 1 \in 0..n /\ k \in 0..n
    BY <1>1
  <2>6. Len(s) = k - 1 /\ \A i \in 1..(k - 1) : s[i] = courses[i]
    BY <1>5
  <2>7. s \in Seq(CourseOptions) /\ x \in CourseOptions
    BY <1>1, <1>2, <2>5
  <2>8. F[k] = Append(s, x)
    BY <1>2, <1>3 DEF TakeAvailable
  <2>1. /\ s \in Seq(CourseOptions) /\ Len(s) = k - 1 /\ k \in 0..n /\ x \in CourseOptions
        /\ \A i \in 1..(k - 1) : s[i] = courses[i]
        /\ F[k] = Append(s, x)
    BY <2>5, <2>6, <2>7, <2>8
  <2> HIDE DEF s
  <2>2. /\ Len(Append(s, x)) = k /\ Append(s, x)[k] = x
        /\ \A i \in 1..(k - 1) : Append(s, x)[i] = s[i]
    BY <2>1, AppendProperties
  <2>3. \A i \in 1..k : i \in 1..(k - 1) \/ i = k
    OBVIOUS
  <2> QED BY <2>1, <2>2, <2>3
<1>6. \A k \in 0..n : k \in P
  <2> HIDE DEF P
  <2> QED BY <1>1, <1>4, <1>5, UpTo
<1>7. F[n] \in Seq(CourseOptions) /\ Len(F[n]) = n /\ \A i \in 1..n : F[n][i] = courses[i]
  <2>1. n \in 0..n
    BY <1>1
  <2>2. n \in P
    <3> HIDE DEF P
    <3> QED BY <1>6, <2>1
  <2> QED BY <1>2, <2>1, <2>2
<1>8. Len(courses) = n
  BY DEF n
<1> QED BY <1>2, <1>7, <1>8, SeqEqual

LEMMA ScoresAdd ==
    ASSUME NEW classes \in Seq(Offering), NEW pref
    PROVE  ScoreOf(classes, pref) \in Int
<1>1. Len(classes) \in 0..Len(classes)
  BY LenProperties
<1> QED BY <1>1, ScoreSteps

-----------------------------------------------------------------------------
(* Planning: lists sorted by keys *)

Key(n) == [1..n -> Int]

\* Of two different keys one is the smaller.
LEMMA LessTotal ==
    ASSUME NEW n \in Nat, NEW a \in Key(n), NEW b \in Key(n), a # b
    PROVE  Less(a, b) \/ Less(b, a)
<1> DEFINE D == {i \in 1..n : a[i] # b[i]}
<1>1. D # {} /\ D \subseteq Nat
  BY DEF Key
<1>2. PICK i \in D : \A j \in D : i <= j
  <2> HIDE DEF D
  <2> QED BY <1>1, LeastOne
<1>3. \A m \in 1..(i - 1) : a[m] = b[m]
  <2> SUFFICES ASSUME NEW m \in 1..(i - 1), a[m] # b[m] PROVE FALSE
    OBVIOUS
  <2>1. m \in D /\ ~(i <= m)
    BY <1>2
  <2> QED BY <1>2, <2>1
<1>4. i \in 1..n /\ (a[i] < b[i] \/ b[i] < a[i])
  BY <1>2 DEF Key
<1>5. DOMAIN a = 1..n /\ DOMAIN b = 1..n
  BY DEF Key
<1> QED BY <1>3, <1>4, <1>5 DEF Less

LEMMA LessStrict ==
    ASSUME NEW n \in Nat, NEW a \in Key(n)
    PROVE  ~Less(a, a)
BY DEF Less, Key

LEMMA LessTransitive ==
    ASSUME NEW n \in Nat, NEW a \in Key(n), NEW b \in Key(n), NEW c \in Key(n),
           Less(a, b), Less(b, c)
    PROVE  Less(a, c)
<1>1. PICK i \in 1..n : a[i] < b[i] /\ \A m \in 1..(i - 1) : a[m] = b[m]
  BY DEF Less, Key
<1>2. PICK j \in 1..n : b[j] < c[j] /\ \A m \in 1..(j - 1) : b[m] = c[m]
  BY DEF Less, Key
<1>3. \A m \in 1..n : a[m] \in Int /\ b[m] \in Int /\ c[m] \in Int
  BY DEF Key
<1>4. DOMAIN a = 1..n
  BY DEF Key
<1>5. CASE i <= j
  <2>1. \A m \in 1..(i - 1) : m \in 1..(j - 1)
    BY <1>5
  <2>2. a[i] < c[i]
    <3>1. b[i] < c[i] \/ b[i] = c[i]
      BY <1>2, <1>5
    <3> QED BY <1>1, <1>3, <3>1
  <2> QED BY <1>1, <1>2, <1>4, <2>1, <2>2 DEF Less
<1>6. CASE ~(i <= j)
  <2>1. \A m \in 1..(j - 1) : m \in 1..(i - 1)
    BY <1>6
  <2>2. j \in 1..(i - 1)
    BY <1>6
  <2>3. a[j] < c[j]
    BY <1>1, <1>2, <1>3, <2>2
  <2> QED BY <1>1, <1>2, <1>4, <2>1, <2>3 DEF Less
<1> QED BY <1>5, <1>6

\* The first number of the smaller key is at most that of the other.
LEMMA LessFirst ==
    ASSUME NEW n \in Nat \ {0}, NEW a \in Key(n), NEW b \in Key(n), Less(a, b)
    PROVE  a[1] <= b[1]
<1>1. PICK i \in 1..n : a[i] < b[i] /\ \A m \in 1..(i - 1) : a[m] = b[m]
  BY DEF Less, Key
<1>2. a[1] \in Int /\ b[1] \in Int
  BY DEF Key
<1>3. i = 1 \/ 1 \in 1..(i - 1)
  OBVIOUS
<1> QED BY <1>1, <1>2, <1>3

\* The elements of a finite set have different keys.
Keyed(S, key, n) ==
    /\ IsFiniteSet(S) /\ n \in Nat /\ key \in [S -> Key(n)]
    /\ \A x, y \in S : key[x] = key[y] => x = y

\* A list sorted by keys has every element once, at first one with the smallest key.
LEMMA SortedAll ==
    ASSUME NEW S, NEW key, NEW n, Keyed(S, key, n)
    PROVE  /\ SortBy(S, key) \in Seq(S) /\ Len(SortBy(S, key)) = Cardinality(S)
           /\ ToSet(SortBy(S, key)) = S
           /\ \A x \in S : SortBy(S, key)[1] = x \/ Less(key[SortBy(S, key)[1]], key[x])
<1> DEFINE order == {q \in S \X S : Less(key[q[1]], key[q[2]])}
           list == Ranked(S, order)
           c == Cardinality(S)
<1>1. IsFiniteSet(S) /\ n \in Nat /\ key \in [S -> Key(n)]
      /\ \A x, y \in S : key[x] = key[y] => x = y
  BY DEF Keyed
<1>2. \A x, y \in S : <<x, y>> \in order <=> Less(key[x], key[y])
  OBVIOUS
<1> HIDE DEF order
<1>3. StrictOrder(S, order)
  <2>1. \A x \in S : key[x] \in Key(n)
    BY <1>1
  <2>2. \A x \in S : <<x, x>> \notin order
    BY <1>1, <1>2, <2>1, LessStrict
  <2>3. \A x, y \in S : x = y \/ <<x, y>> \in order \/ <<y, x>> \in order
    BY <1>1, <1>2, <2>1, LessTotal
  <2>4. ASSUME NEW x \in S, NEW y \in S, NEW z \in S, <<x, y>> \in order, <<y, z>> \in order
        PROVE  <<x, z>> \in order
    <3>1. Less(key[x], key[y]) /\ Less(key[y], key[z])
      BY <1>2, <2>4
    <3>2. Less(key[x], key[z])
      BY <1>1, <2>1, <3>1, LessTransitive
    <3> QED BY <1>2, <3>2
  <2> QED BY <2>2, <2>3, <2>4 DEF StrictOrder
<1>4. /\ c \in Nat /\ list \in [1..c -> S]
      /\ \A k \in 1..c : Cardinality(Before(list[k], S, order)) = k - 1
      /\ \A x \in S : \E k \in 1..c : list[k] = x
  BY <1>1, <1>3, RankedAll
<1>5. SortBy(S, key) = list
  BY DEF SortBy, order
<1> HIDE DEF list, c
<1>6. list \in Seq(S) /\ Len(list) = c /\ DOMAIN list = 1..c
  BY <1>4
<1>7. ToSet(list) = S
  BY <1>4, <1>6 DEF ToSet
<1>8. ASSUME NEW x \in S PROVE list[1] = x \/ Less(key[list[1]], key[x])
  <2>1. 1 \in 1..c /\ list[1] \in S
    <3>1. PICK k \in 1..c : list[k] = x
      BY <1>4
    <3> QED BY <1>4, <3>1
  <2>2. Cardinality(Before(list[1], S, order)) = 0
    BY <1>4, <2>1
  <2>3. Before(list[1], S, order) \subseteq S
    BY DEF Before
  <2>4. Before(list[1], S, order) = {}
    BY <1>1, <2>2, <2>3, FS_Subset, FS_EmptySet
  <2>5. <<x, list[1]>> \notin order
    BY <2>4 DEF Before
  <2> QED BY <1>2, <1>3, <2>1, <2>5 DEF StrictOrder
<1> QED BY <1>5, <1>6, <1>7, <1>8 DEF c

-----------------------------------------------------------------------------
(* Planning: the classes of a course, and the choices of one of each *)

\* Classes of the catalogue, told apart by their ids.
Classes(S) ==
    /\ IsFiniteSet(S) /\ S \subseteq Offering
    /\ \A o, p \in S : o.id = p.id => o = p

\* The classes of a course are listed once each, by either order.
LEMMA OptionsAll ==
    ASSUME NEW S, Classes(S), NEW campus
    PROVE  /\ Options(S, campus) \in Seq(S) /\ ToSet(Options(S, campus)) = S
           /\ Options(S, campus) = <<>> <=> S = {}
<1> DEFINE near(o) == campus # None /\ o.campus = campus
           key == [o \in S |-> <<IF o.full THEN 1 ELSE 0, IF near(o) THEN 0 ELSE 1,
                                 o.term, o.id>>]
<1>1. IsFiniteSet(S) /\ S \subseteq Offering /\ \A o, p \in S : o.id = p.id => o = p
  BY DEF Classes
<1>2. \A o \in S : key[o] \in Key(4) /\ key[o][4] = o.id
  <2> SUFFICES ASSUME NEW o \in S PROVE key[o] \in Key(4) /\ key[o][4] = o.id
    OBVIOUS
  <2> DEFINE a == IF o.full THEN 1 ELSE 0
             b == IF near(o) THEN 0 ELSE 1
  <2>1. a \in Int /\ b \in Int /\ o.term \in Int /\ o.id \in Int
    BY <1>1 DEF Offering
  <2>2. key[o] = <<a, b, o.term, o.id>>
    OBVIOUS
  <2> HIDE DEF a, b, key
  <2> QED BY <2>1, <2>2 DEF Key
<1>3. Keyed(S, key, 4)
  <2>1. key \in [S -> Key(4)]
    BY <1>2
  <2> HIDE DEF key
  <2> QED BY <1>1, <1>2, <2>1 DEF Keyed
<1>4. Options(S, campus) = SortBy(S, key)
  BY DEF Options
<1> HIDE DEF key
<1>5. /\ SortBy(S, key) \in Seq(S) /\ Len(SortBy(S, key)) = Cardinality(S)
      /\ ToSet(SortBy(S, key)) = S
  BY <1>3, SortedAll
<1>6. Cardinality(S) = 0 <=> S = {}
  BY <1>1, FS_EmptySet
<1> QED BY <1>4, <1>5, <1>6, EmptySeq

LEMMA BestFirstAll ==
    ASSUME NEW S, Classes(S), NEW pref
    PROVE  BestFirst(S, pref) \in Seq(S) /\ ToSet(BestFirst(S, pref)) = S
<1> DEFINE key == [o \in S |-> <<-OfferingScore(o, pref), o.id>>]
<1>1. IsFiniteSet(S) /\ S \subseteq Offering /\ \A o, p \in S : o.id = p.id => o = p
  BY DEF Classes
<1>2. \A o \in S : key[o] \in Key(2) /\ key[o][2] = o.id
  <2> SUFFICES ASSUME NEW o \in S PROVE key[o] \in Key(2) /\ key[o][2] = o.id
    OBVIOUS
  <2> DEFINE a == -OfferingScore(o, pref)
  <2>1. a \in Int /\ o.id \in Int
    BY <1>1, ScoreIsNumber DEF Offering
  <2>2. key[o] = <<a, o.id>>
    OBVIOUS
  <2> HIDE DEF a, key
  <2> QED BY <2>1, <2>2 DEF Key
<1>3. Keyed(S, key, 2)
  <2>1. key \in [S -> Key(2)]
    BY <1>2
  <2> HIDE DEF key
  <2> QED BY <1>1, <1>2, <2>1 DEF Keyed
<1>4. BestFirst(S, pref) = SortBy(S, key)
  BY DEF BestFirst
<1> HIDE DEF key
<1> QED BY <1>3, <1>4, SortedAll

\* Finitely many lists of one length are made of finitely many things.
LEMMA FunctionsFinite ==
    ASSUME NEW n \in Nat, NEW S, IsFiniteSet(S)
    PROVE  IsFiniteSet([1..n -> S])
<1> DEFINE D == [1..n -> S]
           T == SUBSET ((1..n) \X S)
           graph == [f \in D |-> {<<k, f[k]>> : k \in 1..n}]
<1>1. IsFiniteSet(T)
  <2>1. IsFiniteSet(1..n)
    BY FS_Interval
  <2> QED BY <2>1, FS_Product, FS_SUBSET
<1>2. graph \in [D -> T]
  OBVIOUS
<1>3. ASSUME NEW f \in D, NEW g \in D, graph[f] = graph[g] PROVE f = g
  <2>1. ASSUME NEW k \in 1..n PROVE f[k] = g[k]
    <3>1. <<k, f[k]>> \in graph[g]
      BY <1>3
    <3>2. PICK m \in 1..n : <<k, f[k]>> = <<m, g[m]>>
      BY <3>1
    <3> QED BY <3>2
  <2> QED BY <2>1
<1> HIDE DEF graph, T, D
<1>4. graph \in Injection(D, T)
  BY <1>2, <1>3 DEF Injection, IsInjective
<1> QED BY <1>1, <1>4, FS_Injection DEF D

\* Lists of classes, one list per course.
ClassLists(ranked, n) ==
    /\ n \in Nat /\ DOMAIN ranked = 1..n
    /\ \A k \in 1..n : ranked[k] \in Seq(Offering) /\ IsFiniteSet(ToSet(ranked[k]))

LEMMA ChoicesFinite ==
    ASSUME NEW ranked, NEW n, ClassLists(ranked, n)
    PROVE  IsFiniteSet(ChoicesOf(ranked)) /\ ChoicesOf(ranked) \subseteq [1..n -> Offering]
<1> DEFINE T(k) == ToSet(ranked[k])
           sets == {T(k) : k \in 1..n}
           f == [k \in 1..n |-> T(k)]
<1>1. n \in Nat /\ DOMAIN ranked = 1..n
      /\ \A k \in 1..n : ranked[k] \in Seq(Offering) /\ IsFiniteSet(T(k))
  BY DEF ClassLists
<1>2. f \in Surjection(1..n, sets)
  <2> HIDE DEF T
  <2> QED BY DEF Surjection
<1>3. IsFiniteSet(1..n)
  BY <1>1, FS_Interval
<1>4. IsFiniteSet(sets)
  <2> HIDE DEF f, sets
  <2> QED BY <1>2, <1>3, FS_Surjection
<1>5. \A s \in sets : IsFiniteSet(s)
  BY <1>1
<1>6. IsFiniteSet(UNION sets)
  <2> HIDE DEF sets
  <2> QED BY <1>4, <1>5, FS_UNION
<1>7. IsFiniteSet([1..n -> UNION sets])
  <2> HIDE DEF sets
  <2> QED BY <1>1, <1>6, FunctionsFinite
<1>8. ChoicesOf(ranked) \subseteq [1..n -> UNION sets]
  BY <1>1 DEF ChoicesOf
<1>9. IsFiniteSet(ChoicesOf(ranked))
  <2> HIDE DEF sets
  <2> QED BY <1>7, <1>8, FS_Subset
<1>10. \A k \in 1..n : T(k) \subseteq Offering
  <2> SUFFICES ASSUME NEW k \in 1..n, NEW x \in ToSet(ranked[k]) PROVE x \in Offering
    OBVIOUS
  <2> DEFINE s == ranked[k]
  <2>1. s \in Seq(Offering) /\ x \in ToSet(s)
    BY <1>1
  <2> HIDE DEF s
  <2> QED BY <2>1, LenProperties, ElementOfSeq DEF ToSet
<1>11. UNION sets \subseteq Offering
  <2> HIDE DEF T
  <2> QED BY <1>10
<1>12. [1..n -> UNION sets] \subseteq [1..n -> Offering]
  <2> HIDE DEF sets
  <2> QED BY <1>11
<1> HIDE DEF sets
<1> QED BY <1>8, <1>9, <1>12

\* The search lists every choice once.
LEMMA CombinationsAll ==
    ASSUME NEW ranked, NEW n, ClassLists(ranked, n)
    PROVE  /\ Combinations(ranked) \in Seq(ChoicesOf(ranked))
           /\ Len(Combinations(ranked)) = Cardinality(ChoicesOf(ranked))
           /\ ToSet(Combinations(ranked)) = ChoicesOf(ranked)
<1> DEFINE S == ChoicesOf(ranked)
           place(k, o) == CHOOSE i \in DOMAIN ranked[k] : ranked[k][i] = o
           key == [c \in S |-> [k \in DOMAIN ranked |-> place(k, c[k])]]
<1>1. n \in Nat /\ DOMAIN ranked = 1..n /\ \A k \in 1..n : ranked[k] \in Seq(Offering)
  BY DEF ClassLists
<1>2. IsFiniteSet(S) /\ \A c \in S : DOMAIN c = 1..n
  BY <1>1, ChoicesFinite
<1>3. ASSUME NEW c \in S, NEW k \in 1..n
      PROVE  place(k, c[k]) \in Int /\ ranked[k][place(k, c[k])] = c[k]
  <2>1. c[k] \in ToSet(ranked[k])
    BY <1>1 DEF ChoicesOf
  <2>2. \E i \in DOMAIN ranked[k] : ranked[k][i] = c[k]
    BY <2>1 DEF ToSet
  <2>3. place(k, c[k]) \in DOMAIN ranked[k] /\ ranked[k][place(k, c[k])] = c[k]
    BY <2>2
  <2>4. DOMAIN ranked[k] = 1..Len(ranked[k]) /\ Len(ranked[k]) \in Nat
    BY <1>1, LenProperties
  <2> QED BY <2>3, <2>4
<1> HIDE DEF place, S
<1>4. key \in [S -> Key(n)]
  BY <1>1, <1>3 DEF Key
<1>5. ASSUME NEW c \in S, NEW d \in S, key[c] = key[d] PROVE c = d
  <2>1. \A k \in 1..n : place(k, c[k]) = place(k, d[k])
    <3>1. \A k \in 1..n : key[c][k] = place(k, c[k]) /\ key[d][k] = place(k, d[k])
      BY <1>1
    <3> HIDE DEF key
    <3> QED BY <1>5, <3>1
  <2>2. \A k \in 1..n : c[k] = d[k]
    BY <1>3, <2>1
  <2>3. /\ DOMAIN c = 1..n /\ DOMAIN d = 1..n
        /\ c = [k \in 1..n |-> c[k]] /\ d = [k \in 1..n |-> d[k]]
    BY <1>1, ChoicesFinite DEF S
  <2> QED BY <2>2, <2>3
<1>6. Keyed(S, key, n)
  <2> HIDE DEF key
  <2> QED BY <1>1, <1>2, <1>4, <1>5 DEF Keyed
<1>7. Combinations(ranked) = SortBy(S, key)
  BY DEF Combinations, S, place
<1> HIDE DEF key
<1> QED BY <1>6, <1>7, SortedAll DEF S

\* The search meets a choice when there is one, and all of them below its limit.
LEMMA VisitedSome ==
    ASSUME NEW ranked, NEW n, ClassLists(ranked, n)
    PROVE  /\ IsFiniteSet(Visited(ranked)) /\ Visited(ranked) \subseteq ChoicesOf(ranked)
           /\ ChoicesOf(ranked) # {} => Visited(ranked) # {}
           /\ Cardinality(ChoicesOf(ranked)) <= MaxCombinations
                => Visited(ranked) = ChoicesOf(ranked)
<1> DEFINE S == ChoicesOf(ranked)
           all == Combinations(ranked)
           c == Len(all)
           m == Min({MaxCombinations, c})
           V == {all[k] : k \in 1..m}
<1>1. IsFiniteSet(S)
  BY ChoicesFinite
<1>2. all \in Seq(S) /\ c = Cardinality(S) /\ ToSet(all) = S
  BY CombinationsAll
<1>3. c \in Nat /\ DOMAIN all = 1..c
  BY <1>2, LenProperties
<1>4. Visited(ranked) = V
  BY DEF Visited
<1>5. MaxCombinations \in Nat \ {0}
  BY PlanningAssumption
<1>6. m = IF MaxCombinations <= c THEN MaxCombinations ELSE c
  <2> HIDE DEF c
  <2> QED BY <1>3, <1>5, SmallerOfTwo
<1> HIDE DEF all, c, m, S
<1>7. m \in Nat /\ m <= c /\ (c # 0 => m # 0) /\ (c <= MaxCombinations => m = c)
  BY <1>3, <1>5, <1>6
<1>8. \A k \in 1..m : k \in 1..c
  BY <1>3, <1>7
<1>9. V \subseteq S
  BY <1>2, <1>3, <1>8 DEF ToSet
<1>10. S # {} => c # 0
  BY <1>1, <1>2, FS_EmptySet
<1>11. S # {} => V # {}
  <2> SUFFICES ASSUME S # {} PROVE V # {}
    OBVIOUS
  <2>1. 1 \in 1..m
    BY <1>7, <1>10
  <2> QED BY <2>1
<1>12. c <= MaxCombinations => V = S
  <2> SUFFICES ASSUME c <= MaxCombinations PROVE V = S
    OBVIOUS
  <2>1. m = c
    BY <1>7
  <2> QED BY <1>2, <1>3, <2>1 DEF ToSet
<1>13. IsFiniteSet(V)
  BY <1>1, <1>9, FS_Subset
<1> HIDE DEF V
<1> QED BY <1>2, <1>4, <1>9, <1>11, <1>12, <1>13 DEF S

-----------------------------------------------------------------------------
(* Planning: the conflicts of a choice *)

LEMMA ConflictsFinite ==
    ASSUME NEW n \in Nat, NEW c \in [1..n -> Offering]
    PROVE  /\ IsFiniteSet(DetectScheduleConflicts(c))
           /\ Cardinality(DetectScheduleConflicts(c)) \in Nat
           /\ Cardinality(DetectScheduleConflicts(c)) = 0 <=> DetectScheduleConflicts(c) = {}
<1> DEFINE T(k) == {k} \X {i \in DOMAIN c[k].slots : Valid(c[k].slots[i])}
           sets == {T(k) : k \in 1..n}
           f == [k \in 1..n |-> T(k)]
<1>1. ASSUME NEW k \in 1..n PROVE IsFiniteSet(T(k))
  <2> DEFINE s == c[k].slots
             V == {i \in DOMAIN s : Valid(s[i])}
  <2>1. s \in Seq(SlotRow)
    BY DEF Offering
  <2>2. DOMAIN s = 1..Len(s) /\ Len(s) \in Nat
    <3> HIDE DEF s
    <3> QED BY <2>1, LenProperties
  <2>3. IsFiniteSet(1..Len(s))
    <3> HIDE DEF s
    <3> QED BY <2>2, FS_Interval
  <2>4. V \subseteq 1..Len(s)
    BY <2>2
  <2>5. IsFiniteSet(V) /\ IsFiniteSet({k})
    <3> HIDE DEF V, s
    <3> QED BY <2>3, <2>4, FS_Subset, FS_Singleton
  <2>6. IsFiniteSet({k} \X V)
    <3> HIDE DEF V
    <3> QED BY <2>5, FS_Product
  <2> QED BY <2>6
<1>2. f \in Surjection(1..n, sets)
  <2> HIDE DEF T
  <2> QED BY DEF Surjection
<1>3. IsFiniteSet(sets)
  <2>1. IsFiniteSet(1..n)
    BY FS_Interval
  <2> HIDE DEF f, sets
  <2> QED BY <1>2, <2>1, FS_Surjection
<1>4. \A s \in sets : IsFiniteSet(s)
  <2> HIDE DEF T
  <2> QED BY <1>1
<1>5. IsFiniteSet(UNION sets)
  <2> HIDE DEF sets
  <2> QED BY <1>3, <1>4, FS_UNION
<1>6. SlotsOf(c) = UNION sets
  BY DEF SlotsOf
<1> HIDE DEF sets
<1>7. IsFiniteSet(SlotsOf(c) \X SlotsOf(c))
  BY <1>5, <1>6, FS_Product
<1>8. DetectScheduleConflicts(c) \subseteq SlotsOf(c) \X SlotsOf(c)
  BY DEF DetectScheduleConflicts
<1>9. IsFiniteSet(DetectScheduleConflicts(c))
  BY <1>7, <1>8, FS_Subset
<1> QED BY <1>9, FS_CardinalityType, FS_EmptySet

\* The key of a choice begins with its conflicts and ends with the ids of its classes.
LEMMA KeyOfChoice ==
    ASSUME NEW n \in Nat, NEW c \in [1..n -> Offering], NEW pref
    PROVE  /\ CombinationKey(c, pref) \in Key(n + 2)
           /\ CombinationKey(c, pref)[1] = Cardinality(DetectScheduleConflicts(c))
           /\ \A k \in 1..n : CombinationKey(c, pref)[k + 2] = c[k].id
<1> DEFINE a == Cardinality(DetectScheduleConflicts(c))
           b == -ScoreOf(c, pref)
           front == <<a, b>>
           ids == [k \in DOMAIN c |-> c[k].id]
<1>1. a \in Int
  BY ConflictsFinite
<1>2. b \in Int
  <2>1. c \in Seq(Offering)
    OBVIOUS
  <2> QED BY <2>1, ScoresAdd
<1>3. ids \in Seq(Int) /\ Len(ids) = n /\ \A k \in 1..n : ids[k] = c[k].id
  BY DEF Offering
<1>4. CombinationKey(c, pref) = front \o ids
  BY DEF CombinationKey, ScoreOf
<1> HIDE DEF a, b, ids
<1>5. front \in Seq(Int) /\ Len(front) = 2 /\ front[1] = a
  BY <1>1, <1>2
<1> HIDE DEF front
<1>6. /\ front \o ids \in Seq(Int) /\ Len(front \o ids) = 2 + n
      /\ \A i \in 1..(2 + n) : (front \o ids)[i] = IF i <= 2 THEN front[i] ELSE ids[i - 2]
  <2>1. /\ front \o ids \in Seq(Int) /\ Len(front \o ids) = Len(front) + Len(ids)
        /\ \A i \in 1..(Len(front) + Len(ids)) :
              (front \o ids)[i] = IF i <= Len(front) THEN front[i] ELSE ids[i - Len(front)]
    BY <1>3, <1>5, ConcatProperties
  <2>2. Len(front) = 2 /\ Len(ids) = n
    BY <1>3, <1>5
  <2> QED BY ONLY <2>1, <2>2
<1> DEFINE s == front \o ids
<1>7. s \in Seq(Int) /\ Len(s) = 2 + n
      /\ \A i \in 1..(2 + n) : s[i] = IF i <= 2 THEN front[i] ELSE ids[i - 2]
  BY <1>6
<1> HIDE DEF s
<1>8. s \in Key(n + 2)
  <2>1. s \in [1..Len(s) -> Int] /\ 2 + n = n + 2
    BY <1>7
  <2> QED BY <1>7, <2>1 DEF Key
<1>9. s[1] = a
  <2>1. 1 \in 1..(2 + n) /\ 1 <= 2
    OBVIOUS
  <2> QED BY <1>5, <1>7, <2>1
<1>10. \A k \in 1..n : s[k + 2] = c[k].id
  <2> SUFFICES ASSUME NEW k \in 1..n PROVE s[k + 2] = c[k].id
    OBVIOUS
  <2>1. k + 2 \in 1..(2 + n) /\ ~(k + 2 <= 2) /\ (k + 2) - 2 = k
    OBVIOUS
  <2> QED BY <1>3, <1>7, <2>1
<1> QED BY <1>4, <1>8, <1>9, <1>10 DEF s, a

\* The first of the sorted choices has the fewest conflicts.
LEMMA FewestConflicts ==
    ASSUME NEW n \in Nat, NEW offered, Classes(offered), NEW S, IsFiniteSet(S), S # {},
           S \subseteq [1..n -> offered], NEW pref
    PROVE  LET best == Head(SortBy(S, [c \in S |-> CombinationKey(c, pref)])) IN
           /\ best \in S
           /\ \A c \in S : Cardinality(DetectScheduleConflicts(best))
                             <= Cardinality(DetectScheduleConflicts(c))
<1> DEFINE key == [c \in S |-> CombinationKey(c, pref)]
           list == SortBy(S, key)
           best == list[1]
           Meets(c) == Cardinality(DetectScheduleConflicts(c))
<1>1. offered \subseteq Offering /\ \A o, p \in offered : o.id = p.id => o = p
  BY DEF Classes
<1>2. \A c \in S : c \in [1..n -> Offering] /\ c \in [1..n -> offered]
  BY <1>1
<1>3. \A c \in S : /\ key[c] \in Key(n + 2) /\ key[c][1] = Meets(c)
                   /\ \A k \in 1..n : key[c][k + 2] = c[k].id
  BY <1>2, KeyOfChoice
<1>4. key \in [S -> Key(n + 2)] /\ n + 2 \in Nat /\ n + 2 \in Nat \ {0}
  BY <1>3
<1>0. \A c \in S : Meets(c) \in Nat
  BY <1>2, ConflictsFinite
<1> HIDE DEF key, Meets
<1>5. ASSUME NEW c \in S, NEW d \in S, key[c] = key[d] PROVE c = d
  <2>1. \A k \in 1..n : c[k].id = d[k].id
    BY <1>3, <1>5
  <2>2. \A k \in 1..n : c[k] \in offered /\ d[k] \in offered
    BY <1>2
  <2>3. \A k \in 1..n : c[k] = d[k]
    BY <1>1, <2>1, <2>2
  <2>4. c \in [1..n -> offered] /\ d \in [1..n -> offered]
    BY <1>2
  <2> QED BY <2>3, <2>4
<1>6. Keyed(S, key, n + 2)
  BY <1>4, <1>5 DEF Keyed
<1>7. /\ list \in Seq(S) /\ Len(list) = Cardinality(S) /\ ToSet(list) = S
      /\ \A c \in S : best = c \/ Less(key[best], key[c])
  BY <1>6, SortedAll
<1>8. best \in S /\ Head(list) = best
  <2>1. Cardinality(S) # 0
    BY FS_EmptySet
  <2>2. Len(list) # 0 /\ Len(list) \in Nat
    BY <1>7, <2>1, LenProperties
  <2>3. 1 \in 1..Len(list)
    BY <2>2
  <2> HIDE DEF list
  <2> QED BY <1>7, <2>2, <2>3, ElementOfSeq
<1> HIDE DEF list, best
<1>9. ASSUME NEW c \in S PROVE Meets(best) <= Meets(c)
  <2>1. CASE best = c
    BY <1>0, <2>1
  <2>2. CASE Less(key[best], key[c])
    <3>1. key[best] \in Key(n + 2) /\ key[c] \in Key(n + 2)
      BY <1>3, <1>8
    <3>2. key[best][1] <= key[c][1]
      BY <1>4, <2>2, <3>1, LessFirst
    <3> QED BY <1>3, <1>8, <3>2
  <2> QED BY <1>7, <2>1, <2>2
<1>10. Head(SortBy(S, [c \in S |-> CombinationKey(c, pref)])) = best
  BY <1>8 DEF list, key
<1> QED BY <1>8, <1>9, <1>10 DEF Meets

\* Two slots overlap exactly when they share an hour.
LEMMA OverlapHours ==
    ASSUME NEW a \in SlotRow, NEW b \in SlotRow
    PROVE  Overlap(a, b) <=>
             \E h \in Int : /\ a.day = b.day /\ h \in a.start..(a.end - 1)
                            /\ h \in b.start..(b.end - 1)
<1> DEFINE s == a.start
           t == b.start
           d == a.end
           e == b.end
<1>1. s \in Int /\ t \in Int /\ d \in Int /\ e \in Int
  BY DEF SlotRow
<1>2. Max({s, t}) = IF s >= t THEN s ELSE t
  <2> HIDE DEF s, t
  <2> QED BY <1>1, LargerOfTwo
<1>3. Min({d, e}) = IF d <= e THEN d ELSE e
  <2> HIDE DEF d, e
  <2> QED BY <1>1, SmallerOfTwo
<1>4. Overlap(a, b) <=> a.day = b.day /\ Max({s, t}) < Min({d, e})
  BY DEF Overlap
<1>5. Max({s, t}) < Min({d, e}) <=> \E h \in Int : h \in s..(d - 1) /\ h \in t..(e - 1)
  <2> DEFINE m == IF s >= t THEN s ELSE t
             u == IF d <= e THEN d ELSE e
  <2> HIDE DEF s, t, d, e
  <2>1. m < u => m \in s..(d - 1) /\ m \in t..(e - 1) /\ m \in Int
    BY <1>1
  <2>2. \A h \in Int : h \in s..(d - 1) /\ h \in t..(e - 1) => m < u
    BY <1>1
  <2>3. Max({s, t}) = m /\ Min({d, e}) = u
    BY <1>2, <1>3
  <2> HIDE DEF m, u
  <2> QED BY <2>1, <2>2, <2>3
<1> HIDE DEF s, t, d, e
<1>6. Overlap(a, b) <=>
        \E h \in Int : a.day = b.day /\ h \in s..(d - 1) /\ h \in t..(e - 1)
  BY <1>4, <1>5
<1> QED BY <1>6 DEF s, t, d, e

\* A choice of different classes has no conflict exactly when no two of them share an hour.
LEMMA ConflictsMeet ==
    ASSUME NEW n \in Nat, NEW c \in [1..n -> Offering],
           \A i, j \in 1..n : c[i].id = c[j].id => i = j
    PROVE  DetectScheduleConflicts(c) = {} <=> Compatible(c)
<1> DEFINE slot(k, i) == c[k].slots[i]
           In(k, i) == i \in DOMAIN c[k].slots /\ Valid(slot(k, i))
           Hour(k, i) == {<<slot(k, i).day, h>> : h \in slot(k, i).start..(slot(k, i).end - 1)}
<1>1. \A k \in 1..n : \A i : In(k, i) => slot(k, i) \in SlotRow
  <2> SUFFICES ASSUME NEW k \in 1..n, NEW i, In(k, i) PROVE slot(k, i) \in SlotRow
    OBVIOUS
  <2> DEFINE s == c[k].slots
  <2>1. s \in Seq(SlotRow) /\ i \in DOMAIN s
    BY DEF Offering
  <2> HIDE DEF s
  <2>2. s[i] \in SlotRow
    BY <2>1, LenProperties, ElementOfSeq
  <2> QED BY <2>2 DEF s
<1>3. \A k, i : <<k, i>> \in SlotsOf(c) <=> k \in 1..n /\ In(k, i)
  BY DEF SlotsOf
<1>4. \A k \in 1..n : \A x : x \in Hours(c[k]) <=> \E i : In(k, i) /\ x \in Hour(k, i)
  BY DEF Hours, ToSet
<1>5. \A q \in SlotsOf(c) : q = <<q[1], q[2]>>
  BY DEF SlotsOf
<1> HIDE DEF In
<1>6. ASSUME NEW k \in 1..n, NEW m \in 1..n, NEW i, NEW j, In(k, i), In(m, j),
             k < m, c[k].id # c[m].id, Overlap(slot(k, i), slot(m, j))
      PROVE  DetectScheduleConflicts(c) # {}
  <2> DEFINE q == << <<k, i>>, <<m, j>> >>
  <2>1. q \in SlotsOf(c) \X SlotsOf(c)
    BY <1>3, <1>6
  <2>2. q[1][1] = k /\ q[1][2] = i /\ q[2][1] = m /\ q[2][2] = j
    OBVIOUS
  <2> HIDE DEF q
  <2>3. q \in DetectScheduleConflicts(c)
    BY <1>6, <2>1, <2>2 DEF DetectScheduleConflicts
  <2> QED BY <2>3
<1>2. ASSUME DetectScheduleConflicts(c) # {}
      PROVE  \E k, m \in 1..n : \E i, j : /\ In(k, i) /\ In(m, j) /\ k < m /\ c[k].id # c[m].id
                                          /\ Overlap(slot(k, i), slot(m, j))
  <2>1. PICK q \in DetectScheduleConflicts(c) : TRUE
    BY <1>2
  <2>2. /\ q[1] \in SlotsOf(c) /\ q[2] \in SlotsOf(c) /\ q[1][1] < q[2][1]
        /\ c[q[1][1]].id # c[q[2][1]].id
        /\ Overlap(slot(q[1][1], q[1][2]), slot(q[2][1], q[2][2]))
    BY <2>1 DEF DetectScheduleConflicts
  <2> DEFINE k == q[1][1]
             i == q[1][2]
             m == q[2][1]
             j == q[2][2]
  <2>3. <<k, i>> \in SlotsOf(c) /\ <<m, j>> \in SlotsOf(c)
    BY <1>5, <2>2
  <2>4. k \in 1..n /\ m \in 1..n /\ In(k, i) /\ In(m, j)
    BY <1>3, <2>3
  <2> QED BY <2>2, <2>4
<1>7. ASSUME NEW k \in 1..n, NEW m \in 1..n, NEW i, NEW j, In(k, i), In(m, j)
      PROVE  Overlap(slot(k, i), slot(m, j)) <=> Hour(k, i) \cap Hour(m, j) # {}
  <2> DEFINE a == slot(k, i)
             b == slot(m, j)
  <2>1. a \in SlotRow /\ b \in SlotRow
    BY <1>1, <1>7
  <2>2. Hour(k, i) = {<<a.day, h>> : h \in a.start..(a.end - 1)}
        /\ Hour(m, j) = {<<b.day, h>> : h \in b.start..(b.end - 1)}
    OBVIOUS
  <2> HIDE DEF a, b, Hour
  <2>3. Overlap(a, b) <=> \E h \in Int : /\ a.day = b.day /\ h \in a.start..(a.end - 1)
                                         /\ h \in b.start..(b.end - 1)
    BY <2>1, OverlapHours
  <2>4. a.start..(a.end - 1) \subseteq Int
    OBVIOUS
  <2> DEFINE A == a.start..(a.end - 1)
             B == b.start..(b.end - 1)
  <2>5. Hour(k, i) \cap Hour(m, j) # {} <=>
          \E h \in Int : a.day = b.day /\ h \in A /\ h \in B
    <3>1. A \subseteq Int
      BY <2>4
    <3>2. Hour(k, i) = {<<a.day, h>> : h \in A} /\ Hour(m, j) = {<<b.day, h>> : h \in B}
      BY <2>2
    <3> HIDE DEF A, B
    <3>3. ASSUME NEW x \in Hour(k, i) \cap Hour(m, j)
          PROVE  \E h \in Int : a.day = b.day /\ h \in A /\ h \in B
      <4>1. PICK g \in A : x = <<a.day, g>>
        BY <3>2
      <4>2. PICK h \in B : x = <<b.day, h>>
        BY <3>2
      <4>3. a.day = b.day /\ g = h
        BY <4>1, <4>2
      <4> QED BY <3>1, <4>3
    <3>4. ASSUME NEW h \in Int, a.day = b.day, h \in A, h \in B
          PROVE  Hour(k, i) \cap Hour(m, j) # {}
      <4>1. <<a.day, h>> \in Hour(k, i) /\ <<a.day, h>> \in Hour(m, j)
        BY <3>2, <3>4
      <4> QED BY <4>1
    <3> QED BY <3>3, <3>4
  <2> QED BY <2>3, <2>5 DEF a, b
<1> HIDE DEF slot, Hour
<1>8. Compatible(c) <=>
        \A k, m \in 1..n : k < m => Hours(c[k]) \cap Hours(c[m]) = {}
  BY DEF Compatible
<1>9. ASSUME NEW k \in 1..n, NEW m \in 1..n
      PROVE  Hours(c[k]) \cap Hours(c[m]) = {} <=>
               \A i, j : In(k, i) /\ In(m, j) => ~Overlap(slot(k, i), slot(m, j))
  <2>1. Hours(c[k]) \cap Hours(c[m]) = {} <=>
          \A i, j : In(k, i) /\ In(m, j) => Hour(k, i) \cap Hour(m, j) = {}
    BY <1>4
  <2> QED BY <1>7, <2>1
<1>10. \A k, m \in 1..n : k < m => c[k].id # c[m].id
  OBVIOUS
<1>11. ASSUME Compatible(c) PROVE DetectScheduleConflicts(c) = {}
  BY <1>2, <1>8, <1>9, <1>11
<1>12. ASSUME DetectScheduleConflicts(c) = {} PROVE Compatible(c)
  BY <1>6, <1>8, <1>9, <1>10, <1>12
<1> QED BY <1>11, <1>12

-----------------------------------------------------------------------------
(* Planning: a schedule *)

NamesOf(items) == [n \in DOMAIN items |-> items[n].course]
OfferedFor(offerings, name) == {o \in offerings : o.course = name}

\* The courses of a plan, each with the classes offered for it.
Built(courses, names, offerings) ==
    /\ names \in Seq(Int) /\ \A i, j \in 1..Len(names) : names[i] = names[j] => i = j
    /\ courses \in Seq(CourseOptions) /\ Len(courses) = Len(names)
    /\ \A k \in 1..Len(names) :
          /\ courses[k].course = names[k]
          /\ ToSet(courses[k].offerings) = OfferedFor(offerings, names[k])
          /\ courses[k].offerings = <<>> <=> OfferedFor(offerings, names[k]) = {}

LEMMA OfferedClasses ==
    ASSUME NEW offerings, Classes(offerings), NEW name
    PROVE  /\ Classes(OfferedFor(offerings, name))
           /\ OfferedFor(offerings, name) \subseteq offerings
<1>1. OfferedFor(offerings, name) \subseteq offerings
  BY DEF OfferedFor
<1> QED BY <1>1, FS_Subset DEF Classes

LEMMA CoursesBuilt ==
    ASSUME NEW items \in Seq([course : Int, credits : Int]), NEW offerings, Classes(offerings),
           NEW campus
    PROVE  Built(BuildScheduleOptions(items, offerings, campus), Distinct(NamesOf(items)),
                 offerings)
<1> DEFINE names == Distinct(NamesOf(items))
           n == Len(names)
           options(k) == Options(OfferedFor(offerings, names[k]), campus)
           courses == [k \in DOMAIN names |-> [course |-> names[k], offerings |-> options(k)]]
<1>1. NamesOf(items) \in Seq(Int)
  <2> DEFINE Row == [course : Int, credits : Int]
  <2>1. \A row \in Row : row.course \in Int
    OBVIOUS
  <2>2. items \in Seq(Row)
    OBVIOUS
  <2> HIDE DEF Row
  <2>3. Len(items) \in Nat /\ DOMAIN items = 1..Len(items)
        /\ \A k \in 1..Len(items) : items[k] \in Row
    BY <2>2, LenProperties, ElementOfSeq
  <2>4. \A k \in 1..Len(items) : items[k].course \in Int
    BY <2>1, <2>3
  <2> QED BY <2>3, <2>4 DEF NamesOf
<1>2. /\ names \in Seq(Int)
      /\ \A i, j \in 1..Len(names) : names[i] = names[j] => i = j
  BY <1>1, DistinctNames
<1>3. BuildScheduleOptions(items, offerings, campus) = courses
  BY DEF BuildScheduleOptions, NamesOf, OfferedFor
<1> HIDE DEF names
<1>4. n \in Nat /\ DOMAIN names = 1..n /\ \A k \in 1..n : names[k] \in Int
  BY <1>2, LenProperties, ElementOfSeq
<1>5. \A k \in 1..n : /\ options(k) \in Seq(OfferedFor(offerings, names[k]))
                      /\ ToSet(options(k)) = OfferedFor(offerings, names[k])
                      /\ options(k) = <<>> <=> OfferedFor(offerings, names[k]) = {}
  BY OptionsAll, OfferedClasses
<1>6. \A k \in 1..n : options(k) \in Seq(Offering)
  <2>1. \A k \in 1..n : OfferedFor(offerings, names[k]) \subseteq Offering
    BY OfferedClasses DEF Classes
  <2> HIDE DEF options
  <2> QED BY <1>5, <2>1
<1> HIDE DEF options, n
<1>7. courses \in [1..n -> CourseOptions] /\ courses \in Seq(CourseOptions) /\ Len(courses) = n
  BY <1>4, <1>6 DEF CourseOptions
<1>8. \A k \in 1..n : courses[k].course = names[k] /\ courses[k].offerings = options(k)
  BY <1>4
<1> HIDE DEF courses
<1> QED BY <1>2, <1>3, <1>5, <1>7, <1>8 DEF Built, n, names

\* When every course has classes, the choices are the ways to take every course.
LEMMA ChoicesAreWays ==
    ASSUME NEW items, NEW offerings, Classes(offerings), NEW courses, NEW pref,
           Built(courses, Distinct(NamesOf(items)), offerings)
    PROVE  LET ranked == [n \in DOMAIN courses |-> BestFirst(ToSet(courses[n].offerings), pref)]
           IN  /\ ClassLists(ranked, Len(courses))
               /\ ChoicesOf(ranked) = WaysToTake(items, offerings)
<1> DEFINE names == Distinct(NamesOf(items))
           n == Len(names)
           ranked == [k \in DOMAIN courses |-> BestFirst(ToSet(courses[k].offerings), pref)]
           C(k) == OfferedFor(offerings, names[k])
<1>1. /\ names \in Seq(Int) /\ courses \in Seq(CourseOptions) /\ Len(courses) = n
      /\ \A k \in 1..n : ToSet(courses[k].offerings) = C(k)
  BY DEF Built
<1>2. n \in Nat /\ DOMAIN names = 1..n /\ DOMAIN courses = 1..n
  BY <1>1, LenProperties
<1>3. WaysToTake(items, offerings)
        = {c \in [1..n -> offerings] : \A k \in 1..n : c[k].course = names[k]}
  <2>1. WaysToTake(items, offerings)
          = {c \in [DOMAIN names -> offerings] : \A k \in DOMAIN names : c[k].course = names[k]}
    BY DEF WaysToTake, NamesOf
  <2> HIDE DEF names, n
  <2> QED BY <1>2, <2>1
<1> HIDE DEF names, n
<1>4. DOMAIN ranked = 1..n
      /\ \A k \in 1..n : ranked[k] \in Seq(C(k)) /\ ToSet(ranked[k]) = C(k)
  <2>1. \A k \in 1..n : ranked[k] = BestFirst(C(k), pref)
    BY <1>1, <1>2
  <2>2. \A k \in 1..n : /\ BestFirst(C(k), pref) \in Seq(C(k))
                        /\ ToSet(BestFirst(C(k), pref)) = C(k)
    BY OfferedClasses, BestFirstAll
  <2> HIDE DEF C
  <2> QED BY <1>2, <2>1, <2>2
<1>5. \A k \in 1..n : C(k) \subseteq offerings /\ C(k) \subseteq Offering /\ IsFiniteSet(C(k))
  BY OfferedClasses DEF Classes
<1> HIDE DEF ranked
<1>6. ClassLists(ranked, n)
  <2>1. \A k \in 1..n : ranked[k] \in Seq(Offering)
    <3> HIDE DEF C
    <3> QED BY <1>4, <1>5
  <2> HIDE DEF C
  <2> QED BY <1>2, <1>4, <1>5, <2>1 DEF ClassLists
<1>7. ChoicesOf(ranked) = {c \in [1..n -> UNION {ToSet(ranked[k]) : k \in 1..n}] :
                             \A k \in 1..n : c[k] \in C(k)}
  <2> HIDE DEF C
  <2> QED BY <1>4 DEF ChoicesOf
<1>8. ASSUME NEW c \in ChoicesOf(ranked) PROVE c \in WaysToTake(items, offerings)
  <2>1. \A k \in 1..n : c[k] \in C(k)
    BY <1>7
  <2>2. \A k \in 1..n : c[k] \in offerings /\ c[k].course = names[k]
    BY <2>1 DEF OfferedFor
  <2>3. c \in [1..n -> offerings]
    <3>1. c \in [1..n -> UNION {ToSet(ranked[k]) : k \in 1..n}]
      BY <1>7
    <3> HIDE DEF C
    <3> QED BY <2>2, <3>1
  <2> QED BY <1>3, <2>2, <2>3
<1>9. ASSUME NEW c \in WaysToTake(items, offerings) PROVE c \in ChoicesOf(ranked)
  <2>1. c \in [1..n -> offerings] /\ \A k \in 1..n : c[k].course = names[k]
    BY <1>3
  <2>2. \A k \in 1..n : c[k] \in C(k)
    BY <2>1 DEF OfferedFor
  <2>3. \A k \in 1..n : c[k] \in UNION {ToSet(ranked[m]) : m \in 1..n}
    <3> HIDE DEF C
    <3> QED BY <1>4, <2>2
  <2>4. c \in [1..n -> UNION {ToSet(ranked[m]) : m \in 1..n}]
    <3> HIDE DEF C
    <3> QED BY <2>1, <2>3
  <2> HIDE DEF C
  <2> QED BY <1>7, <2>2, <2>4
<1>10. Len(courses) = n
  BY <1>1
<1> QED BY <1>6, <1>8, <1>9, <1>10 DEF ranked

\* A schedule for the courses of a plan is as FeasibleIffPossible says.
LEMMA ScheduleRight ==
    ASSUME NEW items, NEW offerings, Classes(offerings), NEW courses, NEW pref,
           Built(courses, Distinct(NamesOf(items)), offerings)
    PROVE  LET a == AutoSelectSchedule(courses, pref)
               ways == WaysToTake(items, offerings)
               good == {c \in ways : Compatible(c)} IN
           /\ a.feasible => a.selected \in good
           /\ good # {} /\ Cardinality(ways) <= MaxCombinations => a.feasible
<1> DEFINE names == Distinct(NamesOf(items))
           n == Len(names)
           a == AutoSelectSchedule(courses, pref)
           ways == WaysToTake(items, offerings)
           good == {c \in ways : Compatible(c)}
           missing == {c.course : c \in {x \in ToSet(courses) : x.offerings = <<>>}}
           best == Head(SortedChoices(Available(courses), pref))
           met == DetectScheduleConflicts(best)
<1>1. a.feasible = (missing = {} /\ met = {}) /\ a.selected = best
  BY DEF AutoSelectSchedule
<1>2. /\ names \in Seq(Int) /\ courses \in Seq(CourseOptions) /\ Len(courses) = n
      /\ \A i, j \in 1..n : names[i] = names[j] => i = j
      /\ \A k \in 1..n : courses[k].offerings = <<>> <=> OfferedFor(offerings, names[k]) = {}
  BY DEF Built
<1>3. n \in Nat /\ DOMAIN names = 1..n /\ DOMAIN courses = 1..n
  BY <1>2, LenProperties
<1>4. ways = {c \in [1..n -> offerings] : \A k \in 1..n : c[k].course = names[k]}
  <2>1. ways = {c \in [DOMAIN names -> offerings] :
                  \A k \in DOMAIN names : c[k].course = names[k]}
    BY DEF WaysToTake, NamesOf
  <2> HIDE DEF names, n, ways
  <2> QED BY <1>3, <2>1
<1>5. missing = {} <=> \A k \in 1..n : courses[k].offerings # <<>>
  <2> HIDE DEF names, n
  <2> QED BY <1>3 DEF ToSet
<1> SUFFICES (a.feasible => a.selected \in good)
             /\ (good # {} /\ Cardinality(ways) <= MaxCombinations => a.feasible)
  OBVIOUS
<1> HIDE DEF names, n, a, ways, missing
<1>6. CASE missing # {}
  <2>1. PICK k \in 1..n : OfferedFor(offerings, names[k]) = {}
    BY <1>2, <1>5, <1>6
  <2>2. ways = {}
    BY <1>4, <2>1 DEF OfferedFor
  <2> HIDE DEF met
  <2> QED BY <1>1, <1>6, <2>2
<1>7. CASE missing = {}
  <2> DEFINE ranked == [k \in DOMAIN courses |-> BestFirst(ToSet(courses[k].offerings), pref)]
             V == Visited(ranked)
  <2>1. Available(courses) = courses
    BY <1>2, <1>5, <1>7, AllAvailable
  <2>2. ClassLists(ranked, n) /\ ChoicesOf(ranked) = ways
    <3>1. /\ ClassLists(ranked, Len(courses))
          /\ ChoicesOf(ranked) = WaysToTake(items, offerings)
      BY ChoicesAreWays
    <3>2. Len(courses) = n
      BY <1>2
    <3> HIDE DEF ranked
    <3> QED BY <3>1, <3>2 DEF ways
  <2>3. SortedChoices(courses, pref) = SortBy(V, [c \in V |-> CombinationKey(c, pref)])
    BY DEF SortedChoices
  <2> HIDE DEF ranked
  <2>4. /\ IsFiniteSet(V) /\ V \subseteq ways /\ (ways # {} => V # {})
        /\ Cardinality(ways) <= MaxCombinations => V = ways
    BY <2>2, VisitedSome
  <2>5. ways # {}
    <3>1. \A k \in 1..n : \E o \in offerings : o.course = names[k]
      BY <1>2, <1>5, <1>7 DEF OfferedFor
    <3> DEFINE c == [k \in 1..n |-> CHOOSE o \in offerings : o.course = names[k]]
    <3>2. c \in ways
      BY <1>4, <3>1
    <3> QED BY <3>2
  <2>6. \A c \in ways : c \in [1..n -> offerings] /\ \A k \in 1..n : c[k].course = names[k]
    BY <1>4
  <2> HIDE DEF V
  <2>7. /\ best \in V
        /\ \A c \in V : Cardinality(DetectScheduleConflicts(best))
                          <= Cardinality(DetectScheduleConflicts(c))
    <3>1. V \subseteq [1..n -> offerings]
      BY <2>4, <2>6
    <3>2. best = Head(SortBy(V, [c \in V |-> CombinationKey(c, pref)]))
      BY <2>1, <2>3
    <3> HIDE DEF best
    <3> QED BY <1>3, <2>4, <2>5, <3>1, <3>2, FewestConflicts
  <2> HIDE DEF best
  <2>8. offerings \subseteq Offering
    BY DEF Classes
  <2>9. \A c \in ways : /\ c \in [1..n -> Offering]
                        /\ \A i, j \in 1..n : c[i].id = c[j].id => i = j
    <3> SUFFICES ASSUME NEW c \in ways
                 PROVE  /\ c \in [1..n -> Offering]
                        /\ \A i, j \in 1..n : c[i].id = c[j].id => i = j
      OBVIOUS
    <3>1. c \in [1..n -> Offering]
      BY <2>6, <2>8
    <3>2. ASSUME NEW i \in 1..n, NEW j \in 1..n, c[i].id = c[j].id PROVE i = j
      <4>1. c[i] \in offerings /\ c[j] \in offerings
        BY <2>6
      <4>2. c[i] = c[j]
        BY <3>2, <4>1 DEF Classes
      <4>3. names[i] = names[j]
        BY <2>6, <4>2
      <4> QED BY <1>2, <4>3
    <3> QED BY <3>1, <3>2
  <2>10. \A c \in ways : /\ DetectScheduleConflicts(c) = {} <=> Compatible(c)
                         /\ Cardinality(DetectScheduleConflicts(c)) \in Nat
                         /\ Cardinality(DetectScheduleConflicts(c)) = 0
                              <=> DetectScheduleConflicts(c) = {}
    BY <1>3, <2>9, ConflictsMeet, ConflictsFinite
  <2>11. best \in ways
    BY <2>4, <2>7
  <2>12. a.feasible = (met = {}) /\ a.selected = best
    BY <1>1, <1>7
  <2>13. ASSUME a.feasible PROVE a.selected \in good
    BY <2>10, <2>11, <2>12, <2>13
  <2>14. ASSUME good # {}, Cardinality(ways) <= MaxCombinations PROVE a.feasible
    <3>1. PICK c \in ways : Compatible(c)
      BY <2>14
    <3>2. c \in V
      BY <2>4, <2>14
    <3>3. Cardinality(DetectScheduleConflicts(c)) = 0
      BY <2>10, <3>1
    <3>4. /\ Cardinality(DetectScheduleConflicts(best)) <= 0
          /\ Cardinality(DetectScheduleConflicts(best)) \in Nat
      BY <2>7, <2>10, <2>11, <3>2, <3>3
    <3>5. Cardinality(DetectScheduleConflicts(best)) = 0
      BY <3>4
    <3> QED BY <2>10, <2>11, <2>12, <3>5
  <2> QED BY <2>13, <2>14
<1> QED BY <1>6, <1>7

\* A schedule called feasible is one, and one that exists is found when the search is not cut
\* short, for any plan, classes and preferences (build_schedule_options, auto_select_schedule).
THEOREM FeasibleIffPossibleAlways == PlanningSpec => []FeasibleIffPossible
<1>1. PlanningInit => FeasibleIffPossible
  BY DEF PlanningInit, FeasibleIffPossible, Asked
<1>2. FeasibleIffPossible /\ [PlanningNext]_planningVars => FeasibleIffPossible'
  <2> SUFFICES ASSUME FeasibleIffPossible, [PlanningNext]_planningVars
               PROVE  FeasibleIffPossible'
    OBVIOUS
  <2>1. CASE AutoScheduleProgram
    <3>1. PICK items \in PlanItemLists, offerings \in OfferingSets,
               pref \in SchedulePreferences :
             Answered([kind |-> "schedule", items |-> items, offerings |-> offerings,
                       pref |-> pref],
                      AutoSelectSchedule(BuildScheduleOptions(items, offerings, pref.campus),
                                         pref))
      BY <2>1 DEF AutoScheduleProgram
    <3> DEFINE courses == BuildScheduleOptions(items, offerings, pref.campus)
    <3>2. request'.items = items /\ request'.offerings = offerings
          /\ answer' = AutoSelectSchedule(courses, pref)
      BY <3>1 DEF Answered
    <3>3. items \in Seq([course : Int, credits : Int]) /\ Classes(offerings)
      BY PlanningAssumption DEF Classes
    <3>4. Built(courses, Distinct(NamesOf(items)), offerings)
      BY <3>3, CoursesBuilt
    <3> HIDE DEF courses
    <3> QED BY <3>2, <3>3, <3>4, ScheduleRight DEF FeasibleIffPossible
  <2>2. CASE CoursePlan \/ ProgramEligibility \/ RecommendPrograms
    <3>1. request'.kind # "schedule"
      BY <2>2 DEF CoursePlan, ProgramEligibility, RecommendPrograms, Answered
    <3> QED BY <3>1 DEF FeasibleIffPossible, Asked
  <2>3. CASE UNCHANGED planningVars
    BY <2>3 DEF FeasibleIffPossible, planningVars, Asked
  <2> QED BY <2>1, <2>2, <2>3 DEF PlanningNext
<1> QED BY <1>1, <1>2, PTL DEF PlanningSpec

-----------------------------------------------------------------------------
(* Conversations *)

ChatMessage == [id : Nat, role : {"user", "assistant"}, size : Nat]

\* Messages are numbered in the order of the conversation.
Numbered(ms) == ms \in Seq(ChatMessage) /\ \A i \in 1..Len(ms) : ms[i].id = i

ConversationOK == Numbered(messages)

\* What Turns asks of a conversation.
LEMMA NumberedMessages ==
    ASSUME NEW ms, Numbered(ms), NEW k \in 0..Len(ms)
    PROVE  /\ Messages(ms, 1..k) /\ 1..k \subseteq Nat
           /\ \A i \in 1..k : ms[i] \in ChatMessage /\ ms[i].id = i
<1>1. Len(ms) \in Nat /\ \A i \in 1..Len(ms) : ms[i] \in ChatMessage /\ ms[i].id = i
  BY LenProperties, ElementOfSeq DEF Numbered
<1>2. k \in Int /\ 1 \in Int
  BY <1>1
<1>3. IsFiniteSet(1..k)
  BY <1>2, FS_Interval
<1>4. 1..k \subseteq Nat /\ 1..k \subseteq 1..Len(ms)
  BY <1>1
<1>5. \A i \in 1..k : ms[i] \in ChatMessage /\ ms[i].id = i
  BY <1>1, <1>4
<1>6. \A i \in 1..k : ms[i].size \in Nat
  BY <1>5 DEF ChatMessage
<1> QED BY <1>3, <1>4, <1>5, <1>6 DEF Messages

\* The conversation is numbered, and a message is received at its end.
LEMMA ConversationSteps ==
    /\ Init => ConversationOK
    /\ ConversationOK /\ [Receive]_vars => ConversationOK'
<1>1. Init => ConversationOK
  <2>1. <<>> \in Seq(ChatMessage) /\ Len(<<>>) = 0
    OBVIOUS
  <2> QED BY <2>1 DEF Init, ConversationOK, Numbered
<1>2. ASSUME ConversationOK, Receive PROVE ConversationOK'
  <2>1. messages \in Seq(ChatMessage) /\ Len(messages) \in Nat
    BY <1>2, LenProperties DEF ConversationOK, Numbered
  <2>2. PICK role \in {"user", "assistant"}, size \in Sizes :
           messages' = Append(messages,
                              [id |-> Len(messages) + 1, role |-> role, size |-> size])
    BY <1>2 DEF Receive
  <2> DEFINE m == [id |-> Len(messages) + 1, role |-> role, size |-> size]
  <2>3. m \in ChatMessage
    BY <2>1, LoopsAssumption DEF ChatMessage
  <2>4. m.id = Len(messages) + 1
    OBVIOUS
  <2> HIDE DEF m
  <2>5. /\ messages' \in Seq(ChatMessage) /\ Len(messages') = Len(messages) + 1
        /\ messages'[Len(messages) + 1] = m
        /\ \A i \in 1..Len(messages) : messages'[i] = messages[i]
    BY <2>1, <2>2, <2>3, AppendProperties DEF m
  <2>6. ASSUME NEW i \in 1..Len(messages') PROVE messages'[i].id = i
    <3>1. i \in 1..Len(messages) \/ i = Len(messages) + 1
      BY <2>1, <2>5
    <3>2. i \in 1..Len(messages) => messages[i].id = i
      BY <1>2 DEF ConversationOK, Numbered
    <3> QED BY <2>4, <2>5, <3>1, <3>2
  <2> QED BY <2>5, <2>6 DEF ConversationOK, Numbered
<1>3. ASSUME ConversationOK, UNCHANGED vars PROVE ConversationOK'
  BY <1>3 DEF vars, ConversationOK
<1> QED BY <1>1, <1>2, <1>3

(* A turn handed to the summary is never sent raw again, however the conversation     *)
(* goes on, for any lengths and limits (assemble_conversation_context).              *)
THEOREM LeavesForGoodAlways == Spec => LeavesForGood
<1>1. ASSUME ConversationOK, ConversationOK', [Receive]_vars
      PROVE  [Candidates(messages, Everything) \subseteq Candidates(messages, Everything)']_vars
  <2> DEFINE l == messages
             m == messages'
             S == 1..Len(messages)
             R == 1..Len(messages')
  <2>1. SUFFICES ASSUME Receive
                 PROVE  Candidates(l, S) \subseteq Candidates(m, R)
    <3>1. Everything = S /\ Everything' = R
      BY <1>1, LenProperties DEF Everything, ConversationOK, Numbered
    <3> QED BY <1>1, <3>1
  <2>2. /\ Len(l) \in Nat /\ Len(m) = Len(l) + 1
        /\ \A i \in S : m[i] = l[i]
    <3>1. l \in Seq(ChatMessage) /\ Len(l) \in Nat
      BY <1>1, LenProperties DEF ConversationOK, Numbered
    <3>2. PICK role, size :
             m = Append(l, [id |-> Len(l) + 1, role |-> role, size |-> size])
      BY <2>1 DEF Receive
    <3> QED BY <3>1, <3>2
  <2>3. /\ Messages(l, S) /\ Messages(m, R)
        /\ \A i \in R : m[i].role \in {"user", "assistant"}
    <3>1. Len(l) \in 0..Len(l) /\ Len(m) \in 0..Len(m)
      BY <2>2
    <3> QED BY <1>1, <3>1, NumberedMessages DEF ConversationOK, ChatMessage
  <2>4. Grows(l, S, m, R)
    BY <2>2 DEF Grows
  <2> HIDE DEF l, m, S, R
  <2>5. \A e \in Dropped(l, S) : e \in Dropped(m, R)
    BY <2>3, <2>4, DroppedStays
  <2>6. \A e \in Dropped(l, S) : TurnOf(m, R, e) = TurnOf(l, S, e)
    <3>1. Dropped(l, S) \subseteq S
      BY DEF Dropped, TurnEnds
    <3> QED BY <2>3, <2>4, <3>1, TurnsStay
  <2> QED BY <2>5, <2>6 DEF Candidates, Dropped, TurnMessages
<1>2. Spec => []ConversationOK
  BY ConversationSteps, PTL DEF Spec
<1> QED BY <1>1, <1>2, PTL DEF Spec, LeavesForGood

-----------------------------------------------------------------------------
(* Conversations: lists of messages *)

\* The sum of the messages' lengths, one after the other.
LEMMA SizesSteps ==
    ASSUME NEW ms \in Seq(ChatMessage)
    PROVE  \E F \in [0..Len(ms) -> Nat] :
              /\ F[0] = 0
              /\ \A k \in 1..Len(ms) : F[k] = F[k - 1] + ms[k].size
              /\ SizesOf(ms) = F[Len(ms)]
<1> DEFINE n == Len(ms)
           base == 0
           step == [q \in (1..n) \X Nat |-> q[2] + ms[q[1]].size]
           Eqn(h) == h = [s \in SUBSET (1..n) |->
                            IF s = {} THEN base
                            ELSE h[s \ {Max(s)}] + ms[Max(s)].size]
           iter == CHOOSE h : Eqn(h)
<1>1. n \in Nat /\ DOMAIN ms = 1..n /\ \A k \in 1..n : ms[k].size \in Nat
  <2>1. \A k \in 1..n : ms[k] \in ChatMessage
    BY ElementOfSeq
  <2> QED BY <2>1, LenProperties DEF ChatMessage
<1>2. base \in Nat /\ step \in [(1..n) \X Nat -> Nat]
  BY <1>1
<1>3. SizesOf(ms) = iter[1..n]
  BY <1>1 DEF SizesOf, FoldLeft, MapThenFoldSet
<1>4. \E h : Eqn(h)
  <2>1. PICK h \in [SUBSET (1..n) -> Nat] : IsTable(h, n, base, step)
    <3>1. n \in Nat
      BY <1>1
    <3> HIDE DEF step, n, base
    <3> QED BY <3>1, <1>2, FoldTable
  <2>2. ASSUME NEW s \in SUBSET (1..n), s # {}
        PROVE  step[<<Max(s), h[s \ {Max(s)}]>>] = h[s \ {Max(s)}] + ms[Max(s)].size
    <3>1. Max(s) \in 1..n
      BY <1>1, <2>2, MaxIsIn
    <3>2. h[s \ {Max(s)}] \in Nat
      BY <2>1
    <3> QED BY <3>1, <3>2
  <2>3. Eqn(h)
    <3> HIDE DEF step, n, base
    <3> QED BY <2>1, <2>2 DEF IsTable
  <2> QED BY <2>3
<1>5. Eqn(iter)
  <2> HIDE DEF Eqn
  <2> QED BY <1>4
<1>6. Follows(iter, n, Nat, base, step)
  <2> HIDE DEF iter, base
  <2>1. \A s \in SUBSET (1..n) :
           iter[s] = IF s = {} THEN base
                     ELSE iter[s \ {Max(s)}] + ms[Max(s)].size
    BY <1>5
  <2>2. \A s \in SUBSET (1..n) : s # {} => Max(s) \in 1..n
    BY <1>1, MaxIsIn
  <2> QED BY <1>1, <1>2, <2>1, <2>2 DEF Follows
<1> HIDE DEF iter, step, n, base, Eqn
<1>7. PICK F \in [0..n -> Nat] : IsWalk(F, n, base, step) /\ F[n] = iter[1..n]
  BY <1>6, FoldWalk
<1>8. \A k \in 1..n : F[k - 1] \in Nat /\ step[<<k, F[k - 1]>>] = F[k - 1] + ms[k].size
  BY <1>1, <1>7 DEF step
<1> QED BY <1>3, <1>7, <1>8 DEF n, base, IsWalk

\* A list of messages of ms, in their order.
Lists(ms, p) ==
    /\ p \in Seq(ChatMessage)
    /\ \A i \in 1..Len(p) : p[i].id \in Nat /\ p[i] = ms[p[i].id]
    /\ \A i, j \in 1..Len(p) : i < j => p[i].id < p[j].id

\* The positions of a message.
LEMMA MessageCharacters ==
    ASSUME NEW i, NEW n \in Nat
    PROVE  IsFiniteSet({i} \X (1..n)) /\ Cardinality({i} \X (1..n)) = n
<1>1. IsFiniteSet({i}) /\ Cardinality({i}) = 1
  BY FS_Singleton
<1>2. IsFiniteSet(1..n) /\ Cardinality(1..n) = n
  <2>1. 1 \in Int /\ n \in Int /\ (1 > n <=> n = 0) /\ n - 1 + 1 = n
    OBVIOUS
  <2> QED BY <2>1, FS_Interval
<1>3. /\ IsFiniteSet({i} \X (1..n))
      /\ Cardinality({i} \X (1..n)) = Cardinality({i}) * Cardinality(1..n)
  BY <1>1, <1>2, FS_Product
<1>4. 1 * n = n
  OBVIOUS
<1> QED BY <1>1, <1>2, <1>3, <1>4

\* The text of a list is as long as the text of the messages on it.
LEMMA ListText ==
    ASSUME NEW ms, NEW p, Lists(ms, p)
    PROVE  /\ IsFiniteSet(IdsOf(p)) /\ Cardinality(IdsOf(p)) = Len(p)
           /\ JoinedSize(p) = TextSize(ms, IdsOf(p))
           /\ IdsOf(p) = {} <=> p = <<>>
<1> DEFINE n == Len(p)
           IdsTo(k) == {p[i].id : i \in 1..k}
<1>1. /\ n \in Nat /\ DOMAIN p = 1..n
      /\ \A k \in 1..n : /\ p[k] \in ChatMessage /\ p[k].id \in Nat /\ p[k].size \in Nat
                         /\ p[k] = ms[p[k].id]
  <2>1. p \in Seq(ChatMessage) /\ n \in Nat /\ DOMAIN p = 1..n
    BY LenProperties DEF Lists
  <2>2. \A k \in 1..n : p[k] \in ChatMessage
    BY <2>1, ElementOfSeq
  <2> QED BY <2>1, <2>2 DEF ChatMessage, Lists
<1>2. PICK F \in [0..n -> Nat] :
         /\ F[0] = 0 /\ \A k \in 1..n : F[k] = F[k - 1] + p[k].size
         /\ SizesOf(p) = F[n]
  BY SizesSteps DEF Lists
<1> DEFINE P == {k \in 0..n : /\ IsFiniteSet(IdsTo(k)) /\ Cardinality(IdsTo(k)) = k
                              /\ IsFiniteSet(Characters(ms, IdsTo(k)))
                              /\ Cardinality(Characters(ms, IdsTo(k))) = F[k]}
<1>3. 0 \in P
  <2>1. IdsTo(0) = {}
    OBVIOUS
  <2>2. Characters(ms, {}) = {}
    BY DEF Characters
  <2>3. IsFiniteSet({}) /\ Cardinality({}) = 0
    BY FS_EmptySet
  <2>4. 0 \in 0..n
    BY <1>1
  <2> HIDE DEF IdsTo
  <2> QED BY <1>2, <2>1, <2>2, <2>3, <2>4
<1>4. ASSUME NEW k \in 1..n, k - 1 \in P PROVE k \in P
  <2> DEFINE S == IdsTo(k - 1)
             T == {p[k].id} \X (1..p[k].size)
  <2>1. IdsTo(k) = S \cup {p[k].id}
    <3>1. 1..k = (1..(k - 1)) \cup {k}
      BY <1>1
    <3> QED BY <3>1
  <2>2. p[k].id \notin S
    <3>1. \A i \in 1..(k - 1) : i \in 1..n /\ i < k
      BY <1>1
    <3>2. \A i \in 1..(k - 1) : p[i].id # p[k].id
      BY <1>1, <3>1 DEF Lists
    <3> QED BY <3>2
  <2>3. Characters(ms, S \cup {p[k].id}) = Characters(ms, S) \cup T
    <3>1. ms[p[k].id].size = p[k].size
      BY <1>1
    <3> HIDE DEF S
    <3> QED BY <3>1 DEF Characters
  <2>4. Characters(ms, S) \cap T = {}
    <3> HIDE DEF S
    <3> QED BY <2>2 DEF Characters
  <2>5. /\ IsFiniteSet(S) /\ Cardinality(S) = k - 1
        /\ IsFiniteSet(Characters(ms, S)) /\ Cardinality(Characters(ms, S)) = F[k - 1]
    BY <1>4
  <2>6. IsFiniteSet(T) /\ Cardinality(T) = p[k].size
    BY <1>1, MessageCharacters
  <2> HIDE DEF S, T
  <2>7. IsFiniteSet(S \cup {p[k].id}) /\ Cardinality(S \cup {p[k].id}) = (k - 1) + 1
    BY <2>2, <2>5, FS_AddElement
  <2>8. /\ IsFiniteSet(Characters(ms, S) \cup T)
        /\ Cardinality(Characters(ms, S) \cup T) = F[k - 1] + p[k].size - 0
    BY <2>4, <2>5, <2>6, FS_Union, FS_EmptySet
  <2>9. k \in 0..n /\ (k - 1) + 1 = k /\ F[k] = F[k - 1] + p[k].size - 0
    <3>1. F[k - 1] \in Nat
      BY <1>1, <1>2
    <3> QED BY <1>1, <1>2, <3>1
  <2> HIDE DEF IdsTo
  <2> QED BY <2>1, <2>3, <2>7, <2>8, <2>9
<1>5. n \in P
  <2> HIDE DEF P
  <2>1. \A k \in 0..n : k \in P
    BY <1>1, <1>3, <1>4, UpTo
  <2> QED BY <1>1, <2>1
<1>6. IdsOf(p) = IdsTo(n)
  BY <1>1 DEF IdsOf
<1>7. n = 0 <=> p = <<>>
  BY EmptySeq DEF Lists
<1>8. IdsTo(n) = {} <=> n = 0
  BY <1>1
<1>9. JoinedSize(p) = SizesOf(p) + SeparatorSize * (IF p = <<>> THEN 0 ELSE n - 1)
  BY DEF JoinedSize
<1>10. TextSize(ms, IdsTo(n)) = Cardinality(Characters(ms, IdsTo(n)))
            + SeparatorSize * (IF IdsTo(n) = {} THEN 0 ELSE Cardinality(IdsTo(n)) - 1)
  BY DEF TextSize
<1> HIDE DEF IdsTo
<1> QED BY <1>2, <1>5, <1>6, <1>7, <1>8, <1>9, <1>10

\* One list before another.
LEMMA ListsJoin ==
    ASSUME NEW ms, NEW p, NEW q, Lists(ms, p), Lists(ms, q),
           \A i \in IdsOf(p), j \in IdsOf(q) : i < j
    PROVE  Lists(ms, p \o q) /\ IdsOf(p \o q) = IdsOf(p) \cup IdsOf(q)
<1> DEFINE r == p \o q
<1>1. /\ p \in Seq(ChatMessage) /\ q \in Seq(ChatMessage)
      /\ Len(p) \in Nat /\ Len(q) \in Nat /\ DOMAIN p = 1..Len(p) /\ DOMAIN q = 1..Len(q)
  BY LenProperties DEF Lists
<1>2. /\ r \in Seq(ChatMessage) /\ Len(r) = Len(p) + Len(q)
      /\ \A i \in 1..(Len(p) + Len(q)) : r[i] = IF i <= Len(p) THEN p[i] ELSE q[i - Len(p)]
  BY <1>1, ConcatProperties
<1>3. DOMAIN r = 1..Len(r)
  BY <1>2, LenProperties
<1> HIDE DEF r
<1>4. \A i \in 1..Len(r) : \/ i \in 1..Len(p) /\ r[i] = p[i]
                           \/ /\ i > Len(p) /\ i - Len(p) \in 1..Len(q)
                              /\ r[i] = q[i - Len(p)]
  BY <1>1, <1>2
<1>5. /\ \A i \in 1..Len(p) : i \in 1..Len(r) /\ r[i] = p[i]
      /\ \A j \in 1..Len(q) : Len(p) + j \in 1..Len(r) /\ r[Len(p) + j] = q[j]
  BY <1>1, <1>2
<1>6. IdsOf(r) = IdsOf(p) \cup IdsOf(q)
  <2>1. IdsOf(r) \subseteq IdsOf(p) \cup IdsOf(q)
    BY <1>1, <1>3, <1>4 DEF IdsOf
  <2>2. IdsOf(p) \subseteq IdsOf(r)
    BY <1>1, <1>3, <1>5 DEF IdsOf
  <2>3. IdsOf(q) \subseteq IdsOf(r)
    <3> SUFFICES ASSUME NEW j \in 1..Len(q) PROVE q[j].id \in IdsOf(r)
      BY <1>1 DEF IdsOf
    <3>1. Len(p) + j \in DOMAIN r /\ r[Len(p) + j].id = q[j].id
      BY <1>3, <1>5
    <3> QED BY <3>1 DEF IdsOf
  <2> QED BY <2>1, <2>2, <2>3
<1>7. \A i \in 1..Len(r) : r[i].id \in Nat /\ r[i] = ms[r[i].id]
  BY <1>4 DEF Lists
<1>8. ASSUME NEW i \in 1..Len(r), NEW j \in 1..Len(r), i < j PROVE r[i].id < r[j].id
  <2>1. CASE i \in 1..Len(p) /\ j \in 1..Len(p)
    BY <1>1, <1>5, <1>8, <2>1 DEF Lists
  <2>2. CASE i \in 1..Len(p) /\ j > Len(p)
    <3>1. r[i] = p[i] /\ j - Len(p) \in 1..Len(q) /\ r[j] = q[j - Len(p)]
      BY <1>1, <1>4, <1>5, <2>2
    <3>2. p[i].id \in IdsOf(p) /\ q[j - Len(p)].id \in IdsOf(q)
      BY <1>1, <2>2, <3>1 DEF IdsOf
    <3> QED BY <3>1, <3>2
  <2>3. CASE i > Len(p) /\ j > Len(p)
    <3>1. /\ i - Len(p) \in 1..Len(q) /\ r[i] = q[i - Len(p)]
          /\ j - Len(p) \in 1..Len(q) /\ r[j] = q[j - Len(p)]
          /\ i - Len(p) < j - Len(p)
      BY <1>1, <1>4, <1>8, <2>3
    <3> QED BY <3>1 DEF Lists
  <2> QED BY <1>1, <1>2, <1>8, <2>1, <2>2, <2>3
<1>9. Lists(ms, r)
  BY <1>2, <1>7, <1>8 DEF Lists
<1> QED BY <1>6, <1>9 DEF r

-----------------------------------------------------------------------------
(* Conversations: the turns of group_turns *)

\* What one more message does to the turns and to the pending segment.
LEMMA OneMoreMessage ==
    ASSUME NEW l, NEW k \in Nat \ {0}, \A i \in 1..k : l[i].role \in {"user", "assistant"},
           Messages(l, 1..k)
    PROVE  /\ \A e \in 1..(k - 1) : TurnOf(l, 1..k, e) = TurnOf(l, 1..(k - 1), e)
           /\ l[k].role = "user" =>
                 /\ TurnEnds(l, 1..k) = TurnEnds(l, 1..(k - 1))
                 /\ Pending(l, 1..k) = Pending(l, 1..(k - 1)) \cup {k}
           /\ l[k].role = "assistant" => Pending(l, 1..k) = {}
           /\ l[k].role = "assistant" /\ Pending(l, 1..(k - 1)) = {} =>
                 TurnEnds(l, 1..k) = TurnEnds(l, 1..(k - 1))
           /\ l[k].role = "assistant" /\ Pending(l, 1..(k - 1)) # {} =>
                 /\ TurnEnds(l, 1..k) = TurnEnds(l, 1..(k - 1)) \cup {k}
                 /\ TurnOf(l, 1..k, k) = Pending(l, 1..(k - 1)) \cup {k}
<1> DEFINE S == 1..(k - 1)
           R == 1..k
<1>1. /\ R = S \cup {k} /\ k \notin S /\ k \in Nat /\ k \in R
      /\ \A i \in S : i \in R /\ i < k /\ i \in Nat
      /\ \A i \in R : i <= k /\ i \in Nat
  OBVIOUS
<1>2. Grows(l, S, l, R)
  BY <1>1 DEF Grows
<1>3. \A e \in S : /\ e \in TurnEnds(l, R) <=> e \in TurnEnds(l, S)
                   /\ TurnOf(l, R, e) = TurnOf(l, S, e)
  <2> HIDE DEF S, R
  <2> QED BY <1>2, TurnsStay DEF R
<1>4. Closes(l, R, k) <=> l[k].role = "assistant" /\ Pending(l, S) # {}
  <2>1. ASSUME Closes(l, R, k) PROVE l[k].role = "assistant" /\ Pending(l, S) # {}
    <3>1. PICK u \in R : u < k /\ l[u].role = "user" /\ \A j \in R : ~(u < j /\ j < k)
      BY <2>1 DEF Closes
    <3>2. u \in S /\ \A j \in S : j >= u => j = u
      BY <1>1, <3>1
    <3>3. u \in Pending(l, S)
      BY <3>1, <3>2 DEF Pending
    <3> QED BY <2>1, <3>3 DEF Closes
  <2>2. ASSUME l[k].role = "assistant", NEW u \in Pending(l, S) PROVE Closes(l, R, k)
    <3>1. u \in S /\ \A j \in S : j >= u => l[j].role = "user"
      BY <2>2 DEF Pending
    <3>2. k - 1 \in S /\ k - 1 >= u /\ k - 1 \in R /\ k - 1 < k
          /\ \A j \in R : ~(k - 1 < j /\ j < k)
      BY <3>1
    <3>3. l[k - 1].role = "user"
      BY <3>1, <3>2
    <3> QED BY <2>2, <3>2, <3>3 DEF Closes
  <2> QED BY <2>1, <2>2
<1>5. TurnEnds(l, R) = IF l[k].role = "assistant" /\ Pending(l, S) # {}
                       THEN TurnEnds(l, S) \cup {k} ELSE TurnEnds(l, S)
  <2>1. TurnEnds(l, S) \subseteq S /\ TurnEnds(l, R) \subseteq R
    BY DEF TurnEnds
  <2>2. k \in TurnEnds(l, R) <=> Closes(l, R, k)
    BY <1>1 DEF TurnEnds
  <2> HIDE DEF S, R
  <2>3. k \notin TurnEnds(l, S)
    BY <1>1, <2>1
  <2>4. TurnEnds(l, R) \ {k} = TurnEnds(l, S)
    BY <1>1, <1>3, <2>1, <2>3
  <2>5. CASE l[k].role = "assistant" /\ Pending(l, S) # {}
    BY <1>4, <2>2, <2>4, <2>5
  <2>6. CASE ~(l[k].role = "assistant" /\ Pending(l, S) # {})
    <3>1. k \notin TurnEnds(l, R)
      BY <1>4, <2>2, <2>6
    <3> QED BY <2>4, <2>6, <3>1
  <2> QED BY <2>5, <2>6
<1>6. l[k].role = "user" => Pending(l, R) = Pending(l, S) \cup {k}
  <2> HIDE DEF S, R
  <2> QED BY <1>1 DEF Pending
<1>7. l[k].role = "assistant" => Pending(l, R) = {}
  <2> SUFFICES ASSUME l[k].role = "assistant", NEW u \in Pending(l, R) PROVE FALSE
    OBVIOUS
  <2>1. u \in R /\ (k >= u => l[k].role = "user")
    BY <1>1 DEF Pending
  <2> QED BY <1>1, <2>1
<1>8. TurnOf(l, R, k) = Pending(l, S) \cup {k}
  <2>1. ASSUME NEW u \in S
        PROVE  (\A j \in R : u <= j /\ j < k => l[j].role = "user")
                  <=> (\A j \in S : j >= u => l[j].role = "user")
    <3> HIDE DEF S, R
    <3> QED BY <1>1
  <2>2. \A u \in R : u < k <=> u \in S
    BY <1>1
  <2> HIDE DEF S, R
  <2> QED BY <1>1, <2>1, <2>2 DEF TurnOf, Pending
<1> QED BY <1>3, <1>5, <1>6, <1>7, <1>8

Grouping == [turns : Seq(Seq(ChatMessage)), pending : Seq(ChatMessage)]

LEMMA GroupOne ==
    ASSUME NEW acc \in Grouping, NEW m \in ChatMessage
    PROVE  /\ AddToTurns(acc, m) \in Grouping
           /\ m.role = "user" =>
                 /\ AddToTurns(acc, m).turns = acc.turns
                 /\ AddToTurns(acc, m).pending = Append(acc.pending, m)
           /\ m.role = "assistant" /\ acc.pending = <<>> => AddToTurns(acc, m) = acc
           /\ m.role = "assistant" /\ acc.pending # <<>> =>
                 /\ AddToTurns(acc, m).turns = Append(acc.turns, Append(acc.pending, m))
                 /\ AddToTurns(acc, m).pending = <<>>
<1>1. acc.turns \in Seq(Seq(ChatMessage)) /\ acc.pending \in Seq(ChatMessage)
      /\ m.role \in {"user", "assistant"} /\ <<>> \in Seq(ChatMessage)
  BY DEF Grouping, ChatMessage
<1>2. Append(acc.pending, m) \in Seq(ChatMessage)
  BY <1>1, AppendProperties
<1>3. Append(acc.turns, Append(acc.pending, m)) \in Seq(Seq(ChatMessage))
  <2> DEFINE T == Seq(ChatMessage)
  <2>1. acc.turns \in Seq(T) /\ Append(acc.pending, m) \in T
    BY <1>1, <1>2
  <2> HIDE DEF T
  <2>2. Append(acc.turns, Append(acc.pending, m)) \in Seq(T)
    BY <2>1, AppendProperties
  <2> QED BY <2>2 DEF T
<1>4. CASE m.role = "user"
  <2>1. AddToTurns(acc, m) = [acc EXCEPT !.pending = Append(acc.pending, m)]
    BY <1>4 DEF AddToTurns
  <2> QED BY <1>1, <1>2, <1>4, <2>1 DEF Grouping
<1>5. CASE m.role = "assistant" /\ acc.pending = <<>>
  <2>1. AddToTurns(acc, m) = acc
    BY <1>5 DEF AddToTurns
  <2> QED BY <1>5, <2>1
<1>6. CASE m.role = "assistant" /\ acc.pending # <<>>
  <2>1. AddToTurns(acc, m)
          = [turns |-> Append(acc.turns, Append(acc.pending, m)), pending |-> <<>>]
    BY <1>6 DEF AddToTurns
  <2> QED BY <1>1, <1>3, <1>6, <2>1 DEF Grouping
<1> QED BY <1>1, <1>4, <1>5, <1>6

NoTurns == [turns |-> <<>>, pending |-> <<>>]

\* group_turns, message by message.
LEMMA GroupSteps ==
    ASSUME NEW ms \in Seq(ChatMessage)
    PROVE  \E F \in [0..Len(ms) -> Grouping] :
              /\ F[0] = NoTurns
              /\ \A k \in 1..Len(ms) : F[k] = AddToTurns(F[k - 1], ms[k])
              /\ GroupTurns(ms) = F[Len(ms)]
<1> DEFINE n == Len(ms)
           base == NoTurns
           step == [q \in (1..n) \X Grouping |-> AddToTurns(q[2], ms[q[1]])]
           Eqn(h) == h = [s \in SUBSET (1..n) |->
                            IF s = {} THEN base
                            ELSE AddToTurns(h[s \ {Max(s)}], ms[Max(s)])]
           iter == CHOOSE h : Eqn(h)
<1>1. n \in Nat /\ DOMAIN ms = 1..n /\ \A k \in 1..n : ms[k] \in ChatMessage
  BY LenProperties, ElementOfSeq
<1>2. base \in Grouping /\ step \in [(1..n) \X Grouping -> Grouping]
  <2>1. base \in Grouping
    <3>1. <<>> \in Seq(ChatMessage) /\ <<>> \in Seq(Seq(ChatMessage))
      OBVIOUS
    <3> QED BY <3>1 DEF NoTurns, Grouping
  <2>2. \A a \in Grouping, m \in ChatMessage : AddToTurns(a, m) \in Grouping
    BY GroupOne
  <2> QED BY <1>1, <2>1, <2>2
<1>3. GroupTurns(ms) = iter[1..n]
  BY <1>1 DEF GroupTurns, FoldLeft, MapThenFoldSet, NoTurns
<1>4. \E h : Eqn(h)
  <2>1. PICK h \in [SUBSET (1..n) -> Grouping] : IsTable(h, n, base, step)
    <3>1. n \in Nat
      BY <1>1
    <3> HIDE DEF step, n, base
    <3> QED BY <3>1, <1>2, FoldTable
  <2>2. ASSUME NEW s \in SUBSET (1..n), s # {}
        PROVE  step[<<Max(s), h[s \ {Max(s)}]>>] = AddToTurns(h[s \ {Max(s)}], ms[Max(s)])
    <3>1. Max(s) \in 1..n
      BY <1>1, <2>2, MaxIsIn
    <3>2. h[s \ {Max(s)}] \in Grouping
      BY <2>1
    <3> QED BY <3>1, <3>2
  <2>3. Eqn(h)
    <3> HIDE DEF step, n, base
    <3> QED BY <2>1, <2>2 DEF IsTable
  <2> QED BY <2>3
<1>5. Eqn(iter)
  <2> HIDE DEF Eqn
  <2> QED BY <1>4
<1>6. Follows(iter, n, Grouping, base, step)
  <2> HIDE DEF iter, base
  <2>1. \A s \in SUBSET (1..n) :
           iter[s] = IF s = {} THEN base
                     ELSE AddToTurns(iter[s \ {Max(s)}], ms[Max(s)])
    BY <1>5
  <2>2. \A s \in SUBSET (1..n) : s # {} => Max(s) \in 1..n
    BY <1>1, MaxIsIn
  <2> QED BY <1>1, <1>2, <2>1, <2>2 DEF Follows
<1> HIDE DEF iter, step, n, base, Eqn
<1>7. PICK F \in [0..n -> Grouping] : IsWalk(F, n, base, step) /\ F[n] = iter[1..n]
  BY <1>6, FoldWalk
<1>8. \A k \in 1..n :
         F[k - 1] \in Grouping /\ step[<<k, F[k - 1]>>] = AddToTurns(F[k - 1], ms[k])
  BY <1>1, <1>7 DEF step
<1> QED BY <1>3, <1>7, <1>8 DEF n, base, IsWalk

EndOf(t) == t[Len(t)].id

\* t is the list of the messages of a complete turn of the first k messages.
TurnList(ms, k, t) ==
    /\ t # <<>> /\ Lists(ms, t)
    /\ EndOf(t) \in TurnEnds(ms, 1..k) /\ IdsOf(t) = TurnOf(ms, 1..k, EndOf(t))

\* What group_turns has after k messages: the turns and the pending segment.
TurnsListed(ms, k, acc) ==
    /\ \A j \in 1..Len(acc.turns) : TurnList(ms, k, acc.turns[j])
    /\ \A i, j \in 1..Len(acc.turns) : i < j => EndOf(acc.turns[i]) < EndOf(acc.turns[j])
    /\ \A e \in TurnEnds(ms, 1..k) : \E j \in 1..Len(acc.turns) : e = EndOf(acc.turns[j])
PendingListed(ms, k, acc) ==
    Lists(ms, acc.pending) /\ IdsOf(acc.pending) = Pending(ms, 1..k)

LEMMA EmptyList ==
    ASSUME NEW ms
    PROVE  Lists(ms, <<>>) /\ IdsOf(<<>>) = {}
<1>1. <<>> \in Seq(ChatMessage) /\ Len(<<>>) = 0 /\ DOMAIN <<>> = {} /\ 1..0 = {}
  OBVIOUS
<1> QED BY <1>1 DEF Lists, IdsOf

\* One message is a list.
LEMMA ListOne ==
    ASSUME NEW ms, NEW k, Numbered(ms), k \in 1..Len(ms)
    PROVE  Lists(ms, <<ms[k]>>) /\ IdsOf(<<ms[k]>>) = {k}
<1> DEFINE m == ms[k]
           p == <<m>>
<1>1. m \in ChatMessage /\ m.id = k /\ k \in Nat
  <2>1. Len(ms) \in 0..Len(ms)
    BY LenProperties DEF Numbered
  <2>2. k \in Nat
    BY LenProperties DEF Numbered
  <2> QED BY <2>1, <2>2, NumberedMessages
<1> HIDE DEF m
<1>2. p \in Seq(ChatMessage) /\ Len(p) = 1 /\ DOMAIN p = {1} /\ p[1] = m /\ 1..1 = {1}
  BY <1>1
<1> HIDE DEF p
<1>3. IdsOf(p) = {k}
  BY <1>1, <1>2 DEF IdsOf
<1>4. \A i \in 1..Len(p) : p[i].id \in Nat /\ p[i] = ms[p[i].id]
  BY <1>1, <1>2 DEF m
<1>5. \A i, j \in 1..Len(p) : i < j => p[i].id < p[j].id
  BY <1>2
<1> QED BY <1>2, <1>3, <1>4, <1>5 DEF Lists, p, m

\* The pending segment followed by one more message.
LEMMA PendingGrows ==
    ASSUME NEW ms, Numbered(ms), NEW k \in 1..Len(ms), NEW acc \in Grouping,
           PendingListed(ms, k - 1, acc)
    PROVE  /\ Lists(ms, Append(acc.pending, ms[k]))
           /\ IdsOf(Append(acc.pending, ms[k])) = Pending(ms, 1..(k - 1)) \cup {k}
           /\ Append(acc.pending, ms[k]) # <<>>
           /\ EndOf(Append(acc.pending, ms[k])) = k
<1>1. /\ acc.pending \in Seq(ChatMessage) /\ Lists(ms, acc.pending)
      /\ IdsOf(acc.pending) = Pending(ms, 1..(k - 1))
  BY DEF PendingListed, Grouping
<1>2. Lists(ms, <<ms[k]>>) /\ IdsOf(<<ms[k]>>) = {k}
  BY ListOne
<1>3. \A i \in IdsOf(acc.pending), j \in IdsOf(<<ms[k]>>) : i < j
  <2>1. \A i \in 1..(k - 1) : i < k
    OBVIOUS
  <2>2. Pending(ms, 1..(k - 1)) \subseteq 1..(k - 1)
    BY DEF Pending
  <2> QED BY <1>1, <1>2, <2>1, <2>2
<1>4. ms[k] \in ChatMessage /\ ms[k].id = k
  BY ElementOfSeq DEF Numbered
<1>5. Append(acc.pending, ms[k]) = acc.pending \o <<ms[k]>>
  BY <1>1, <1>4, AppendIsConcat
<1>6. /\ Lists(ms, acc.pending \o <<ms[k]>>)
      /\ IdsOf(acc.pending \o <<ms[k]>>) = IdsOf(acc.pending) \cup IdsOf(<<ms[k]>>)
  BY <1>1, <1>2, <1>3, ListsJoin
<1>7. /\ Append(acc.pending, ms[k]) # <<>>
      /\ Len(Append(acc.pending, ms[k])) = Len(acc.pending) + 1
      /\ Append(acc.pending, ms[k])[Len(acc.pending) + 1] = ms[k]
  BY <1>1, <1>4, AppendProperties
<1> QED BY <1>1, <1>2, <1>4, <1>5, <1>6, <1>7 DEF EndOf

\* The turns there are stay turns.
LEMMA TurnListsStay ==
    ASSUME NEW ms, Numbered(ms), NEW k \in 1..Len(ms), NEW t, TurnList(ms, k - 1, t)
    PROVE  TurnList(ms, k, t) /\ EndOf(t) \in 1..(k - 1)
<1>1. k \in Nat \ {0} /\ k \in 0..Len(ms) /\ k - 1 \in 0..Len(ms)
  BY LenProperties DEF Numbered
<1>2. Messages(ms, 1..k) /\ \A i \in 1..k : ms[i] \in ChatMessage
  BY <1>1, NumberedMessages
<1>3. EndOf(t) \in 1..(k - 1) /\ EndOf(t) \in TurnEnds(ms, 1..(k - 1))
  BY DEF TurnList, TurnEnds
<1>4. Grows(ms, 1..(k - 1), ms, 1..k)
  <2>1. \A j \in (1..k) \ (1..(k - 1)) : \A i \in 1..(k - 1) : i < j
    OBVIOUS
  <2> QED BY <1>1, <2>1 DEF Grows
<1>5. /\ EndOf(t) \in TurnEnds(ms, 1..k)
      /\ TurnOf(ms, 1..k, EndOf(t)) = TurnOf(ms, 1..(k - 1), EndOf(t))
  BY <1>2, <1>3, <1>4, TurnsStay
<1> QED BY <1>3, <1>5 DEF TurnList

\* One message more, with what AddToTurns does.
LEMMA GroupedOneMore ==
    ASSUME NEW ms, Numbered(ms), NEW k \in 1..Len(ms), NEW acc \in Grouping,
           TurnsListed(ms, k - 1, acc), PendingListed(ms, k - 1, acc)
    PROVE  /\ TurnsListed(ms, k, AddToTurns(acc, ms[k]))
           /\ PendingListed(ms, k, AddToTurns(acc, ms[k]))
<1> DEFINE next == AddToTurns(acc, ms[k])
           more == Append(acc.pending, ms[k])
           n == Len(acc.turns)
<1> SUFFICES TurnsListed(ms, k, next) /\ PendingListed(ms, k, next)
  OBVIOUS
<1>1. /\ k \in Nat \ {0} /\ ms[k] \in ChatMessage /\ Messages(ms, 1..k)
      /\ \A i \in 1..k : ms[i].role \in {"user", "assistant"}
  <2>1. k \in Nat \ {0} /\ k \in 0..Len(ms) /\ k \in 1..k
    BY LenProperties DEF Numbered
  <2> QED BY <2>1, NumberedMessages DEF ChatMessage
<1>2. /\ Lists(ms, more) /\ IdsOf(more) = Pending(ms, 1..(k - 1)) \cup {k}
      /\ more # <<>> /\ EndOf(more) = k
  BY PendingGrows
<1>3. /\ acc.turns \in Seq(Seq(ChatMessage)) /\ n \in Nat /\ acc.pending \in Seq(ChatMessage)
      /\ more \in Seq(ChatMessage)
  <2>1. acc.turns \in Seq(Seq(ChatMessage)) /\ acc.pending \in Seq(ChatMessage)
    BY DEF Grouping
  <2> QED BY <1>2, <2>1, LenProperties DEF Lists
<1>4. acc.pending = <<>> <=> Pending(ms, 1..(k - 1)) = {}
  BY ListText DEF PendingListed
<1>5. \A j \in 1..n : TurnList(ms, k, acc.turns[j]) /\ EndOf(acc.turns[j]) \in 1..(k - 1)
  BY TurnListsStay DEF TurnsListed
<1>6. CASE ms[k].role = "user"
  <2>1. next.turns = acc.turns /\ next.pending = more
    BY <1>1, <1>6, GroupOne
  <2>2. /\ TurnEnds(ms, 1..k) = TurnEnds(ms, 1..(k - 1))
        /\ Pending(ms, 1..k) = Pending(ms, 1..(k - 1)) \cup {k}
    BY <1>1, <1>6, OneMoreMessage
  <2> HIDE DEF next, more
  <2> QED BY <1>2, <1>5, <2>1, <2>2 DEF TurnsListed, PendingListed
<1>7. CASE ms[k].role = "assistant" /\ acc.pending = <<>>
  <2>1. next = acc
    BY <1>1, <1>7, GroupOne
  <2>2. TurnEnds(ms, 1..k) = TurnEnds(ms, 1..(k - 1)) /\ Pending(ms, 1..k) = {}
    BY <1>1, <1>4, <1>7, OneMoreMessage
  <2> HIDE DEF next, more
  <2> QED BY <1>5, <1>7, <2>1, <2>2, EmptyList DEF TurnsListed, PendingListed
<1>8. CASE ms[k].role = "assistant" /\ acc.pending # <<>>
  <2>1. next.turns = Append(acc.turns, more) /\ next.pending = <<>>
    BY <1>1, <1>8, GroupOne
  <2>2. /\ TurnEnds(ms, 1..k) = TurnEnds(ms, 1..(k - 1)) \cup {k}
        /\ TurnOf(ms, 1..k, k) = Pending(ms, 1..(k - 1)) \cup {k}
        /\ Pending(ms, 1..k) = {}
    BY <1>1, <1>4, <1>8, OneMoreMessage
  <2> HIDE DEF next, more
  <2>3. TurnList(ms, k, more)
    BY <1>2, <2>2 DEF TurnList
  <2>4. /\ Len(next.turns) = n + 1 /\ next.turns[n + 1] = more
        /\ \A j \in 1..n : next.turns[j] = acc.turns[j]
    <3> DEFINE T == Seq(ChatMessage)
    <3>1. acc.turns \in Seq(T) /\ more \in T
      BY <1>3
    <3> HIDE DEF T
    <3> QED BY <2>1, <3>1, AppendProperties
  <2>5. \A j \in 1..(n + 1) : j \in 1..n \/ j = n + 1
    BY <1>3
  <2>6. \A j \in 1..(n + 1) : TurnList(ms, k, next.turns[j])
    BY <1>5, <2>3, <2>4, <2>5
  <2>7. ASSUME NEW i \in 1..(n + 1), NEW j \in 1..(n + 1), i < j
        PROVE  EndOf(next.turns[i]) < EndOf(next.turns[j])
    <3>1. i \in 1..n
      BY <1>3, <2>7
    <3>2. CASE j \in 1..n
      BY <2>4, <2>7, <3>1, <3>2 DEF TurnsListed
    <3>3. CASE j = n + 1
      BY <1>2, <1>5, <2>4, <3>1, <3>3
    <3> QED BY <2>5, <3>2, <3>3
  <2>8. ASSUME NEW e \in TurnEnds(ms, 1..k)
        PROVE  \E j \in 1..(n + 1) : e = EndOf(next.turns[j])
    <3>1. CASE e = k
      <4>1. n + 1 \in 1..(n + 1)
        BY <1>3
      <4> QED BY <1>2, <2>4, <3>1, <4>1
    <3>2. CASE e \in TurnEnds(ms, 1..(k - 1))
      <4>1. PICK j \in 1..n : e = EndOf(acc.turns[j])
        BY <3>2 DEF TurnsListed
      <4>2. j \in 1..(n + 1)
        BY <1>3
      <4> QED BY <2>4, <4>1, <4>2
    <3> QED BY <2>2, <3>1, <3>2
  <2>9. TurnsListed(ms, k, next)
    BY <2>4, <2>6, <2>7, <2>8 DEF TurnsListed
  <2>10. PendingListed(ms, k, next)
    BY <2>1, <2>2, EmptyList DEF PendingListed
  <2> QED BY <2>9, <2>10
<1> QED BY <1>1, <1>6, <1>7, <1>8 DEF ChatMessage

\* group_turns lists the complete turns in order, and the messages after them.
LEMMA GroupsAreTurns ==
    ASSUME NEW ms, Numbered(ms)
    PROVE  /\ GroupTurns(ms) \in Grouping
           /\ TurnsListed(ms, Len(ms), GroupTurns(ms))
           /\ PendingListed(ms, Len(ms), GroupTurns(ms))
<1> DEFINE n == Len(ms)
<1>1. ms \in Seq(ChatMessage) /\ n \in Nat /\ \A k \in 1..n : ms[k] \in ChatMessage
  BY LenProperties, ElementOfSeq DEF Numbered
<1>2. PICK F \in [0..n -> Grouping] :
         /\ F[0] = NoTurns /\ \A k \in 1..n : F[k] = AddToTurns(F[k - 1], ms[k])
         /\ GroupTurns(ms) = F[n]
  BY <1>1, GroupSteps
<1> DEFINE P == {k \in 0..n : TurnsListed(ms, k, F[k]) /\ PendingListed(ms, k, F[k])}
<1>3. 0 \in P
  <2>1. TurnEnds(ms, 1..0) = {} /\ Pending(ms, 1..0) = {}
    BY DEF TurnEnds, Pending
  <2>2. F[0].turns = <<>> /\ F[0].pending = <<>> /\ Len(<<>>) = 0
    BY <1>2 DEF NoTurns
  <2>3. TurnsListed(ms, 0, F[0])
    BY <2>1, <2>2 DEF TurnsListed
  <2>4. PendingListed(ms, 0, F[0])
    BY <2>1, <2>2, EmptyList DEF PendingListed
  <2> QED BY <1>1, <2>3, <2>4
<1>4. ASSUME NEW k \in 1..n, k - 1 \in P PROVE k \in P
  <2>1. F[k - 1] \in Grouping /\ k \in 0..n
    BY <1>1, <1>2
  <2>2. TurnsListed(ms, k - 1, F[k - 1]) /\ PendingListed(ms, k - 1, F[k - 1])
    BY <1>4
  <2>3. /\ TurnsListed(ms, k, AddToTurns(F[k - 1], ms[k]))
        /\ PendingListed(ms, k, AddToTurns(F[k - 1], ms[k]))
    BY <2>1, <2>2, GroupedOneMore
  <2> QED BY <1>2, <2>1, <2>3
<1>5. n \in P
  <2> HIDE DEF P
  <2>1. \A k \in 0..n : k \in P
    BY <1>1, <1>3, <1>4, UpTo
  <2> QED BY <1>1, <2>1
<1> QED BY <1>1, <1>2, <1>5

-----------------------------------------------------------------------------
(* Conversations: the window of assemble_conversation_context *)

\* The last c turns, and the messages that are raw when these stay.
LastEnds(g, c) == {EndOf(g.turns[i]) : i \in (Len(g.turns) - c + 1)..Len(g.turns)}
LastRaw(ms, g, c) ==
    Pending(ms, 1..Len(ms)) \cup TurnMessages(ms, 1..Len(ms), LastEnds(g, c))

\* What group_turns makes of ms.
GroupsOf(ms, g) ==
    /\ Numbered(ms) /\ g \in Grouping
    /\ TurnsListed(ms, Len(ms), g) /\ PendingListed(ms, Len(ms), g)

\* The messages of a turn come before those of later turns and before pending ones.
LEMMA TurnsInOrder ==
    ASSUME NEW l, NEW S, S \subseteq Nat, NEW e \in TurnEnds(l, S), NEW i \in TurnOf(l, S, e)
    PROVE  /\ \A f \in TurnEnds(l, S) : e < f => \A x \in TurnOf(l, S, f) : i < x
           /\ \A x \in Pending(l, S) : i < x
<1>1. e \in S /\ e \in Nat /\ i \in Nat /\ i <= e /\ l[e].role = "assistant"
  BY TurnParts
<1>2. ASSUME NEW f \in TurnEnds(l, S), e < f, NEW x \in TurnOf(l, S, f) PROVE i < x
  <2>1. f \in Nat /\ x \in Nat /\ f \in TurnEnds(l, S) /\ e <= f /\ e # f
    <3>1. f \in S /\ TurnOf(l, S, f) \subseteq S
      BY TurnParts
    <3> QED BY <1>1, <1>2, <3>1
  <2>2. ~(x <= e)
    BY <1>1, <2>1, TurnsApart
  <2> QED BY <1>1, <2>1, <2>2
<1>3. ASSUME NEW x \in Pending(l, S) PROVE i < x
  <2>1. x \in Nat /\ (e >= x => l[e].role = "user")
    BY <1>1 DEF Pending
  <2> QED BY <1>1, <2>1
<1> QED BY <1>2, <1>3

\* The turns of ms and their ends.
LEMMA GroupFacts ==
    ASSUME NEW ms, NEW g, GroupsOf(ms, g)
    PROVE  /\ Len(g.turns) \in Nat /\ g.turns \in Seq(Seq(ChatMessage)) /\ Len(ms) \in Nat
           /\ Messages(ms, 1..Len(ms)) /\ 1..Len(ms) \subseteq Nat
           /\ \A j \in 1..Len(g.turns) :
                 /\ Lists(ms, g.turns[j]) /\ g.turns[j] \in Seq(ChatMessage)
                 /\ EndOf(g.turns[j]) \in TurnEnds(ms, 1..Len(ms))
                 /\ EndOf(g.turns[j]) \in Nat
                 /\ IdsOf(g.turns[j]) = TurnOf(ms, 1..Len(ms), EndOf(g.turns[j]))
           /\ \A i, j \in 1..Len(g.turns) : EndOf(g.turns[i]) <= EndOf(g.turns[j]) <=> i <= j
           /\ TurnEnds(ms, 1..Len(ms)) = {EndOf(g.turns[j]) : j \in 1..Len(g.turns)}
<1> DEFINE n == Len(g.turns)
           S == 1..Len(ms)
<1>1. g.turns \in Seq(Seq(ChatMessage)) /\ n \in Nat /\ Len(ms) \in Nat
  <2>1. g.turns \in Seq(Seq(ChatMessage)) /\ ms \in Seq(ChatMessage)
    BY DEF GroupsOf, Grouping, Numbered
  <2> QED BY <2>1, LenProperties
<1>2. Messages(ms, S) /\ S \subseteq Nat
  <2>1. Len(ms) \in 0..Len(ms)
    BY <1>1
  <2> QED BY <2>1, NumberedMessages DEF GroupsOf
<1>3. TurnEnds(ms, S) \subseteq S
  BY DEF TurnEnds
<1>4. ASSUME NEW j \in 1..n
      PROVE  /\ Lists(ms, g.turns[j]) /\ g.turns[j] \in Seq(ChatMessage)
             /\ EndOf(g.turns[j]) \in TurnEnds(ms, S) /\ EndOf(g.turns[j]) \in Nat
             /\ IdsOf(g.turns[j]) = TurnOf(ms, S, EndOf(g.turns[j]))
  <2>1. TurnList(ms, Len(ms), g.turns[j])
    BY DEF GroupsOf, TurnsListed
  <2> QED BY <1>2, <1>3, <2>1 DEF TurnList, Lists
<1>5. ASSUME NEW i \in 1..n, NEW j \in 1..n
      PROVE  EndOf(g.turns[i]) <= EndOf(g.turns[j]) <=> i <= j
  <2>1. \A x, y \in 1..n : x < y => EndOf(g.turns[x]) < EndOf(g.turns[y])
    BY DEF GroupsOf, TurnsListed
  <2>2. EndOf(g.turns[i]) \in Nat /\ EndOf(g.turns[j]) \in Nat
    BY <1>4
  <2>3. CASE i < j
    BY <2>1, <2>2, <2>3
  <2>4. CASE j < i
    BY <2>1, <2>2, <2>4
  <2>5. CASE i = j
    BY <2>2, <2>5
  <2> QED BY <1>1, <2>3, <2>4, <2>5
<1>6. TurnEnds(ms, S) = {EndOf(g.turns[j]) : j \in 1..n}
  <2>1. \A e \in TurnEnds(ms, S) : \E j \in 1..n : e = EndOf(g.turns[j])
    BY DEF GroupsOf, TurnsListed
  <2> HIDE DEF S, n
  <2> QED BY <1>4, <2>1
<1> QED BY <1>1, <1>2, <1>4, <1>5, <1>6

\* The turns from one on are the last ones.
LEMMA NewestAreLast ==
    ASSUME NEW ms, NEW g, GroupsOf(ms, g), NEW c \in 1..Len(g.turns)
    PROVE  LET e == EndOf(g.turns[Len(g.turns) - c + 1]) IN
           /\ e \in TurnEnds(ms, 1..Len(ms))
           /\ Newest(ms, 1..Len(ms), e) = LastEnds(g, c)
           /\ RawFrom(ms, 1..Len(ms), e) = LastRaw(ms, g, c)
           /\ Cardinality(LastEnds(g, c)) = c
<1> DEFINE n == Len(g.turns)
           S == 1..Len(ms)
           first == n - c + 1
           e == EndOf(g.turns[first])
           Of == [i \in first..n |-> EndOf(g.turns[i])]
<1>1. /\ n \in Nat /\ first \in 1..n /\ \A i \in first..n : i \in 1..n /\ first <= i
      /\ \A j \in 1..n : first <= j => j \in first..n
  BY GroupFacts
<1>2. /\ \A j \in 1..n : EndOf(g.turns[j]) \in TurnEnds(ms, S) /\ EndOf(g.turns[j]) \in Nat
      /\ \A i, j \in 1..n : EndOf(g.turns[i]) <= EndOf(g.turns[j]) <=> i <= j
      /\ TurnEnds(ms, S) = {EndOf(g.turns[j]) : j \in 1..n}
  BY GroupFacts
<1>3. LastEnds(g, c) = {EndOf(g.turns[i]) : i \in first..n}
  BY DEF LastEnds
<1> HIDE DEF first, S, n
<1>4. Newest(ms, S, e) = LastEnds(g, c)
  <2>1. ASSUME NEW f \in Newest(ms, S, e) PROVE f \in LastEnds(g, c)
    <3>1. PICK j \in 1..n : f = EndOf(g.turns[j])
      BY <1>2 DEF Newest
    <3>2. e <= f /\ e \in Nat /\ f \in Nat
      <4>1. f >= e
        BY DEF Newest
      <4> QED BY <1>1, <1>2, <3>1, <4>1
    <3>3. first <= j
      BY <1>1, <1>2, <3>1, <3>2
    <3> QED BY <1>1, <1>3, <3>1, <3>3
  <2>2. ASSUME NEW j \in first..n PROVE EndOf(g.turns[j]) \in Newest(ms, S, e)
    <3>1. e <= EndOf(g.turns[j]) /\ e \in Nat /\ EndOf(g.turns[j]) \in Nat
      BY <1>1, <1>2
    <3> QED BY <1>1, <1>2, <3>1 DEF Newest
  <2> QED BY <1>3, <2>1, <2>2
<1>5. Cardinality(LastEnds(g, c)) = c
  <2>1. Of \in Bijection(first..n, LastEnds(g, c))
    <3>1. Of \in [first..n -> LastEnds(g, c)]
      BY <1>3
    <3>2. \A i, j \in first..n : Of[i] = Of[j] => i = j
      <4>1. \A i, j \in first..n : EndOf(g.turns[i]) = EndOf(g.turns[j]) => i <= j /\ j <= i
        BY <1>1, <1>2
      <4>2. \A i, j \in first..n : i \in Nat /\ j \in Nat
        BY <1>1
      <4> QED BY <4>1, <4>2
    <3>3. \A x \in LastEnds(g, c) : \E i \in first..n : Of[i] = x
      BY <1>3
    <3> HIDE DEF Of
    <3> QED BY <3>1, <3>2, <3>3 DEF Bijection, Injection, Surjection, IsInjective
  <2>2. IsFiniteSet(first..n) /\ Cardinality(first..n) = c
    <3>1. first \in Int /\ n \in Int /\ c \in Nat /\ ~(first > n) /\ n - first + 1 = c
      <4>1. c \in 1..n
        BY DEF n
      <4> QED BY <1>1, <4>1 DEF first
    <3> QED BY <3>1, FS_Interval
  <2> HIDE DEF Of
  <2> QED BY <2>1, <2>2, FS_Bijection DEF ExistsBijection
<1>6. RawFrom(ms, S, e) = LastRaw(ms, g, c)
  BY <1>4 DEF RawFrom, LastRaw, S
<1>7. e \in TurnEnds(ms, S)
  BY <1>1, <1>2
<1> QED BY <1>4, <1>5, <1>6, <1>7 DEF first, S, n

KeptSoFar == [selected : Seq(ChatMessage), count : Nat, stopped : BOOLEAN]

LEMMA KeepOne ==
    ASSUME NEW acc \in KeptSoFar, NEW t \in Seq(ChatMessage)
    PROVE  /\ KeepTurn(acc, t) \in KeptSoFar
           /\ IF acc.stopped \/ acc.count >= RecentTurnLimit
                    \/ JoinedSize(t \o acc.selected) > CharacterBudget
              THEN /\ KeepTurn(acc, t).stopped /\ KeepTurn(acc, t).count = acc.count
                   /\ KeepTurn(acc, t).selected = acc.selected
              ELSE /\ ~KeepTurn(acc, t).stopped /\ KeepTurn(acc, t).count = acc.count + 1
                   /\ KeepTurn(acc, t).selected = t \o acc.selected
<1>1. acc.selected \in Seq(ChatMessage) /\ acc.count \in Nat /\ acc.stopped \in BOOLEAN
  BY DEF KeptSoFar
<1>2. t \o acc.selected \in Seq(ChatMessage)
  BY <1>1, ConcatProperties
<1>3. CASE acc.stopped \/ acc.count >= RecentTurnLimit
              \/ JoinedSize(t \o acc.selected) > CharacterBudget
  <2>1. KeepTurn(acc, t) = [acc EXCEPT !.stopped = TRUE]
    BY <1>3 DEF KeepTurn
  <2> QED BY <1>1, <1>3, <2>1 DEF KeptSoFar
<1>4. CASE ~(acc.stopped \/ acc.count >= RecentTurnLimit
              \/ JoinedSize(t \o acc.selected) > CharacterBudget)
  <2>1. KeepTurn(acc, t)
          = [acc EXCEPT !.selected = t \o acc.selected, !.count = acc.count + 1]
    BY <1>4 DEF KeepTurn
  <2>2. acc = [selected |-> acc.selected, count |-> acc.count, stopped |-> acc.stopped]
    BY DEF KeptSoFar
  <2>3. KeepTurn(acc, t) = [selected |-> t \o acc.selected, count |-> acc.count + 1,
                            stopped |-> acc.stopped]
    BY <2>1, <2>2
  <2>4. acc.count + 1 \in Nat /\ ~acc.stopped
    BY <1>1, <1>4
  <2>5. KeepTurn(acc, t) \in KeptSoFar
    BY <1>1, <1>2, <2>3, <2>4 DEF KeptSoFar
  <2>6. /\ ~KeepTurn(acc, t).stopped /\ KeepTurn(acc, t).count = acc.count + 1
        /\ KeepTurn(acc, t).selected = t \o acc.selected
    BY <2>3, <2>4
  <2> QED BY <1>4, <2>5, <2>6
<1> QED BY <1>3, <1>4

KeepsNothing(g) == [selected |-> g.pending, count |-> 0, stopped |-> FALSE]

\* The loop over the turns, newest first.
LEMMA KeepSteps ==
    ASSUME NEW g \in Grouping
    PROVE  \E F \in [0..Len(g.turns) -> KeptSoFar] :
              /\ F[0] = KeepsNothing(g)
              /\ \A k \in 1..Len(g.turns) :
                    F[k] = KeepTurn(F[k - 1], g.turns[Len(g.turns) - k + 1])
              /\ KeepTurns(g) = F[Len(g.turns)]
<1> DEFINE n == Len(g.turns)
           rs == Reverse(g.turns)
           base == KeepsNothing(g)
           step == [q \in (1..n) \X KeptSoFar |-> KeepTurn(q[2], rs[q[1]])]
           Eqn(h) == h = [s \in SUBSET (1..n) |->
                            IF s = {} THEN base
                            ELSE KeepTurn(h[s \ {Max(s)}], rs[Max(s)])]
           iter == CHOOSE h : Eqn(h)
<1>1. /\ n \in Nat /\ DOMAIN rs = 1..n
      /\ \A k \in 1..n : rs[k] \in Seq(ChatMessage) /\ rs[k] = g.turns[n - k + 1]
  <2>1. g.turns \in Seq(Seq(ChatMessage)) /\ n \in Nat
    BY LenProperties DEF Grouping
  <2>2. \A k \in 1..n : g.turns[k] \in Seq(ChatMessage)
    BY <2>1, ElementOfSeq
  <2>3. \A k \in 1..n : (n - k) + 1 \in 1..n /\ (n - k) + 1 = n - k + 1
    BY <2>1
  <2>4. rs = [k \in 1..n |-> g.turns[(n - k) + 1]]
    BY DEF Reverse
  <2> HIDE DEF n, rs
  <2> QED BY <2>1, <2>2, <2>3, <2>4
<1>2. base \in KeptSoFar /\ step \in [(1..n) \X KeptSoFar -> KeptSoFar]
  <2>1. base \in KeptSoFar
    BY DEF KeepsNothing, Grouping, KeptSoFar
  <2>2. \A a \in KeptSoFar, t \in Seq(ChatMessage) : KeepTurn(a, t) \in KeptSoFar
    BY KeepOne
  <2> HIDE DEF rs
  <2> QED BY <1>1, <2>1, <2>2
<1>3. KeepTurns(g) = iter[1..n]
  BY <1>1 DEF KeepTurns, FoldLeft, MapThenFoldSet, KeepsNothing
<1> HIDE DEF rs
<1>4. \E h : Eqn(h)
  <2>1. PICK h \in [SUBSET (1..n) -> KeptSoFar] : IsTable(h, n, base, step)
    <3>1. n \in Nat
      BY <1>1
    <3> HIDE DEF step, n, base
    <3> QED BY <3>1, <1>2, FoldTable
  <2>2. ASSUME NEW s \in SUBSET (1..n), s # {}
        PROVE  step[<<Max(s), h[s \ {Max(s)}]>>] = KeepTurn(h[s \ {Max(s)}], rs[Max(s)])
    <3>1. Max(s) \in 1..n
      BY <1>1, <2>2, MaxIsIn
    <3>2. h[s \ {Max(s)}] \in KeptSoFar
      BY <2>1
    <3> QED BY <3>1, <3>2
  <2>3. Eqn(h)
    <3> HIDE DEF step, n, base
    <3> QED BY <2>1, <2>2 DEF IsTable
  <2> QED BY <2>3
<1>5. Eqn(iter)
  <2> HIDE DEF Eqn
  <2> QED BY <1>4
<1>6. Follows(iter, n, KeptSoFar, base, step)
  <2> HIDE DEF iter, base
  <2>1. \A s \in SUBSET (1..n) :
           iter[s] = IF s = {} THEN base
                     ELSE KeepTurn(iter[s \ {Max(s)}], rs[Max(s)])
    BY <1>5
  <2>2. \A s \in SUBSET (1..n) : s # {} => Max(s) \in 1..n
    BY <1>1, MaxIsIn
  <2> QED BY <1>1, <1>2, <2>1, <2>2 DEF Follows
<1> HIDE DEF iter, step, n, base, Eqn
<1>7. PICK F \in [0..n -> KeptSoFar] : IsWalk(F, n, base, step) /\ F[n] = iter[1..n]
  BY <1>6, FoldWalk
<1>8. \A k \in 1..n :
         F[k - 1] \in KeptSoFar /\ step[<<k, F[k - 1]>>] = KeepTurn(F[k - 1], rs[k])
  BY <1>1, <1>7 DEF step
<1> QED BY <1>1, <1>3, <1>7, <1>8 DEF n, base, IsWalk

\* What the loop has after j turns: the last ones, as long as they fit.
KeptAt(ms, g, j, acc) ==
    /\ acc.count <= j /\ acc.count <= Len(g.turns)
    /\ ~acc.stopped => acc.count = j
    /\ Lists(ms, acc.selected) /\ IdsOf(acc.selected) = LastRaw(ms, g, acc.count)
    /\ acc.count <= RecentTurnLimit
    /\ acc.count > 0 => TextSize(ms, LastRaw(ms, g, acc.count)) <= CharacterBudget
    /\ acc.stopped => /\ acc.count < Len(g.turns)
                      /\ \/ acc.count >= RecentTurnLimit
                         \/ TextSize(ms, LastRaw(ms, g, acc.count + 1)) > CharacterBudget

\* One turn more stays raw.
LEMMA LastOneMore ==
    ASSUME NEW ms, NEW g, GroupsOf(ms, g), NEW c \in 1..Len(g.turns)
    PROVE  LET t == g.turns[Len(g.turns) - c + 1] IN
           /\ LastRaw(ms, g, c) = IdsOf(t) \cup LastRaw(ms, g, c - 1)
           /\ \A i \in IdsOf(t), x \in LastRaw(ms, g, c - 1) : i < x
<1> DEFINE n == Len(g.turns)
           S == 1..Len(ms)
           first == n - c + 1
           e == EndOf(g.turns[first])
<1>1. /\ n \in Nat /\ first \in 1..n /\ n - (c - 1) + 1 = first + 1
      /\ first..n = {first} \cup ((first + 1)..n)
      /\ \A i \in (first + 1)..n : i \in 1..n /\ first <= i /\ ~(i <= first)
  <2>1. n \in Nat /\ c \in 1..n
    BY GroupFacts
  <2> HIDE DEF n
  <2> QED BY <2>1
<1>2. /\ S \subseteq Nat
      /\ \A j \in 1..n : EndOf(g.turns[j]) \in TurnEnds(ms, S) /\ EndOf(g.turns[j]) \in Nat
      /\ \A i, j \in 1..n : EndOf(g.turns[i]) <= EndOf(g.turns[j]) <=> i <= j
      /\ IdsOf(g.turns[first]) = TurnOf(ms, S, e)
  BY <1>1, GroupFacts
<1>3. LastEnds(g, c) = {e} \cup LastEnds(g, c - 1)
  <2>1. LastEnds(g, c) = {EndOf(g.turns[i]) : i \in first..n}
    BY DEF LastEnds
  <2>2. LastEnds(g, c - 1) = {EndOf(g.turns[i]) : i \in (first + 1)..n}
    BY <1>1 DEF LastEnds
  <2> HIDE DEF first, n
  <2> QED BY <1>1, <2>1, <2>2
<1>4. \A f \in LastEnds(g, c - 1) : f \in TurnEnds(ms, S) /\ e < f
  <2>1. LastEnds(g, c - 1) = {EndOf(g.turns[i]) : i \in (first + 1)..n}
    BY <1>1 DEF LastEnds
  <2> HIDE DEF first, n
  <2>2. ASSUME NEW i \in (first + 1)..n
        PROVE  EndOf(g.turns[i]) \in TurnEnds(ms, S) /\ e < EndOf(g.turns[i])
    <3>1. e <= EndOf(g.turns[i]) /\ ~(EndOf(g.turns[i]) <= e)
      BY <1>1, <1>2
    <3> QED BY <1>1, <1>2, <3>1
  <2> QED BY <2>1, <2>2
<1>5. e \in TurnEnds(ms, S)
  BY <1>1, <1>2
<1> HIDE DEF e, S
<1>6. LastRaw(ms, g, c) = TurnOf(ms, S, e) \cup LastRaw(ms, g, c - 1)
  BY <1>3 DEF LastRaw, TurnMessages, S
<1>7. \A i \in TurnOf(ms, S, e), x \in LastRaw(ms, g, c - 1) : i < x
  BY <1>2, <1>4, <1>5, TurnsInOrder DEF LastRaw, TurnMessages, S
<1> QED BY <1>2, <1>6, <1>7 DEF first, n

LEMMA KeptOneMore ==
    ASSUME NEW ms, NEW g, GroupsOf(ms, g), NEW j \in 1..Len(g.turns), NEW acc \in KeptSoFar,
           KeptAt(ms, g, j - 1, acc)
    PROVE  KeptAt(ms, g, j, KeepTurn(acc, g.turns[Len(g.turns) - j + 1]))
<1> DEFINE n == Len(g.turns)
           t == g.turns[n - j + 1]
           next == KeepTurn(acc, t)
           c == acc.count
<1>1. n \in Nat /\ n - j + 1 \in 1..n /\ c \in Nat /\ acc.selected \in Seq(ChatMessage)
      /\ acc.stopped \in BOOLEAN /\ j \in Nat /\ RecentTurnLimit \in Nat /\ CharacterBudget \in Nat
  BY GroupFacts, TurnsAssumption DEF KeptSoFar
<1>2. t \in Seq(ChatMessage) /\ Lists(ms, t)
  BY <1>1, GroupFacts
<1> HIDE DEF t
<1>3. IF acc.stopped \/ c >= RecentTurnLimit \/ JoinedSize(t \o acc.selected) > CharacterBudget
      THEN next.stopped /\ next.count = c /\ next.selected = acc.selected
      ELSE ~next.stopped /\ next.count = c + 1 /\ next.selected = t \o acc.selected
  BY <1>2, KeepOne
<1> HIDE DEF next
<1>4. CASE acc.stopped
  <2>1. next.stopped /\ next.count = c /\ next.selected = acc.selected
    BY <1>3, <1>4
  <2> QED BY <1>1, <1>4, <2>1 DEF KeptAt, next, t
<1>5. CASE ~acc.stopped
  <2>1. c = j - 1 /\ c + 1 = j /\ c + 1 <= n
    BY <1>1, <1>5 DEF KeptAt
  <2>2. /\ LastRaw(ms, g, j) = IdsOf(t) \cup LastRaw(ms, g, j - 1)
        /\ \A i \in IdsOf(t), x \in LastRaw(ms, g, j - 1) : i < x
    BY LastOneMore DEF t, n
  <2>3. Lists(ms, acc.selected) /\ IdsOf(acc.selected) = LastRaw(ms, g, j - 1)
    BY <2>1 DEF KeptAt
  <2>4. Lists(ms, t \o acc.selected) /\ IdsOf(t \o acc.selected) = LastRaw(ms, g, j)
    <3>1. \A i \in IdsOf(t), x \in IdsOf(acc.selected) : i < x
      BY <2>2, <2>3
    <3>2. /\ Lists(ms, t \o acc.selected)
          /\ IdsOf(t \o acc.selected) = IdsOf(t) \cup IdsOf(acc.selected)
      BY <1>2, <2>3, <3>1, ListsJoin
    <3> QED BY <2>2, <2>3, <3>2
  <2>5. JoinedSize(t \o acc.selected) = TextSize(ms, LastRaw(ms, g, j))
    BY <2>4, ListText
  <2>5a. TextSize(ms, LastRaw(ms, g, j)) \in Nat
    <3>1. \A i \in LastRaw(ms, g, j) : ms[i].size \in Nat
      <4>1. \A i \in 1..Len(t \o acc.selected) :
               /\ (t \o acc.selected)[i] \in ChatMessage
               /\ (t \o acc.selected)[i] = ms[(t \o acc.selected)[i].id]
        BY <2>4, ElementOfSeq DEF Lists
      <4>2. DOMAIN (t \o acc.selected) = 1..Len(t \o acc.selected)
        BY <2>4, LenProperties DEF Lists
      <4>3. \A i \in DOMAIN (t \o acc.selected) :
               ms[(t \o acc.selected)[i].id].size \in Nat
        BY <4>1, <4>2 DEF ChatMessage
      <4> QED BY <2>4, <4>3 DEF IdsOf
    <3>2. IsFiniteSet(LastRaw(ms, g, j))
      BY <2>4, ListText
    <3> QED BY <3>1, <3>2, TextGrows
  <2>6. CASE c >= RecentTurnLimit \/ JoinedSize(t \o acc.selected) > CharacterBudget
    <3>1. next.stopped /\ next.count = c /\ next.selected = acc.selected
      BY <1>3, <2>6
    <3>2. c <= RecentTurnLimit
          /\ (c > 0 => TextSize(ms, LastRaw(ms, g, c)) <= CharacterBudget)
      BY DEF KeptAt
    <3>3. c < n /\ c <= j
      BY <1>1, <2>1
    <3>4. c >= RecentTurnLimit \/ TextSize(ms, LastRaw(ms, g, c + 1)) > CharacterBudget
      BY <2>1, <2>5, <2>6
    <3> QED BY <1>1, <2>1, <2>3, <3>1, <3>2, <3>3, <3>4 DEF KeptAt, next, t
  <2>7. CASE ~(c >= RecentTurnLimit \/ JoinedSize(t \o acc.selected) > CharacterBudget)
    <3>1. ~next.stopped /\ next.count = j /\ next.selected = t \o acc.selected
      BY <1>3, <1>5, <2>1, <2>7
    <3>2. j <= RecentTurnLimit /\ TextSize(ms, LastRaw(ms, g, j)) <= CharacterBudget
      BY <1>1, <2>1, <2>5, <2>5a, <2>7
    <3>3. j <= n
      BY <1>1, <2>1
    <3> QED BY <1>1, <2>4, <3>1, <3>2, <3>3 DEF KeptAt, next, t
  <2> QED BY <2>6, <2>7
<1> QED BY <1>1, <1>4, <1>5

\* The loop keeps the last turns as long as they fit.
LEMMA LoopKeeps ==
    ASSUME NEW ms, NEW g, GroupsOf(ms, g)
    PROVE  KeepTurns(g) \in KeptSoFar /\ KeptAt(ms, g, Len(g.turns), KeepTurns(g))
<1> DEFINE n == Len(g.turns)
<1>1. n \in Nat /\ g \in Grouping /\ Lists(ms, g.pending)
      /\ IdsOf(g.pending) = Pending(ms, 1..Len(ms))
  BY GroupFacts DEF GroupsOf, PendingListed
<1>2. PICK F \in [0..n -> KeptSoFar] :
         /\ F[0] = KeepsNothing(g)
         /\ \A k \in 1..n : F[k] = KeepTurn(F[k - 1], g.turns[n - k + 1])
         /\ KeepTurns(g) = F[n]
  BY <1>1, KeepSteps
<1> DEFINE P == {k \in 0..n : KeptAt(ms, g, k, F[k])}
<1>3. 0 \in P
  <2>1. LastRaw(ms, g, 0) = Pending(ms, 1..Len(ms))
    <3>1. LastEnds(g, 0) = {}
      <4>1. (n - 0 + 1)..n = {}
        BY <1>1
      <4> QED BY <4>1 DEF LastEnds
    <3> QED BY <3>1 DEF LastRaw, TurnMessages
  <2>2. F[0].selected = g.pending /\ F[0].count = 0 /\ F[0].stopped = FALSE
    BY <1>2 DEF KeepsNothing
  <2>3. KeptAt(ms, g, 0, F[0])
    BY <1>1, <2>1, <2>2, TurnsAssumption DEF KeptAt
  <2> QED BY <1>1, <2>3
<1>4. ASSUME NEW k \in 1..n, k - 1 \in P PROVE k \in P
  <2>1. k \in 0..n /\ F[k - 1] \in KeptSoFar /\ KeptAt(ms, g, k - 1, F[k - 1])
    BY <1>1, <1>2, <1>4
  <2>2. KeptAt(ms, g, k, KeepTurn(F[k - 1], g.turns[n - k + 1]))
    BY <2>1, KeptOneMore
  <2> QED BY <1>2, <2>1, <2>2
<1>5. n \in P
  <2> HIDE DEF P
  <2>1. \A k \in 0..n : k \in P
    BY <1>1, <1>3, <1>4, UpTo
  <2> QED BY <1>1, <2>1
<1>6. F[n] \in KeptSoFar
  BY <1>1, <1>2
<1> QED BY <1>2, <1>5, <1>6

\* More turns make a longer text.
LEMMA LastRawGrows ==
    ASSUME NEW ms, NEW g, GroupsOf(ms, g), NEW c \in 0..Len(g.turns), NEW d \in c..Len(g.turns)
    PROVE  /\ TextSize(ms, LastRaw(ms, g, c)) \in Nat /\ TextSize(ms, LastRaw(ms, g, d)) \in Nat
           /\ TextSize(ms, LastRaw(ms, g, c)) <= TextSize(ms, LastRaw(ms, g, d))
<1> DEFINE n == Len(g.turns)
           S == 1..Len(ms)
<1>1. /\ n \in Nat /\ Messages(ms, S) /\ S \subseteq Nat
      /\ \A j \in 1..n : EndOf(g.turns[j]) \in TurnEnds(ms, S)
  BY GroupFacts
<1>2. LastEnds(g, c) \subseteq LastEnds(g, d)
  <2>1. (n - c + 1)..n \subseteq (n - d + 1)..n
    BY <1>1
  <2> QED BY <2>1 DEF LastEnds
<1>3. LastEnds(g, d) \subseteq TurnEnds(ms, S)
  <2>1. \A i \in (n - d + 1)..n : i \in 1..n
    BY <1>1
  <2> QED BY <1>1, <2>1 DEF LastEnds
<1> HIDE DEF S
<1>4. LastRaw(ms, g, c) \subseteq LastRaw(ms, g, d)
  BY <1>2 DEF LastRaw, TurnMessages
<1>5. LastRaw(ms, g, d) \subseteq S
  <2>1. Pending(ms, S) \subseteq S
    BY DEF Pending
  <2>2. \A e \in TurnEnds(ms, S) : TurnOf(ms, S, e) \subseteq S
    BY <1>1, TurnParts
  <2> QED BY <1>3, <2>1, <2>2 DEF LastRaw, TurnMessages, S
<1>6. IsFiniteSet(LastRaw(ms, g, d)) /\ \A i \in LastRaw(ms, g, d) : ms[i].size \in Nat
  BY <1>1, <1>5, FS_Subset DEF Messages
<1> QED BY <1>4, <1>6, TextGrows

\* The loop keeps exactly the turns of the window.
LEMMA LoopKeepsWindow ==
    ASSUME NEW ms, NEW g, GroupsOf(ms, g)
    PROVE  /\ KeepTurns(g).count \in 0..Len(g.turns)
           /\ KeptEnds(ms, 1..Len(ms)) = LastEnds(g, KeepTurns(g).count)
           /\ Lists(ms, KeepTurns(g).selected)
           /\ IdsOf(KeepTurns(g).selected) = Window(ms, 1..Len(ms))
<1> DEFINE n == Len(g.turns)
           S == 1..Len(ms)
           kept == KeepTurns(g)
           c == kept.count
<1>1. n \in Nat /\ kept \in KeptSoFar /\ KeptAt(ms, g, n, kept)
  BY GroupFacts, LoopKeeps
<1>2. c \in Nat /\ c <= n /\ kept.stopped \in BOOLEAN
  BY <1>1 DEF KeptSoFar, KeptAt
<1>3. RecentTurnLimit \in Nat /\ CharacterBudget \in Nat
  BY TurnsAssumption
<1> HIDE DEF kept
<1>4. ASSUME NEW d \in 1..n
      PROVE  EndOf(g.turns[n - d + 1]) \in KeptEnds(ms, S) <=> d <= c
  <2> DEFINE e == EndOf(g.turns[n - d + 1])
  <2> SUFFICES e \in KeptEnds(ms, S) <=> d <= c
    OBVIOUS
  <2>1. /\ e \in TurnEnds(ms, S) /\ Newest(ms, S, e) = LastEnds(g, d)
        /\ RawFrom(ms, S, e) = LastRaw(ms, g, d) /\ Cardinality(LastEnds(g, d)) = d
    BY NewestAreLast
  <2> HIDE DEF e, S
  <2>2. e \in KeptEnds(ms, S)
          <=> d <= RecentTurnLimit /\ TextSize(ms, LastRaw(ms, g, d)) <= CharacterBudget
    <3>1. e \in KeptEnds(ms, S) <=>
             /\ e \in TurnEnds(ms, S)
             /\ Cardinality(Newest(ms, S, e)) <= RecentTurnLimit
             /\ TextSize(ms, RawFrom(ms, S, e)) <= CharacterBudget
      BY DEF KeptEnds, Newest, RawFrom
    <3> QED BY <2>1, <3>1
  <2>3. CASE d <= c
    <3>1. /\ TextSize(ms, LastRaw(ms, g, d)) <= TextSize(ms, LastRaw(ms, g, c))
          /\ TextSize(ms, LastRaw(ms, g, d)) \in Nat /\ TextSize(ms, LastRaw(ms, g, c)) \in Nat
      <4>1. d \in 0..n /\ c \in d..n
        BY <1>1, <1>2, <2>3
      <4> QED BY <4>1, LastRawGrows
    <3>2. c > 0 /\ c <= RecentTurnLimit /\ TextSize(ms, LastRaw(ms, g, c)) <= CharacterBudget
      BY <1>1, <1>2, <2>3 DEF KeptAt
    <3> QED BY <1>2, <1>3, <2>2, <2>3, <3>1, <3>2
  <2>4. CASE ~(d <= c)
    <3>1. kept.stopped /\ c < n
      BY <1>1, <1>2, <2>4 DEF KeptAt
    <3>2. c + 1 \in 0..n /\ d \in (c + 1)..n /\ d \in Nat
      BY <1>1, <1>2, <2>4, <3>1
    <3>3. CASE c >= RecentTurnLimit
      BY <1>2, <1>3, <2>2, <2>4, <3>2, <3>3
    <3>4. CASE TextSize(ms, LastRaw(ms, g, c + 1)) > CharacterBudget
      <4>1. /\ TextSize(ms, LastRaw(ms, g, c + 1)) <= TextSize(ms, LastRaw(ms, g, d))
            /\ TextSize(ms, LastRaw(ms, g, c + 1)) \in Nat
            /\ TextSize(ms, LastRaw(ms, g, d)) \in Nat
        BY <3>2, LastRawGrows
      <4> QED BY <1>3, <2>2, <2>4, <3>4, <4>1
    <3> QED BY <1>1, <3>1, <3>3, <3>4 DEF KeptAt
  <2> QED BY <2>3, <2>4 DEF e, S
<1>5. KeptEnds(ms, S) = LastEnds(g, c)
  <2>1. TurnEnds(ms, S) = {EndOf(g.turns[j]) : j \in 1..n} /\ KeptEnds(ms, S) \subseteq TurnEnds(ms, S)
    BY GroupFacts DEF KeptEnds
  <2>2. ASSUME NEW j \in 1..n
        PROVE  EndOf(g.turns[j]) \in KeptEnds(ms, S) <=> n - j + 1 <= c
    <3>1. n - j + 1 \in 1..n /\ n - (n - j + 1) + 1 = j
      BY <1>1
    <3> QED BY <1>4, <3>1
  <2>3. \A j \in 1..n : n - j + 1 <= c <=> j \in (n - c + 1)..n
    BY <1>1, <1>2
  <2>4. \A j \in (n - c + 1)..n : j \in 1..n
    BY <1>1, <1>2
  <2>5. LastEnds(g, c) = {EndOf(g.turns[j]) : j \in (n - c + 1)..n}
    BY DEF LastEnds
  <2> HIDE DEF S, n, c
  <2> QED BY <2>1, <2>2, <2>3, <2>4, <2>5
<1>6. Lists(ms, kept.selected) /\ IdsOf(kept.selected) = LastRaw(ms, g, c)
  BY <1>1 DEF KeptAt
<1>7. LastRaw(ms, g, c) = Window(ms, S)
  BY <1>5 DEF LastRaw, Window
<1> QED BY <1>1, <1>2, <1>5, <1>6, <1>7 DEF kept

\* Lists one after the other.
LEMMA FlatList ==
    ASSUME NEW ms, NEW g, GroupsOf(ms, g), NEW c \in 0..Len(g.turns)
    PROVE  LET flat == FlattenSeq(SubSeq(g.turns, 1, c)) IN
           /\ Lists(ms, flat)
           /\ IdsOf(flat) = TurnMessages(ms, 1..Len(ms), {EndOf(g.turns[j]) : j \in 1..c})
<1> DEFINE n == Len(g.turns)
           S == 1..Len(ms)
           older == SubSeq(g.turns, 1, c)
           Ends(k) == {EndOf(g.turns[j]) : j \in 1..k}
           T == Seq(ChatMessage)
<1>1. /\ n \in Nat /\ g.turns \in Seq(T) /\ c \in Nat /\ c <= n /\ S \subseteq Nat
      /\ \A j \in 1..n : /\ Lists(ms, g.turns[j]) /\ g.turns[j] \in T
                         /\ EndOf(g.turns[j]) \in TurnEnds(ms, S)
                         /\ EndOf(g.turns[j]) \in Nat
                         /\ IdsOf(g.turns[j]) = TurnOf(ms, S, EndOf(g.turns[j]))
      /\ \A i, j \in 1..n : EndOf(g.turns[i]) <= EndOf(g.turns[j]) <=> i <= j
  BY GroupFacts
<1>2. older \in Seq(T) /\ Len(older) = c /\ \A i \in 1..c : older[i] = g.turns[i]
  <2>1. \A i \in 1..c : g.turns[i] \in T
    BY <1>1
  <2>2. /\ 1 \in Int /\ c \in Int /\ (IF 1 <= c THEN c - 1 + 1 ELSE 0) = c
        /\ \A i \in 1..c : i \in 1..(c - 1 + 1) /\ 1 + i - 1 = i
    BY <1>1
  <2> HIDE DEF T
  <2>3. /\ SubSeq(g.turns, 1, c) \in Seq(T)
        /\ Len(SubSeq(g.turns, 1, c)) = (IF 1 <= c THEN c - 1 + 1 ELSE 0)
        /\ \A i \in 1..(c - 1 + 1) : SubSeq(g.turns, 1, c)[i] = g.turns[1 + i - 1]
    BY <2>1, <2>2, SubSeqProperties
  <2> QED BY <2>2, <2>3
<1> HIDE DEF older
<1>3. PICK F \in [0..c -> T] :
         /\ F[0] = <<>> /\ \A k \in 1..c : F[k] = F[k - 1] \o older[k]
         /\ FlattenSeq(older) = F[c]
  <2>1. \E F \in [0..Len(older) -> Seq(ChatMessage)] :
           /\ F[0] = <<>> /\ \A k \in 1..Len(older) : F[k] = F[k - 1] \o older[k]
           /\ FlattenSeq(older) = F[Len(older)]
    BY <1>2, FlattenSteps
  <2> QED BY <1>2, <2>1
<1> DEFINE P == {k \in 0..c : Lists(ms, F[k]) /\ IdsOf(F[k]) = TurnMessages(ms, S, Ends(k))}
<1>4. 0 \in P
  <2>1. Ends(0) = {}
    OBVIOUS
  <2>2. TurnMessages(ms, S, Ends(0)) = {}
    BY <2>1 DEF TurnMessages
  <2>3. 0 \in 0..c
    BY <1>1
  <2> HIDE DEF Ends, S, T
  <2> QED BY <1>3, <2>2, <2>3, EmptyList
<1>5. ASSUME NEW k \in 1..c, k - 1 \in P PROVE k \in P
  <2> DEFINE e == EndOf(g.turns[k])
  <2>1. /\ k \in 0..c /\ k \in 1..n /\ F[k] = F[k - 1] \o g.turns[k]
        /\ \A j \in 1..(k - 1) : j \in 1..n /\ j <= k /\ ~(k <= j)
    <3>1. k \in 0..c /\ k \in 1..n
          /\ \A j \in 1..(k - 1) : j \in 1..n /\ j <= k /\ ~(k <= j)
      <4>1. n \in Nat /\ c <= n /\ c \in Nat
        BY <1>1
      <4> HIDE DEF n
      <4> QED BY <4>1
    <3>2. F[k] = F[k - 1] \o older[k] /\ older[k] = g.turns[k]
      BY <1>2, <1>3
    <3> QED BY <3>1, <3>2
  <2>2. Lists(ms, F[k - 1]) /\ IdsOf(F[k - 1]) = TurnMessages(ms, S, Ends(k - 1))
    BY <1>5
  <2>3. Lists(ms, g.turns[k]) /\ IdsOf(g.turns[k]) = TurnOf(ms, S, e) /\ e \in TurnEnds(ms, S)
        /\ e \in Nat
    BY <1>1, <2>1
  <2>4. Ends(k) = Ends(k - 1) \cup {e}
    <3>1. 1..k = (1..(k - 1)) \cup {k}
      BY <2>1
    <3> QED BY <3>1
  <2>5. \A f \in Ends(k - 1) : f \in TurnEnds(ms, S) /\ f < e
    <3> SUFFICES ASSUME NEW j \in 1..(k - 1)
                 PROVE  EndOf(g.turns[j]) \in TurnEnds(ms, S) /\ EndOf(g.turns[j]) < e
      OBVIOUS
    <3> HIDE DEF n, S, T
    <3>1. j \in 1..n /\ k \in 1..n /\ j <= k /\ ~(k <= j)
      BY <2>1
    <3>2. EndOf(g.turns[j]) <= e /\ ~(e <= EndOf(g.turns[j])) /\ EndOf(g.turns[j]) \in Nat
          /\ EndOf(g.turns[j]) \in TurnEnds(ms, S)
      BY <1>1, <3>1
    <3> HIDE DEF e
    <3> QED BY <2>3, <3>2
  <2> HIDE DEF Ends, e, S, T
  <2>6. \A i \in TurnMessages(ms, S, Ends(k - 1)), x \in TurnOf(ms, S, e) : i < x
    <3> SUFFICES ASSUME NEW f \in Ends(k - 1), NEW i \in TurnOf(ms, S, f),
                        NEW x \in TurnOf(ms, S, e)
                 PROVE  i < x
      BY DEF TurnMessages
    <3>1. f \in TurnEnds(ms, S) /\ f < e
      BY <2>5
    <3> QED BY <1>1, <2>3, <3>1, TurnsInOrder
  <2>7. /\ Lists(ms, F[k - 1] \o g.turns[k])
        /\ IdsOf(F[k - 1] \o g.turns[k]) = IdsOf(F[k - 1]) \cup IdsOf(g.turns[k])
    <3>1. Lists(ms, F[k - 1]) /\ Lists(ms, g.turns[k])
      BY <2>2, <2>3
    <3>2. \A i \in IdsOf(F[k - 1]), x \in IdsOf(g.turns[k]) : i < x
      BY <2>2, <2>3, <2>6
    <3> QED BY ONLY <3>1, <3>2, ListsJoin
  <2>8. TurnMessages(ms, S, Ends(k)) = TurnMessages(ms, S, Ends(k - 1)) \cup TurnOf(ms, S, e)
    BY <2>4 DEF TurnMessages
  <2> QED BY <2>1, <2>2, <2>3, <2>7, <2>8
<1>6. c \in P
  <2> HIDE DEF P
  <2>1. \A k \in 0..c : k \in P
    BY <1>1, <1>4, <1>5, UpTo
  <2> QED BY <1>1, <2>1
<1> QED BY <1>3, <1>6 DEF older

\* The conversation, as the loops see it.
LEMMA ContextAgrees ==
    ASSUME NEW ms, Numbered(ms), NEW summary
    PROVE  LET context == AssembleContext(ms, summary) IN
           /\ Lists(ms, context.messages) /\ Lists(ms, context.candidates)
           /\ IdsOf(context.messages) = Window(ms, 1..Len(ms))
           /\ IdsOf(context.candidates) = Candidates(ms, 1..Len(ms))
<1> DEFINE g == GroupTurns(ms)
           n == Len(g.turns)
           S == 1..Len(ms)
           kept == KeepTurns(g)
           c == n - kept.count
           context == AssembleContext(ms, summary)
<1>1. GroupsOf(ms, g)
  BY GroupsAreTurns DEF GroupsOf
<1>2. /\ context.messages = kept.selected
      /\ context.candidates = FlattenSeq(SubSeq(g.turns, 1, c))
  BY DEF AssembleContext
<1> HIDE DEF g, context
<1>3. /\ kept.count \in 0..n /\ KeptEnds(ms, S) = LastEnds(g, kept.count)
      /\ Lists(ms, kept.selected) /\ IdsOf(kept.selected) = Window(ms, S)
  BY <1>1, LoopKeepsWindow
<1>4. n \in Nat /\ c \in 0..n
  <2>1. n \in Nat
    BY <1>1, GroupFacts
  <2> QED BY <1>3, <2>1
<1>5. TurnEnds(ms, S) \ KeptEnds(ms, S) = {EndOf(g.turns[j]) : j \in 1..c}
  <2>1. /\ TurnEnds(ms, S) = {EndOf(g.turns[j]) : j \in 1..n}
        /\ \A j \in 1..n : EndOf(g.turns[j]) \in Nat
        /\ \A i, j \in 1..n : EndOf(g.turns[i]) <= EndOf(g.turns[j]) <=> i <= j
    BY <1>1, GroupFacts
  <2>2. LastEnds(g, kept.count) = {EndOf(g.turns[j]) : j \in (c + 1)..n}
    BY <1>3 DEF LastEnds
  <2>3. 1..n = (1..c) \cup ((c + 1)..n)
    BY <1>4
  <2>4. \A i \in 1..c, j \in (c + 1)..n : i \in 1..n /\ j \in 1..n /\ i <= j /\ ~(j <= i)
    BY <1>4
  <2>5. \A i \in 1..c, j \in (c + 1)..n : EndOf(g.turns[i]) # EndOf(g.turns[j])
    <3> SUFFICES ASSUME NEW i \in 1..c, NEW j \in (c + 1)..n
                 PROVE  EndOf(g.turns[i]) # EndOf(g.turns[j])
      OBVIOUS
    <3>1. EndOf(g.turns[i]) <= EndOf(g.turns[j]) /\ ~(EndOf(g.turns[j]) <= EndOf(g.turns[i]))
      BY <2>1, <2>4
    <3> QED BY <3>1
  <2> HIDE DEF S, n, c
  <2> QED BY <1>3, <2>1, <2>2, <2>3, <2>5
<1>6. IdsOf(context.candidates) = Candidates(ms, S)
  BY <1>1, <1>2, <1>4, <1>5, FlatList DEF Candidates
<1>7. Lists(ms, context.candidates)
  BY <1>1, <1>2, <1>4, FlatList
<1> QED BY <1>2, <1>3, <1>6, <1>7 DEF context

(* The loop of assemble_conversation_context keeps exactly the window and hands       *)
(* exactly the other turns to the summary, in order, for any conversation, limits and *)
(* lengths.                                                                          *)
THEOREM WindowAgreesAlways == Spec => []WindowAgrees
<1>1. ConversationOK => WindowAgrees
  <2> SUFFICES ASSUME ConversationOK PROVE WindowAgrees
    OBVIOUS
  <2>1. Everything = 1..Len(messages)
    BY LenProperties DEF Everything, ConversationOK, Numbered
  <2>2. /\ Lists(messages, Context.messages) /\ Lists(messages, Context.candidates)
        /\ IdsOf(Context.messages) = Window(messages, Everything)
        /\ IdsOf(Context.candidates) = Candidates(messages, Everything)
    BY <2>1, ContextAgrees DEF Context, ConversationOK
  <2>3. ASSUME NEW part \in {Context.messages, Context.candidates},
               NEW i \in DOMAIN part, NEW j \in DOMAIN part, i < j
        PROVE  part[i].id < part[j].id
    <3>1. Lists(messages, part)
      BY <2>2
    <3>2. DOMAIN part = 1..Len(part)
      BY <3>1, LenProperties DEF Lists
    <3> QED BY <2>3, <3>1, <3>2 DEF Lists
  <2> QED BY <2>2, <2>3 DEF WindowAgrees
<1> QED BY <1>1, ConversationSteps, PTL DEF Spec

-----------------------------------------------------------------------------
(* Conversations: the binary search of the clipping loops *)

Search == [low : Int, high : Int, best : Int]

LEMMA HalveOne ==
    ASSUME NEW acc \in Search, NEW fitting
    PROVE  /\ Halve(acc, fitting) \in Search
           /\ acc.low > acc.high => Halve(acc, fitting) = acc
           /\ acc.low <= acc.high =>
                 \E m \in acc.low..acc.high :
                    IF m \in fitting
                    THEN /\ Halve(acc, fitting).low = m + 1 /\ Halve(acc, fitting).best = m
                         /\ Halve(acc, fitting).high = acc.high
                    ELSE /\ Halve(acc, fitting).low = acc.low
                         /\ Halve(acc, fitting).best = acc.best
                         /\ Halve(acc, fitting).high = m - 1
<1> DEFINE m == (acc.low + acc.high) \div 2
<1>1. /\ acc.low \in Int /\ acc.high \in Int /\ acc.best \in Int
      /\ acc = [low |-> acc.low, high |-> acc.high, best |-> acc.best]
  BY DEF Search
<1>2. m \in Int /\ (acc.low <= acc.high => acc.low <= m /\ m <= acc.high)
  BY <1>1
<1>3. Halve(acc, fitting) =
         IF acc.low > acc.high THEN acc
         ELSE IF m \in fitting THEN [acc EXCEPT !.low = m + 1, !.best = m]
              ELSE [acc EXCEPT !.high = m - 1]
  BY DEF Halve
<1> HIDE DEF m
<1>4. CASE acc.low > acc.high
  BY <1>1, <1>3, <1>4
<1>5. CASE ~(acc.low > acc.high) /\ m \in fitting
  <2>1. Halve(acc, fitting) = [low |-> m + 1, high |-> acc.high, best |-> m]
    BY <1>1, <1>3, <1>5
  <2>2. m \in acc.low..acc.high
    BY <1>1, <1>2, <1>5
  <2>3. Halve(acc, fitting) \in Search
    BY <1>1, <1>2, <2>1 DEF Search
  <2> QED BY <1>1, <1>5, <2>1, <2>2, <2>3
<1>6. CASE ~(acc.low > acc.high) /\ m \notin fitting
  <2>1. Halve(acc, fitting) = [low |-> acc.low, high |-> m - 1, best |-> acc.best]
    BY <1>1, <1>3, <1>6
  <2>2. m \in acc.low..acc.high
    BY <1>1, <1>2, <1>6
  <2>3. Halve(acc, fitting) \in Search
    BY <1>1, <1>2, <2>1 DEF Search
  <2> QED BY <1>1, <1>6, <2>1, <2>2, <2>3
<1> QED BY <1>4, <1>5, <1>6

\* How many passes the search may take.
Passes(low, high) == IF low <= high THEN high - low + 1 ELSE 0

\* The search, pass by pass.
LEMMA SearchSteps ==
    ASSUME NEW low \in Int, NEW high \in Int, NEW fitting, NEW default \in Int
    PROVE  \E F \in [0..Passes(low, high) -> Search] :
              /\ F[0] = [low |-> low, high |-> high, best |-> default]
              /\ \A k \in 1..Passes(low, high) : F[k] = Halve(F[k - 1], fitting)
              /\ SearchLimit(low, high, fitting, default) = F[Passes(low, high)].best
<1> DEFINE n == Passes(low, high)
           passes == [pass \in 1..(high - low + 1) |-> pass]
           base == [low |-> low, high |-> high, best |-> default]
           step == [q \in (1..n) \X Search |-> Halve(q[2], fitting)]
           Eqn(h) == h = [s \in SUBSET (1..n) |->
                            IF s = {} THEN base ELSE Halve(h[s \ {Max(s)}], fitting)]
           iter == CHOOSE h : Eqn(h)
<1>1. n \in Nat /\ DOMAIN passes = 1..n
  <2>1. n \in Nat /\ 1..n = 1..(high - low + 1)
    BY DEF Passes
  <2> QED BY <2>1
<1>2. base \in Search /\ step \in [(1..n) \X Search -> Search]
  <2>1. base \in Search
    BY DEF Search
  <2>2. \A a \in Search : Halve(a, fitting) \in Search
    BY HalveOne
  <2> HIDE DEF base, n
  <2> QED BY <2>1, <2>2
<1>3. SearchLimit(low, high, fitting, default) = iter[1..n].best
  <2> HIDE DEF n
  <2> QED BY <1>1 DEF SearchLimit, FoldLeft, MapThenFoldSet
<1> HIDE DEF passes
<1>4. \E h : Eqn(h)
  <2>1. PICK h \in [SUBSET (1..n) -> Search] : IsTable(h, n, base, step)
    <3>1. n \in Nat
      BY <1>1
    <3> HIDE DEF step, n, base
    <3> QED BY <3>1, <1>2, FoldTable
  <2>2. ASSUME NEW s \in SUBSET (1..n), s # {}
        PROVE  step[<<Max(s), h[s \ {Max(s)}]>>] = Halve(h[s \ {Max(s)}], fitting)
    <3>1. Max(s) \in 1..n
      BY <1>1, <2>2, MaxIsIn
    <3>2. h[s \ {Max(s)}] \in Search
      BY <2>1
    <3> QED BY <3>1, <3>2
  <2>3. Eqn(h)
    <3> HIDE DEF step, n, base
    <3> QED BY <2>1, <2>2 DEF IsTable
  <2> QED BY <2>3
<1>5. Eqn(iter)
  <2> HIDE DEF Eqn
  <2> QED BY <1>4
<1>6. Follows(iter, n, Search, base, step)
  <2> HIDE DEF iter, base
  <2>1. \A s \in SUBSET (1..n) :
           iter[s] = IF s = {} THEN base ELSE Halve(iter[s \ {Max(s)}], fitting)
    BY <1>5
  <2>2. \A s \in SUBSET (1..n) : s # {} => Max(s) \in 1..n
    BY <1>1, MaxIsIn
  <2> QED BY <1>1, <1>2, <2>1, <2>2 DEF Follows
<1> HIDE DEF iter, step, n, base, Eqn
<1>7. PICK F \in [0..n -> Search] : IsWalk(F, n, base, step) /\ F[n] = iter[1..n]
  BY <1>6, FoldWalk
<1>8. \A k \in 1..n : F[k - 1] \in Search /\ step[<<k, F[k - 1]>>] = Halve(F[k - 1], fitting)
  BY <1>1, <1>7 DEF step
<1> QED BY <1>3, <1>7, <1>8 DEF n, base, IsWalk

\* Where the largest fitting number of low..high can still be.
Narrowed(low, high, fitting, default, k, acc) ==
    /\ low <= acc.low /\ acc.high <= high
    /\ acc.low > acc.high \/ acc.high - acc.low + 1 <= Passes(low, high) - k
    /\ acc.best = default \/ acc.best \in fitting
    /\ \A x \in fitting : x <= acc.high /\ (x < acc.low => x <= acc.best)

\* What is fitting, is so for all smaller numbers.
Downward(low, high, fitting) ==
    /\ fitting \subseteq low..high
    /\ \A x \in fitting, y \in low..high : y <= x => y \in fitting

\* The search finds a fitting number, or gives the default; what fits from the smallest
\* number on, it finds the largest of.
LEMMA SearchResult ==
    ASSUME NEW low \in Int, NEW high \in Int, NEW fitting, NEW default \in Int
    PROVE  LET found == SearchLimit(low, high, fitting, default) IN
           /\ found \in Int
           /\ found = default \/ found \in fitting
           /\ Downward(low, high, fitting) => \A x \in fitting : x <= found
<1> DEFINE n == Passes(low, high)
<1>1. n \in Nat
  BY DEF Passes
<1>2. PICK F \in [0..n -> Search] :
         /\ F[0] = [low |-> low, high |-> high, best |-> default]
         /\ \A k \in 1..n : F[k] = Halve(F[k - 1], fitting)
         /\ SearchLimit(low, high, fitting, default) = F[n].best
  BY SearchSteps
<1>3. \A k \in 0..n : F[k] \in Search
  BY <1>2
<1>4. F[n].best \in Int
  BY <1>1, <1>3 DEF Search
<1>5. F[n].best = default \/ F[n].best \in fitting
  <2> DEFINE P == {k \in 0..n : F[k].best = default \/ F[k].best \in fitting}
  <2>1. 0 \in P
    BY <1>1, <1>2
  <2>2. ASSUME NEW k \in 1..n, k - 1 \in P PROVE k \in P
    <3>1. k - 1 \in 0..n /\ k \in 0..n /\ F[k] = Halve(F[k - 1], fitting) /\ F[k - 1] \in Search
          /\ F[k - 1].low \in Int /\ F[k - 1].high \in Int
      BY <1>1, <1>2, <1>3 DEF Search
    <3>2. F[k - 1].best = default \/ F[k - 1].best \in fitting
      BY <2>2
    <3>3. CASE F[k - 1].low > F[k - 1].high
      <4>1. F[k] = F[k - 1]
        BY <3>1, <3>3, HalveOne
      <4> QED BY <3>1, <3>2, <4>1
    <3>4. CASE F[k - 1].low <= F[k - 1].high
      <4>1. F[k].best \in fitting \/ F[k].best = F[k - 1].best
        BY <3>1, <3>4, HalveOne
      <4> QED BY <3>1, <3>2, <4>1
    <3> QED BY <3>1, <3>3, <3>4
  <2>3. \A k \in 0..n : k \in P
    <3> HIDE DEF P, n
    <3> QED BY <1>1, <2>1, <2>2, UpTo
  <2>4. n \in 0..n
    BY <1>1
  <2> QED BY <2>3, <2>4
<1>6. ASSUME Downward(low, high, fitting) PROVE \A x \in fitting : x <= F[n].best
  <2> DEFINE P == {k \in 0..n : Narrowed(low, high, fitting, default, k, F[k])}
  <2>1. 0 \in P
    <3>1. \A x \in fitting : x \in Int /\ low <= x /\ x <= high
      BY <1>6 DEF Downward
    <3>2. low > high \/ high - low + 1 <= Passes(low, high) - 0
      BY DEF Passes
    <3>3. Narrowed(low, high, fitting, default, 0, F[0])
      BY <1>2, <3>1, <3>2 DEF Narrowed
    <3> QED BY <1>1, <3>3
  <2>2. ASSUME NEW k \in 1..n, k - 1 \in P PROVE k \in P
    <3> DEFINE a == F[k - 1]
               b == F[k]
    <3>1. /\ k - 1 \in 0..n /\ k \in 0..n /\ k \in Nat /\ b = Halve(a, fitting) /\ a \in Search
          /\ a.low \in Int /\ a.high \in Int /\ a.best \in Int
      BY <1>1, <1>2, <1>3 DEF Search
    <3>2. Narrowed(low, high, fitting, default, k - 1, a)
      BY <2>2
    <3> HIDE DEF a, b
    <3>3. CASE a.low > a.high
      <4>1. b = a
        BY <3>1, <3>3, HalveOne
      <4>2. Narrowed(low, high, fitting, default, k, b)
        BY <3>2, <3>3, <4>1 DEF Narrowed
      <4> QED BY <3>1, <4>2 DEF b
    <3>4. CASE a.low <= a.high
      <4>1. PICK m \in a.low..a.high :
               IF m \in fitting
               THEN b.low = m + 1 /\ b.best = m /\ b.high = a.high
               ELSE b.low = a.low /\ b.best = a.best /\ b.high = m - 1
        BY <3>1, <3>4, HalveOne
      <4>2. /\ low <= a.low /\ a.high <= high /\ m \in Int /\ m \in low..high
            /\ a.high - a.low + 1 <= n - (k - 1)
            /\ a.best = default \/ a.best \in fitting
            /\ \A x \in fitting : x \in Int /\ x <= a.high /\ (x < a.low => x <= a.best)
        BY <1>6, <3>1, <3>2, <3>4 DEF Narrowed, Downward
      <4>3. CASE m \in fitting
        <5>1. b.low = m + 1 /\ b.best = m /\ b.high = a.high
          BY <4>1, <4>3
        <5>2. b.low > b.high \/ b.high - b.low + 1 <= n - k
          BY <1>1, <3>1, <4>2, <5>1
        <5>3. \A x \in fitting : x <= b.high /\ (x < b.low => x <= b.best)
          BY <4>2, <5>1
        <5>4. low <= b.low /\ b.high <= high
          BY <3>1, <4>2, <5>1
        <5>5. Narrowed(low, high, fitting, default, k, b)
          BY <4>3, <5>1, <5>2, <5>3, <5>4 DEF Narrowed
        <5> QED BY <3>1, <5>5 DEF b
      <4>4. CASE m \notin fitting
        <5>1. b.low = a.low /\ b.best = a.best /\ b.high = m - 1
          BY <4>1, <4>4
        <5>2. b.low > b.high \/ b.high - b.low + 1 <= n - k
          BY <1>1, <3>1, <4>2, <5>1
        <5>3. \A x \in fitting : x < m
          <6>1. \A x \in fitting : ~(m <= x)
            BY <1>6, <4>2, <4>4 DEF Downward
          <6> QED BY <4>2, <6>1
        <5>4. \A x \in fitting : x <= b.high /\ (x < b.low => x <= b.best)
          BY <4>2, <5>1, <5>3
        <5>5. low <= b.low /\ b.high <= high
          BY <3>1, <4>2, <5>1
        <5>6. Narrowed(low, high, fitting, default, k, b)
          BY <4>2, <5>1, <5>2, <5>4, <5>5 DEF Narrowed
        <5> QED BY <3>1, <5>6 DEF b
      <4> QED BY <4>3, <4>4
    <3> QED BY <3>1, <3>3, <3>4
  <2>3. Narrowed(low, high, fitting, default, n, F[n])
    <3>1. \A k \in 0..n : k \in P
      <4> HIDE DEF P, n
      <4> QED BY <1>1, <2>1, <2>2, UpTo
    <3>2. n \in 0..n
      BY <1>1
    <3> QED BY <3>1, <3>2
  <2>4. F[n].low \in Int /\ F[n].high \in Int /\ F[n].best \in Int
    BY <1>1, <1>3 DEF Search
  <2>5. F[n].low > F[n].high
    BY <1>1, <2>3, <2>4 DEF Narrowed
  <2>6. \A x \in fitting : x \in Int
    BY <1>6 DEF Downward
  <2> QED BY <2>3, <2>4, <2>5, <2>6 DEF Narrowed
<1> QED BY <1>2, <1>4, <1>5, <1>6

-----------------------------------------------------------------------------
(* Conversations: the candidates grouped again *)

\* A list of complete turns: every answer stands behind a user's message, and one ends it.
Unbroken(p) ==
    /\ p \in Seq(ChatMessage)
    /\ \A i \in 1..Len(p) : p[i].role = "assistant" => i > 1 /\ p[i - 1].role = "user"
    /\ p # <<>> => p[Len(p)].role = "assistant"

\* q is the first k messages of p.
FirstMessages(p, k, q) ==
    q \in Seq(ChatMessage) /\ Len(q) = k /\ \A i \in 1..k : q[i] = p[i]

\* What group_turns has after k messages of p, none of which it dropped.
AllGrouped(p, k, acc) ==
    /\ FirstMessages(p, k, FlattenSeq(acc.turns) \o acc.pending)
    /\ acc.pending = <<>> <=> k = 0 \/ p[k].role = "assistant"
    /\ \A j \in 1..Len(acc.turns) : acc.turns[j] # <<>>

LEMMA OneMoreFirst ==
    ASSUME NEW p, NEW k \in Nat \ {0}, NEW q, FirstMessages(p, k - 1, q), p[k] \in ChatMessage
    PROVE  FirstMessages(p, k, Append(q, p[k]))
<1>1. /\ Append(q, p[k]) \in Seq(ChatMessage) /\ Len(Append(q, p[k])) = (k - 1) + 1
      /\ \A i \in 1..(k - 1) : Append(q, p[k])[i] = q[i]
      /\ Append(q, p[k])[(k - 1) + 1] = p[k]
  BY AppendProperties DEF FirstMessages
<1>2. (k - 1) + 1 = k /\ \A i \in 1..k : i \in 1..(k - 1) \/ i = k
  OBVIOUS
<1> QED BY <1>1, <1>2 DEF FirstMessages

LEMMA AllGroupedOneMore ==
    ASSUME NEW p, Unbroken(p), NEW k \in 1..Len(p), NEW acc \in Grouping,
           AllGrouped(p, k - 1, acc)
    PROVE  AllGrouped(p, k, AddToTurns(acc, p[k]))
<1> DEFINE m == p[k]
           flat == FlattenSeq(acc.turns)
           more == Append(acc.pending, m)
           next == AddToTurns(acc, m)
<1> SUFFICES AllGrouped(p, k, next)
  OBVIOUS
<1>1. /\ m \in ChatMessage /\ m.role \in {"user", "assistant"} /\ k \in Nat \ {0}
      /\ m.role = "assistant" => k > 1 /\ p[k - 1].role = "user"
  <2>1. p \in Seq(ChatMessage) /\ Len(p) \in Nat
    BY LenProperties DEF Unbroken
  <2>2. m \in ChatMessage /\ k \in Nat \ {0}
    BY <2>1, ElementOfSeq
  <2>3. m.role = "assistant" => k > 1 /\ p[k - 1].role = "user"
    BY DEF Unbroken
  <2> QED BY <2>2, <2>3 DEF ChatMessage
<1>2. acc.turns \in Seq(Seq(ChatMessage)) /\ acc.pending \in Seq(ChatMessage)
  BY DEF Grouping
<1>3. flat \in Seq(ChatMessage)
  BY <1>2, FlattenAppend
<1>4. more \in Seq(ChatMessage) /\ more # <<>> /\ more = acc.pending \o <<m>>
      /\ <<m>> \in Seq(ChatMessage)
  <2> HIDE DEF m
  <2>1. more \in Seq(ChatMessage) /\ more # <<>>
    BY <1>1, <1>2, AppendProperties
  <2>2. more = acc.pending \o <<m>>
    BY <1>1, <1>2, AppendIsConcat
  <2>3. <<m>> \in Seq(ChatMessage)
    BY <1>1
  <2> QED BY <2>1, <2>2, <2>3
<1>5. flat \o more = Append(flat \o acc.pending, m)
  <2>1. flat \o acc.pending \in Seq(ChatMessage)
    BY <1>2, <1>3, ConcatProperties
  <2>2. Append(flat \o acc.pending, m) = (flat \o acc.pending) \o <<m>>
    BY <1>1, <2>1, AppendIsConcat
  <2>3. (flat \o acc.pending) \o <<m>> = flat \o (acc.pending \o <<m>>)
    <3> DEFINE last == <<m>>
               pending == acc.pending
    <3>1. flat \in Seq(ChatMessage) /\ pending \in Seq(ChatMessage)
          /\ last \in Seq(ChatMessage)
      BY <1>2, <1>3, <1>4
    <3> HIDE DEF flat, last, pending
    <3>2. (flat \o pending) \o last = flat \o (pending \o last)
      BY ONLY <3>1, ConcatAssociative
    <3> QED BY <3>2 DEF last, pending
  <2> QED BY <1>4, <2>2, <2>3
<1>6. FirstMessages(p, k, flat \o more)
  <2>1. FirstMessages(p, k - 1, flat \o acc.pending)
    BY DEF AllGrouped
  <2> HIDE DEF flat, more
  <2> QED BY <1>1, <1>5, <2>1, OneMoreFirst
<1>7. CASE m.role = "user"
  <2>1. next.turns = acc.turns /\ next.pending = more
    BY <1>1, <1>7, GroupOne
  <2>2. k # 0 /\ p[k].role # "assistant"
    BY <1>1, <1>7
  <2> HIDE DEF next, more
  <2> QED BY <1>4, <1>6, <2>1, <2>2 DEF AllGrouped
<1>8. CASE m.role = "assistant"
  <2>1. acc.pending # <<>>
    <3>1. k - 1 # 0 /\ p[k - 1].role # "assistant"
      BY <1>1, <1>8
    <3> QED BY <3>1 DEF AllGrouped
  <2>2. next.turns = Append(acc.turns, more) /\ next.pending = <<>>
    BY <1>1, <1>8, <2>1, GroupOne
  <2>3. FlattenSeq(next.turns) = flat \o more
    BY <1>2, <1>4, <2>2, FlattenAppend
  <2>4. (flat \o more) \o <<>> = flat \o more
    BY <1>3, <1>4, ConcatProperties, ConcatEmptySeq
  <2>5. \A j \in 1..Len(next.turns) : next.turns[j] # <<>>
    <3> DEFINE T == Seq(ChatMessage)
    <3>1. acc.turns \in Seq(T) /\ more \in T
      BY <1>2, <1>4
    <3> HIDE DEF T, more
    <3>2. /\ Len(next.turns) = Len(acc.turns) + 1 /\ next.turns[Len(acc.turns) + 1] = more
          /\ \A j \in 1..Len(acc.turns) : next.turns[j] = acc.turns[j]
      BY <2>2, <3>1, AppendProperties
    <3>3. Len(acc.turns) \in Nat
      BY <3>1, LenProperties
    <3> HIDE DEF next
    <3>4. \A j \in 1..Len(next.turns) : j \in 1..Len(acc.turns) \/ j = Len(acc.turns) + 1
      BY <3>2, <3>3
    <3>5. \A j \in 1..Len(acc.turns) : acc.turns[j] # <<>>
      BY DEF AllGrouped
    <3> QED BY <1>4, <3>2, <3>4, <3>5
  <2> HIDE DEF next, flat, more
  <2>6. FirstMessages(p, k, FlattenSeq(next.turns) \o next.pending)
    BY <1>6, <2>2, <2>3, <2>4
  <2>7. p[k].role = "assistant"
    BY <1>8
  <2> QED BY <2>2, <2>5, <2>6, <2>7 DEF AllGrouped
<1> QED BY <1>1, <1>7, <1>8

\* The turns of p, and what stands up to each of them.
Parts(p, T, H) ==
    /\ T \in Seq(Seq(ChatMessage)) /\ \A k \in 1..Len(T) : T[k] # <<>>
    /\ H \in [0..Len(T) -> Seq(ChatMessage)]
    /\ H[0] = <<>> /\ \A k \in 1..Len(T) : H[k] = H[k - 1] \o T[k]
    /\ p = H[Len(T)]

\* A list of complete turns is grouped into turns that make up the list.
LEMMA UnbrokenParts ==
    ASSUME NEW p, Unbroken(p)
    PROVE  \E H : Parts(p, GroupTurns(p).turns, H)
<1> DEFINE n == Len(p)
           g == GroupTurns(p)
<1>1. /\ p \in Seq(ChatMessage) /\ n \in Nat
      /\ p # <<>> => n # 0 /\ p[n].role = "assistant"
  BY LenProperties, EmptySeq DEF Unbroken
<1>2. PICK F \in [0..n -> Grouping] :
         /\ F[0] = NoTurns /\ \A k \in 1..n : F[k] = AddToTurns(F[k - 1], p[k])
         /\ g = F[n]
  BY <1>1, GroupSteps
<1> DEFINE P == {k \in 0..n : AllGrouped(p, k, F[k])}
<1>3. 0 \in P
  <2>1. F[0].turns = <<>> /\ F[0].pending = <<>> /\ Len(<<>>) = 0
    BY <1>2 DEF NoTurns
  <2>2. FlattenSeq(<<>>) = <<>>
    <3> DEFINE T == Seq(ChatMessage)
    <3>1. <<>> \in Seq(T) /\ Len(<<>>) = 0
      OBVIOUS
    <3>2. PICK E \in [0..0 -> T] : E[0] = <<>> /\ FlattenSeq(<<>>) = E[0]
      BY <3>1, FlattenSteps
    <3> QED BY <3>2
  <2>3. <<>> \in Seq(ChatMessage) /\ <<>> \o <<>> = <<>> /\ Len(<<>>) = 0
    BY ConcatEmptySeq
  <2>4. FirstMessages(p, 0, FlattenSeq(F[0].turns) \o F[0].pending)
    BY <2>1, <2>2, <2>3 DEF FirstMessages
  <2> QED BY <1>1, <2>1, <2>4 DEF AllGrouped
<1>4. ASSUME NEW k \in 1..n, k - 1 \in P PROVE k \in P
  <2>1. F[k - 1] \in Grouping /\ k \in 0..n
    BY <1>1, <1>2
  <2>2. AllGrouped(p, k - 1, F[k - 1])
    BY <1>4
  <2>3. AllGrouped(p, k, AddToTurns(F[k - 1], p[k]))
    BY <2>1, <2>2, AllGroupedOneMore
  <2> QED BY <1>2, <2>1, <2>3
<1>5. AllGrouped(p, n, g) /\ g \in Grouping
  <2> HIDE DEF P
  <2>1. \A k \in 0..n : k \in P
    BY <1>1, <1>3, <1>4, UpTo
  <2>2. n \in P /\ n \in 0..n
    BY <1>1, <2>1
  <2> QED BY <1>2, <2>2 DEF P
<1> HIDE DEF g
<1>6. g.turns \in Seq(Seq(ChatMessage)) /\ g.pending = <<>>
  <2>1. n = 0 \/ p[n].role = "assistant"
    BY <1>1, EmptySeq
  <2> QED BY <1>5, <2>1 DEF AllGrouped, Grouping
<1>7. FlattenSeq(g.turns) = p
  <2>1. FlattenSeq(g.turns) \in Seq(ChatMessage)
    BY <1>6, FlattenAppend
  <2>2. FlattenSeq(g.turns) \o <<>> = FlattenSeq(g.turns)
    BY <2>1, ConcatEmptySeq
  <2>3. FirstMessages(p, n, FlattenSeq(g.turns))
    BY <1>5, <1>6, <2>2 DEF AllGrouped
  <2> QED BY <1>1, <2>3, SeqEqual DEF FirstMessages
<1>8. PICK H \in [0..Len(g.turns) -> Seq(ChatMessage)] :
         /\ H[0] = <<>> /\ \A k \in 1..Len(g.turns) : H[k] = H[k - 1] \o g.turns[k]
         /\ FlattenSeq(g.turns) = H[Len(g.turns)]
  BY <1>6, FlattenSteps
<1>9. Parts(p, g.turns, H)
  BY <1>5, <1>6, <1>7, <1>8 DEF Parts, AllGrouped
<1> QED BY <1>9 DEF g

\* The messages of turns, in order, are complete turns.
LEMMA TurnsUnbroken ==
    ASSUME NEW ms, Numbered(ms), NEW p, Lists(ms, p),
           NEW E, E \subseteq TurnEnds(ms, 1..Len(ms)),
           IdsOf(p) = TurnMessages(ms, 1..Len(ms), E)
    PROVE  Unbroken(p)
<1> DEFINE S == 1..Len(ms)
           n == Len(p)
<1>1. /\ p \in Seq(ChatMessage) /\ n \in Nat /\ DOMAIN p = 1..n /\ (p # <<>> => n # 0)
      /\ \A i \in 1..n : p[i].id \in Nat /\ p[i] = ms[p[i].id] /\ p[i].id \in IdsOf(p)
      /\ \A i, j \in 1..n : i < j => p[i].id < p[j].id
      /\ \A x \in IdsOf(p) : \E i \in 1..n : p[i].id = x
  <2>1. p \in Seq(ChatMessage) /\ n \in Nat /\ DOMAIN p = 1..n /\ (p # <<>> => n # 0)
    BY LenProperties, EmptySeq DEF Lists
  <2> QED BY <2>1 DEF Lists, IdsOf
<1>2. S \subseteq Nat
  OBVIOUS
<1>3. \A x \in IdsOf(p) : \E f \in E : f \in TurnEnds(ms, S) /\ x \in TurnOf(ms, S, f)
  BY DEF TurnMessages
<1>4. \A f \in E : TurnOf(ms, S, f) \subseteq IdsOf(p)
  BY DEF TurnMessages
<1>5. ASSUME NEW i \in 1..n, p[i].role = "assistant"
      PROVE  i > 1 /\ p[i - 1].role = "user"
  <2> DEFINE e == p[i].id
  <2>1. e \in Nat /\ ms[e].role = "assistant" /\ e \in IdsOf(p)
    BY <1>1, <1>5
  <2>2. PICK f \in E : f \in TurnEnds(ms, S) /\ e \in TurnOf(ms, S, f)
    BY <1>3, <2>1
  <2>3. e = f
    <3>1. e # f => ms[e].role = "user"
      BY <1>2, <2>2, TurnParts
    <3> QED BY <2>1, <3>1
  <2>4. PICK u \in S : u < e /\ ms[u].role = "user" /\ \A k \in S : ~(u < k /\ k < e)
    BY <2>2, <2>3 DEF TurnEnds, Closes
  <2>5. u \in TurnOf(ms, S, e)
    <3>1. \A k \in S : u <= k /\ k < e => k = u
      BY <2>1, <2>4
    <3> QED BY <2>4, <3>1 DEF TurnOf
  <2>6. PICK h \in 1..n : p[h].id = u
    BY <1>1, <1>4, <2>2, <2>3, <2>5
  <2>7. h < i
    <3>1. h = i => e = u
      BY <2>6
    <3>2. i < h => e < u
      BY <1>1, <2>6
    <3> QED BY <1>1, <2>1, <2>4, <3>1, <3>2
  <2>8. h = i - 1
    <3> SUFFICES ASSUME h < i - 1 PROVE FALSE
      BY <1>1, <2>7
    <3> DEFINE k == i - 1
    <3>1. k \in 1..n /\ h < k /\ k < i
      BY <1>1, <2>7
    <3> HIDE DEF k
    <3>2. u < p[k].id /\ p[k].id < e
      BY <1>1, <2>6, <3>1
    <3>3. p[k].id \in S
      <4>1. p[k].id \in IdsOf(p)
        BY <1>1, <3>1
      <4>2. PICK t \in E : t \in TurnEnds(ms, S) /\ p[k].id \in TurnOf(ms, S, t)
        BY <1>3, <4>1
      <4> QED BY <1>2, <4>2, TurnParts
    <3> QED BY <2>4, <3>2, <3>3
  <2>9. p[h] = ms[u]
    BY <1>1, <2>6
  <2> QED BY <1>1, <2>4, <2>7, <2>8, <2>9
<1>6. ASSUME p # <<>> PROVE p[n].role = "assistant"
  <2> DEFINE x == p[n].id
  <2>1. n \in 1..n /\ x \in IdsOf(p) /\ x \in Nat
    BY <1>1, <1>6
  <2>2. PICK f \in E : f \in TurnEnds(ms, S) /\ x \in TurnOf(ms, S, f)
    BY <1>3, <2>1
  <2>3. x <= f /\ f \in TurnOf(ms, S, f) /\ ms[f].role = "assistant" /\ f \in S
    BY <1>2, <2>2, TurnParts
  <2>4. PICK i \in 1..n : p[i].id = f
    BY <1>1, <1>4, <2>2, <2>3
  <2>5. i < n => f < x
    BY <1>1, <2>1, <2>4
  <2>6. i = n
    <3>1. f \in Nat /\ n \in Nat
      BY <1>1, <1>2, <2>3
    <3> HIDE DEF x, n
    <3>2. ~(f < x)
      BY <2>1, <2>3, <3>1
    <3>3. ~(i < n)
      BY <2>5, <3>2
    <3> QED BY <3>1, <3>3
  <2> QED BY <1>1, <2>1, <2>3, <2>4, <2>6
<1> QED BY <1>1, <1>5, <1>6 DEF Unbroken

\* The parts of a list: where they stand in it.
Stand(T, H) ==
    /\ Len(T) \in Nat
    /\ \A k \in 0..Len(T) : H[k] \in Seq(ChatMessage) /\ Len(H[k]) \in Nat
    /\ \A k \in 1..Len(T) : T[k] \in Seq(ChatMessage) /\ Last(T[k]) = H[k][Len(H[k])]
    /\ \A k \in 0..Len(T) : \A j \in 0..k :
          /\ Len(H[j]) <= Len(H[k]) /\ (j < k => Len(H[j]) < Len(H[k]))
          /\ \A i \in 1..Len(H[j]) : H[k][i] = H[j][i]

LEMMA PartsStand ==
    ASSUME NEW p, NEW T, NEW H, Parts(p, T, H)
    PROVE  Stand(T, H)
<1> DEFINE n == Len(T)
           A == Seq(ChatMessage)
<1>1. /\ T \in Seq(A) /\ n \in Nat /\ \A k \in 1..n : T[k] # <<>>
      /\ H \in [0..n -> A] /\ \A k \in 1..n : H[k] = H[k - 1] \o T[k]
  <2>1. T \in Seq(A)
    BY DEF Parts
  <2> QED BY <2>1, LenProperties DEF Parts
<1>2. \A k \in 0..n : H[k] \in A /\ Len(H[k]) \in Nat
  <2>1. \A k \in 0..n : H[k] \in A
    BY <1>1
  <2> QED BY <2>1, LenProperties
<1>3. \A k \in 1..n : T[k] \in A /\ Len(T[k]) \in Nat \ {0}
  <2>1. \A k \in 1..n : T[k] \in A
    <3> HIDE DEF A
    <3> QED BY <1>1, ElementOfSeq
  <2> QED BY <1>1, <2>1, EmptySeq
<1>4. ASSUME NEW k \in 1..n
      PROVE  /\ k - 1 \in 0..n /\ k \in 0..n
             /\ Len(H[k]) = Len(H[k - 1]) + Len(T[k])
             /\ \A i \in 1..Len(H[k - 1]) : H[k][i] = H[k - 1][i]
             /\ Last(T[k]) = H[k][Len(H[k])]
  <2>1. k - 1 \in 0..n /\ k \in 0..n
    BY <1>1
  <2> DEFINE a == H[k - 1]
             b == T[k]
             c == H[k]
  <2>2. a \in A /\ b \in A /\ c = a \o b /\ Len(a) \in Nat /\ Len(b) \in Nat \ {0}
    BY <1>1, <1>2, <1>3, <2>1
  <2> HIDE DEF a, b, c
  <2>3. /\ Len(c) = Len(a) + Len(b)
        /\ \A i \in 1..(Len(a) + Len(b)) : c[i] = IF i <= Len(a) THEN a[i] ELSE b[i - Len(a)]
    BY <2>2, ConcatProperties
  <2>4. \A i \in 1..Len(a) : c[i] = a[i]
    BY <2>2, <2>3
  <2>5. Len(a) + Len(b) \in 1..(Len(a) + Len(b)) /\ ~(Len(a) + Len(b) <= Len(a))
        /\ (Len(a) + Len(b)) - Len(a) = Len(b)
    BY <2>2
  <2>6. c[Len(c)] = b[Len(b)]
    BY <2>3, <2>5
  <2>7. Last(b) = b[Len(b)]
    BY DEF Last
  <2> QED BY <2>1, <2>3, <2>4, <2>6, <2>7 DEF a, b, c
<1> HIDE DEF n, A
<1>5. ASSUME NEW j \in 0..n
      PROVE  \A k \in 0..n : j <= k =>
                /\ Len(H[j]) <= Len(H[k]) /\ (j < k => Len(H[j]) < Len(H[k]))
                /\ \A i \in 1..Len(H[j]) : H[k][i] = H[j][i]
  <2> DEFINE P == {k \in 0..n : j <= k =>
                     /\ Len(H[j]) <= Len(H[k]) /\ (j < k => Len(H[j]) < Len(H[k]))
                     /\ \A i \in 1..Len(H[j]) : H[k][i] = H[j][i]}
  <2>1. 0 \in P
    <3>1. j <= 0 => j = 0
      OBVIOUS
    <3> QED BY <1>1, <1>2, <3>1
  <2>2. ASSUME NEW k \in 1..n, k - 1 \in P PROVE k \in P
    <3>1. CASE j = k
      BY <1>1, <1>2, <3>1
    <3>2. CASE j <= k - 1
      <4>1. /\ Len(H[j]) <= Len(H[k - 1])
            /\ \A i \in 1..Len(H[j]) : H[k - 1][i] = H[j][i]
        BY <2>2, <3>2
      <4>2. Len(H[j]) \in Nat /\ Len(H[k - 1]) \in Nat /\ Len(T[k]) \in Nat \ {0}
        BY <1>2, <1>3, <1>4
      <4>3. Len(H[j]) < Len(H[k])
        <5> DEFINE a == Len(H[j])
                   b == Len(H[k - 1])
                   c == Len(T[k])
                   d == Len(H[k])
        <5>1. d = b + c /\ a <= b /\ a \in Nat /\ b \in Nat /\ c \in Nat \ {0}
          BY <1>4, <4>1, <4>2
        <5> HIDE DEF a, b, c, d
        <5>2. a < d
          BY <5>1
        <5> QED BY <5>2 DEF a, d
      <4>4. \A i \in 1..Len(H[j]) : H[k][i] = H[j][i]
        <5>1. \A i \in 1..Len(H[j]) : i \in 1..Len(H[k - 1])
          BY <4>1, <4>2
        <5> QED BY <1>4, <4>1, <5>1
      <4>5. Len(H[j]) <= Len(H[k]) /\ k \in 0..n
        BY <1>2, <1>4, <4>2, <4>3
      <4> QED BY <4>3, <4>4, <4>5
    <3>3. CASE k < j
      BY <1>1, <3>3
    <3> QED BY <1>1, <3>1, <3>2, <3>3
  <2>3. \A k \in 0..n : k \in P
    <3> HIDE DEF P
    <3> QED BY <1>1, <2>1, <2>2, UpTo
  <2> QED BY <2>3
<1>6. \A k \in 0..n : \A j \in 0..k : j \in 0..n /\ j <= k
  BY <1>1
<1>7. ASSUME NEW k \in 0..n, NEW j \in 0..k
      PROVE  /\ Len(H[j]) <= Len(H[k]) /\ (j < k => Len(H[j]) < Len(H[k]))
             /\ \A i \in 1..Len(H[j]) : H[k][i] = H[j][i]
  BY <1>5, <1>6
<1> QED BY <1>1, <1>2, <1>3, <1>4, <1>7 DEF n, A, Stand

-----------------------------------------------------------------------------
(* Conversations: the batch of a refresh *)

\* The size of what the model is handed.
LEMMA SizeIsNumber ==
    ASSUME NEW summary \in Nat, NEW ms \in Seq(ChatMessage)
    PROVE  /\ SizesOf(ms) \in Nat /\ SerializedSize(summary, ms) \in Nat
           /\ \A n \in Nat : n <= summary =>
                 SerializedSize(n, ms) <= SerializedSize(summary, ms)
<1>1. Len(ms) \in Nat
  BY LenProperties
<1>2. PICK F \in [0..Len(ms) -> Nat] : SizesOf(ms) = F[Len(ms)]
  BY SizesSteps
<1>3. SizesOf(ms) \in Nat
  BY <1>1, <1>2
<1>4. Envelope \in Nat /\ Wrapping * Len(ms) \in Nat
  BY <1>1, LoopsAssumption
<1>5. \A n \in Nat : SerializedSize(n, ms) = Envelope + n + SizesOf(ms) + Wrapping * Len(ms)
  BY DEF SerializedSize
<1> DEFINE a == SizesOf(ms)
           w == Wrapping * Len(ms)
<1>6. \A n \in Nat : SerializedSize(n, ms) = Envelope + n + a + w
  BY <1>5
<1>7. a \in Nat /\ w \in Nat /\ Envelope \in Nat
  BY <1>3, <1>4
<1> HIDE DEF a, w
<1>8. SerializedSize(summary, ms) \in Nat
  BY <1>6, <1>7
<1>9. \A n \in Nat : n <= summary => SerializedSize(n, ms) <= SerializedSize(summary, ms)
  BY <1>6, <1>7
<1> QED BY <1>3, <1>8, <1>9

Taking == [previous : Nat, selected : Seq(ChatMessage), stopped : BOOLEAN]

TakesNothing(summary) == [previous |-> summary, selected |-> <<>>, stopped |-> FALSE]

LEMMA TakeOne ==
    ASSUME NEW acc \in Taking, NEW t \in Seq(ChatMessage)
    PROVE  LET next == TakeTurn(acc, t)
               size == SerializedSize(acc.previous, acc.selected \o t) IN
           /\ next \in Taking /\ next.previous = acc.previous
           /\ IF acc.stopped \/ size > CharacterBudget
              THEN next.stopped /\ next.selected = acc.selected
              ELSE ~next.stopped /\ next.selected = acc.selected \o t
<1> DEFINE next == TakeTurn(acc, t)
           more == acc.selected \o t
           stops == acc.stopped \/ SerializedSize(acc.previous, more) > CharacterBudget
<1>1. /\ acc.previous \in Nat /\ acc.selected \in Seq(ChatMessage) /\ acc.stopped \in BOOLEAN
      /\ acc = [previous |-> acc.previous, selected |-> acc.selected, stopped |-> acc.stopped]
  BY DEF Taking
<1>2. more \in Seq(ChatMessage)
  BY <1>1, ConcatProperties
<1>3. next = IF stops THEN [acc EXCEPT !.stopped = TRUE] ELSE [acc EXCEPT !.selected = more]
  BY DEF TakeTurn
<1>4. stops <=> acc.stopped \/ SerializedSize(acc.previous, more) > CharacterBudget
  OBVIOUS
<1> HIDE DEF more, stops, next
<1>5. CASE stops
  <2>1. next = [previous |-> acc.previous, selected |-> acc.selected, stopped |-> TRUE]
    BY <1>1, <1>3, <1>5
  <2>2. next \in Taking
    BY <1>1, <2>1 DEF Taking
  <2> QED BY <1>4, <1>5, <2>1, <2>2 DEF next, more
<1>6. CASE ~stops
  <2>1. next = [previous |-> acc.previous, selected |-> more, stopped |-> acc.stopped]
    BY <1>1, <1>3, <1>6
  <2>2. next \in Taking /\ ~acc.stopped
    BY <1>1, <1>2, <1>4, <1>6, <2>1 DEF Taking
  <2> QED BY <1>4, <1>6, <2>1, <2>2 DEF next, more
<1> QED BY <1>5, <1>6

\* _select_summary_batch, turn by turn.
LEMMA TakeSteps ==
    ASSUME NEW T \in Seq(Seq(ChatMessage)), NEW summary \in Nat
    PROVE  \E F \in [0..Len(T) -> Taking] :
              /\ F[0] = TakesNothing(summary)
              /\ \A k \in 1..Len(T) : F[k] = TakeTurn(F[k - 1], T[k])
              /\ FoldLeft(TakeTurn, TakesNothing(summary), T) = F[Len(T)]
<1> DEFINE n == Len(T)
           base == TakesNothing(summary)
           step == [q \in (1..n) \X Taking |-> TakeTurn(q[2], T[q[1]])]
           Eqn(h) == h = [s \in SUBSET (1..n) |->
                            IF s = {} THEN base
                            ELSE TakeTurn(h[s \ {Max(s)}], T[Max(s)])]
           iter == CHOOSE h : Eqn(h)
<1>1. n \in Nat /\ DOMAIN T = 1..n /\ \A k \in 1..n : T[k] \in Seq(ChatMessage)
  <2> DEFINE A == Seq(ChatMessage)
  <2>1. T \in Seq(A)
    OBVIOUS
  <2> HIDE DEF A
  <2>2. Len(T) \in Nat /\ DOMAIN T = 1..Len(T) /\ \A k \in 1..Len(T) : T[k] \in A
    BY <2>1, LenProperties, ElementOfSeq
  <2> QED BY <2>2 DEF A
<1>2. base \in Taking /\ step \in [(1..n) \X Taking -> Taking]
  <2>1. base \in Taking
    <3>1. <<>> \in Seq(ChatMessage)
      OBVIOUS
    <3> QED BY <3>1 DEF TakesNothing, Taking
  <2>2. \A a \in Taking, t \in Seq(ChatMessage) : TakeTurn(a, t) \in Taking
    BY TakeOne
  <2> QED BY <1>1, <2>1, <2>2
<1>3. FoldLeft(TakeTurn, base, T) = iter[1..n]
  BY <1>1 DEF FoldLeft, MapThenFoldSet
<1>4. \E h : Eqn(h)
  <2>1. PICK h \in [SUBSET (1..n) -> Taking] : IsTable(h, n, base, step)
    <3>1. n \in Nat
      BY <1>1
    <3> HIDE DEF step, n, base
    <3> QED BY <3>1, <1>2, FoldTable
  <2>2. ASSUME NEW s \in SUBSET (1..n), s # {}
        PROVE  step[<<Max(s), h[s \ {Max(s)}]>>] = TakeTurn(h[s \ {Max(s)}], T[Max(s)])
    <3>1. Max(s) \in 1..n
      BY <1>1, <2>2, MaxIsIn
    <3>2. h[s \ {Max(s)}] \in Taking
      BY <2>1
    <3> QED BY <3>1, <3>2
  <2>3. Eqn(h)
    <3> HIDE DEF step, n, base
    <3> QED BY <2>1, <2>2 DEF IsTable
  <2> QED BY <2>3
<1>5. Eqn(iter)
  <2> HIDE DEF Eqn
  <2> QED BY <1>4
<1>6. Follows(iter, n, Taking, base, step)
  <2> HIDE DEF iter, base
  <2>1. \A s \in SUBSET (1..n) :
           iter[s] = IF s = {} THEN base
                     ELSE TakeTurn(iter[s \ {Max(s)}], T[Max(s)])
    BY <1>5
  <2>2. \A s \in SUBSET (1..n) : s # {} => Max(s) \in 1..n
    BY <1>1, MaxIsIn
  <2> QED BY <1>1, <1>2, <2>1, <2>2 DEF Follows
<1> HIDE DEF iter, step, n, base, Eqn
<1>7. PICK F \in [0..n -> Taking] : IsWalk(F, n, base, step) /\ F[n] = iter[1..n]
  BY <1>6, FoldWalk
<1>8. \A k \in 1..n :
         F[k - 1] \in Taking /\ step[<<k, F[k - 1]>>] = TakeTurn(F[k - 1], T[k])
  BY <1>1, <1>7 DEF step
<1> QED BY <1>3, <1>7, <1>8 DEF n, base, IsWalk

\* After m turns the next one does not fit.
StopsAfter(T, H, summary, m) ==
    m < Len(T) /\ SerializedSize(summary, H[m + 1]) > CharacterBudget

\* What is taken after j turns: the first ones, as long as they fit.
TakenAt(T, H, summary, j, acc) ==
    /\ acc.previous = summary
    /\ \E m \in 0..j :
          /\ acc.selected = H[m]
          /\ \A i \in 1..m : SerializedSize(summary, H[i]) <= CharacterBudget
          /\ IF acc.stopped THEN StopsAfter(T, H, summary, m) ELSE m = j

LEMMA TakenOneMore ==
    ASSUME NEW p, NEW T, NEW H, Parts(p, T, H), NEW summary \in Nat, NEW j \in 1..Len(T),
           NEW acc \in Taking, TakenAt(T, H, summary, j - 1, acc)
    PROVE  TakenAt(T, H, summary, j, TakeTurn(acc, T[j]))
<1> DEFINE next == TakeTurn(acc, T[j])
           n == Len(T)
<1> SUFFICES TakenAt(T, H, summary, j, next)
  OBVIOUS
<1>1. /\ n \in Nat /\ T[j] \in Seq(ChatMessage) /\ H[j] = H[j - 1] \o T[j]
      /\ H[j] \in Seq(ChatMessage) /\ j \in 0..n /\ j \in Nat
  <2>1. n \in Nat /\ T[j] \in Seq(ChatMessage) /\ \A k \in 0..n : H[k] \in Seq(ChatMessage)
    BY PartsStand DEF Stand
  <2>2. H[j] = H[j - 1] \o T[j]
    BY DEF Parts
  <2> QED BY <2>1, <2>2
<1>2. /\ acc.previous = summary
      /\ \E m \in 0..(j - 1) :
            /\ acc.selected = H[m]
            /\ \A i \in 1..m : SerializedSize(summary, H[i]) <= CharacterBudget
            /\ IF acc.stopped THEN StopsAfter(T, H, summary, m) ELSE m = j - 1
  BY DEF TakenAt
<1>3. PICK m \in 0..(j - 1) :
         /\ acc.selected = H[m]
         /\ \A i \in 1..m : SerializedSize(summary, H[i]) <= CharacterBudget
         /\ IF acc.stopped THEN StopsAfter(T, H, summary, m) ELSE m = j - 1
  BY <1>2
<1>4. SerializedSize(summary, H[j]) \in Nat /\ CharacterBudget \in Nat
  BY <1>1, SizeIsNumber, TurnsAssumption
<1>5. next.previous = summary
  BY <1>1, <1>2, TakeOne
<1>6. m \in 0..j
  BY <1>1
<1>7. CASE acc.stopped
  <2>1. next.stopped /\ next.selected = H[m]
    BY <1>1, <1>3, <1>7, TakeOne
  <2>2. StopsAfter(T, H, summary, m)
    BY <1>3, <1>7
  <2> HIDE DEF next
  <2> QED BY <1>3, <1>5, <1>6, <2>1, <2>2 DEF TakenAt
<1>8. CASE ~acc.stopped
  <2>1. m = j - 1 /\ acc.selected \o T[j] = H[j]
    BY <1>1, <1>3, <1>8
  <2>2. CASE SerializedSize(summary, H[j]) > CharacterBudget
    <3>1. next.stopped /\ next.selected = H[m]
      BY <1>1, <1>2, <1>3, <2>1, <2>2, TakeOne
    <3>2. m < Len(T) /\ m + 1 = j
      BY <1>1, <2>1
    <3>3. StopsAfter(T, H, summary, m)
      BY <2>2, <3>2 DEF StopsAfter
    <3> HIDE DEF next
    <3> QED BY <1>3, <1>5, <1>6, <3>1, <3>3 DEF TakenAt
  <2>3. CASE ~(SerializedSize(summary, H[j]) > CharacterBudget)
    <3>1. ~next.stopped /\ next.selected = H[j]
      BY <1>1, <1>2, <1>8, <2>1, <2>3, TakeOne
    <3>2. SerializedSize(summary, H[j]) <= CharacterBudget /\ j \in 0..j
      BY <1>1, <1>4, <2>3
    <3>3. \A i \in 1..j : SerializedSize(summary, H[i]) <= CharacterBudget
      <4>1. \A i \in 1..j : i \in 1..m \/ i = j
        BY <1>1, <2>1
      <4> QED BY <1>3, <3>2, <4>1
    <3> HIDE DEF next
    <3> QED BY <1>5, <3>1, <3>2, <3>3 DEF TakenAt
  <2> QED BY <2>2, <2>3
<1> QED BY <1>7, <1>8

\* What is taken in the end.
LEMMA BatchTaken ==
    ASSUME NEW p, NEW T, NEW H, Parts(p, T, H), NEW summary \in Nat
    PROVE  TakenAt(T, H, summary, Len(T), FoldLeft(TakeTurn, TakesNothing(summary), T))
<1> DEFINE n == Len(T)
<1>1. T \in Seq(Seq(ChatMessage)) /\ n \in Nat /\ H[0] = <<>>
  BY PartsStand DEF Parts, Stand
<1>2. PICK F \in [0..n -> Taking] :
         /\ F[0] = TakesNothing(summary)
         /\ \A k \in 1..n : F[k] = TakeTurn(F[k - 1], T[k])
         /\ FoldLeft(TakeTurn, TakesNothing(summary), T) = F[n]
  BY <1>1, TakeSteps
<1> DEFINE P == {k \in 0..n : TakenAt(T, H, summary, k, F[k])}
<1>3. 0 \in P
  <2>1. F[0].previous = summary /\ F[0].selected = <<>> /\ F[0].stopped = FALSE
    BY <1>2 DEF TakesNothing
  <2>2. TakenAt(T, H, summary, 0, F[0])
    <3>1. 0 \in 0..0 /\ 1..0 = {}
      OBVIOUS
    <3> QED BY <1>1, <2>1, <3>1 DEF TakenAt
  <2> QED BY <1>1, <2>2
<1>4. ASSUME NEW k \in 1..n, k - 1 \in P PROVE k \in P
  <2>1. F[k - 1] \in Taking /\ k \in 0..n
    BY <1>1, <1>2
  <2>2. TakenAt(T, H, summary, k - 1, F[k - 1])
    BY <1>4
  <2>3. TakenAt(T, H, summary, k, TakeTurn(F[k - 1], T[k]))
    BY <2>1, <2>2, TakenOneMore
  <2> QED BY <1>2, <2>1, <2>3
<1>5. n \in P
  <2> HIDE DEF P
  <2>1. \A k \in 0..n : k \in P
    BY <1>1, <1>3, <1>4, UpTo
  <2> QED BY <1>1, <2>1
<1> QED BY <1>2, <1>5

\* Longer messages make a longer text.
LEMMA SizesGrow ==
    ASSUME NEW summary \in Nat, NEW ms \in Seq(ChatMessage), NEW ns \in Seq(ChatMessage),
           Len(ms) = Len(ns), \A i \in 1..Len(ms) : ms[i].size <= ns[i].size
    PROVE  SerializedSize(summary, ms) <= SerializedSize(summary, ns)
<1> DEFINE n == Len(ms)
<1>1. /\ n \in Nat
      /\ \A i \in 1..n : /\ ms[i].size \in Nat /\ ns[i].size \in Nat
                         /\ ms[i].size <= ns[i].size
  <2>1. n \in Nat /\ \A i \in 1..n : ms[i] \in ChatMessage /\ ns[i] \in ChatMessage
    BY LenProperties, ElementOfSeq
  <2> QED BY <2>1 DEF ChatMessage
<1>2. PICK F \in [0..n -> Nat] :
         /\ F[0] = 0 /\ \A k \in 1..n : F[k] = F[k - 1] + ms[k].size
         /\ SizesOf(ms) = F[n]
  BY SizesSteps
<1>3. PICK G \in [0..n -> Nat] :
         /\ G[0] = 0 /\ \A k \in 1..n : G[k] = G[k - 1] + ns[k].size
         /\ SizesOf(ns) = G[n]
  <2>1. PICK G \in [0..Len(ns) -> Nat] :
           /\ G[0] = 0 /\ \A k \in 1..Len(ns) : G[k] = G[k - 1] + ns[k].size
           /\ SizesOf(ns) = G[Len(ns)]
    BY SizesSteps
  <2> QED BY <2>1
<1> DEFINE P == {k \in 0..n : F[k] <= G[k]}
<1>4. 0 \in P
  BY <1>1, <1>2, <1>3
<1>5. ASSUME NEW k \in 1..n, k - 1 \in P PROVE k \in P
  <2>1. /\ F[k - 1] <= G[k - 1] /\ ms[k].size <= ns[k].size /\ k \in 0..n
        /\ F[k - 1] \in Nat /\ G[k - 1] \in Nat /\ ms[k].size \in Nat /\ ns[k].size \in Nat
        /\ F[k] = F[k - 1] + ms[k].size /\ G[k] = G[k - 1] + ns[k].size
    <3>1. k - 1 \in 0..n /\ k \in 0..n
      BY <1>1
    <3> QED BY <1>1, <1>2, <1>3, <1>5, <3>1
  <2>2. F[k] <= G[k]
    BY <2>1
  <2> QED BY <2>1, <2>2
<1>6. \A k \in 0..n : k \in P
  <2> HIDE DEF P, n
  <2> QED BY <1>1, <1>4, <1>5, UpTo
<1> DEFINE a == SizesOf(ms)
           b == SizesOf(ns)
           w == Wrapping * n
<1>7. a \in Nat /\ b \in Nat /\ a <= b
  <2>1. n \in P /\ n \in 0..n
    BY <1>1, <1>6
  <2> QED BY <1>2, <1>3, <2>1
<1>8. w \in Nat /\ Envelope \in Nat
  BY <1>1, LoopsAssumption
<1>9. /\ SerializedSize(summary, ms) = Envelope + summary + a + w
      /\ SerializedSize(summary, ns) = Envelope + summary + b + w
  BY DEF SerializedSize
<1> HIDE DEF a, b, w
<1> QED BY <1>7, <1>8, <1>9

\* Clipping shortens messages and does nothing else.
LEMMA ClippedTurn ==
    ASSUME NEW t \in Seq(ChatMessage), NEW limit \in Nat
    PROVE  /\ Clipped(t, limit) \in Seq(ChatMessage)
           /\ Len(Clipped(t, limit)) = Len(t)
           /\ \A i \in 1..Len(t) :
                 Clipped(t, limit)[i].size = Truncated(t[i].size, limit)
<1> DEFINE n == Len(t)
           f == Clipped(t, limit)
<1>1. n \in Nat /\ DOMAIN t = 1..n /\ \A i \in 1..n : t[i] \in ChatMessage
  BY LenProperties, ElementOfSeq
<1>2. f = [i \in 1..n |-> [t[i] EXCEPT !.size = Truncated(t[i].size, limit)]]
  BY <1>1 DEF Clipped
<1>3. ASSUME NEW i \in 1..n
      PROVE  f[i] \in ChatMessage /\ f[i].size = Truncated(t[i].size, limit)
  <2>1. /\ t[i].id \in Nat /\ t[i].role \in {"user", "assistant"} /\ t[i].size \in Nat
        /\ t[i] = [id |-> t[i].id, role |-> t[i].role, size |-> t[i].size]
    BY <1>1 DEF ChatMessage
  <2>2. f[i] = [id |-> t[i].id, role |-> t[i].role,
                size |-> Truncated(t[i].size, limit)]
    BY <1>2, <2>1
  <2>3. Truncated(t[i].size, limit) \in Nat
    BY <2>1 DEF Truncated
  <2> QED BY <2>1, <2>2, <2>3 DEF ChatMessage
<1> HIDE DEF f
<1>4. f \in [1..n -> ChatMessage]
  BY <1>2, <1>3
<1>5. f \in Seq(ChatMessage) /\ Len(f) = n
  BY <1>1, <1>4
<1> QED BY <1>3, <1>5 DEF f

\* A higher limit leaves more.
LEMMA ClippingGrows ==
    ASSUME NEW summary \in Nat, NEW t \in Seq(ChatMessage), NEW m \in Nat, NEW n \in Nat,
           m <= n
    PROVE  SerializedSize(summary, Clipped(t, m))
              <= SerializedSize(summary, Clipped(t, n))
<1> DEFINE a == Clipped(t, m)
           b == Clipped(t, n)
<1>1. /\ a \in Seq(ChatMessage) /\ b \in Seq(ChatMessage)
      /\ Len(a) = Len(t) /\ Len(b) = Len(t)
      /\ \A i \in 1..Len(t) : /\ a[i].size = Truncated(t[i].size, m)
                                 /\ b[i].size = Truncated(t[i].size, n)
  BY ClippedTurn
<1>2. \A i \in 1..Len(t) : t[i].size \in Nat
  <2>1. \A i \in 1..Len(t) : t[i] \in ChatMessage
    BY ElementOfSeq
  <2> QED BY <2>1 DEF ChatMessage
<1> HIDE DEF a, b
<1>3. \A i \in 1..Len(a) : a[i].size <= b[i].size
  BY <1>1, <1>2 DEF Truncated
<1>4. SerializedSize(summary, a) <= SerializedSize(summary, b)
  BY <1>1, <1>3, SizesGrow
<1> QED BY <1>4 DEF a, b

\* The longest message of a turn.
LEMMA LongestMessage ==
    ASSUME NEW t \in Seq(ChatMessage), t # <<>>
    PROVE  Max({t[i].size : i \in DOMAIN t}) \in Nat
<1> DEFINE n == Len(t)
           S == {t[i].size : i \in DOMAIN t}
           Longest(k, i) == \A j \in 1..k : t[j].size <= t[i].size
           P == {k \in 0..n : k = 0 \/ \E i \in 1..k : Longest(k, i)}
<1>1. n \in Nat \ {0} /\ DOMAIN t = 1..n /\ \A i \in 1..n : t[i].size \in Nat
  <2>1. n \in Nat \ {0} /\ DOMAIN t = 1..n /\ \A i \in 1..n : t[i] \in ChatMessage
    BY EmptySeq, LenProperties, ElementOfSeq
  <2> QED BY <2>1 DEF ChatMessage
<1>2. 0 \in P
  BY <1>1
<1>3. ASSUME NEW k \in 1..n, k - 1 \in P PROVE k \in P
  <2>1. /\ k \in 0..n /\ k \in 1..k /\ \A j \in 1..k : j \in 1..(k - 1) \/ j = k
        /\ \A j \in 1..(k - 1) : j \in 1..n /\ j \in 1..k
    BY <1>1
  <2>2. CASE k - 1 = 0
    <3>1. Longest(k, k)
      BY <1>1, <2>1, <2>2
    <3> QED BY <2>1, <3>1
  <2>3. CASE k - 1 # 0
    <3>1. PICK i \in 1..(k - 1) : Longest(k - 1, i)
      BY <1>3, <2>3
    <3>2. t[i].size \in Nat /\ t[k].size \in Nat /\ i \in 1..k
      BY <1>1, <2>1
    <3>3. CASE t[k].size <= t[i].size
      <4>1. Longest(k, i)
        BY <2>1, <3>1, <3>3
      <4> QED BY <2>1, <3>2, <4>1
    <3>4. CASE t[i].size <= t[k].size
      <4>1. Longest(k, k)
        <5> SUFFICES ASSUME NEW j \in 1..k PROVE t[j].size <= t[k].size
          OBVIOUS
        <5>1. CASE j = k
          BY <3>2, <5>1
        <5>2. CASE j \in 1..(k - 1)
          <6>1. t[j].size \in Nat /\ t[j].size <= t[i].size
            BY <1>1, <2>1, <3>1, <5>2
          <6> QED BY <3>2, <3>4, <6>1
        <5> QED BY <2>1, <5>1, <5>2
      <4> QED BY <2>1, <4>1
    <3>5. t[k].size <= t[i].size \/ t[i].size <= t[k].size
      BY <3>2
    <3> QED BY <3>3, <3>4, <3>5
  <2> QED BY <2>2, <2>3
<1>4. n \in P
  <2> HIDE DEF P
  <2>1. \A k \in 0..n : k \in P
    BY <1>1, <1>2, <1>3, UpTo
  <2> QED BY <1>1, <2>1
<1>5. PICK i \in 1..n : Longest(n, i)
  BY <1>1, <1>4
<1>6. \E x \in S : \A y \in S : x >= y
  <2>1. t[i].size \in S /\ \A y \in S : t[i].size >= y
    BY <1>1, <1>5
  <2> QED BY <2>1
<1>7. S \subseteq Nat
  BY <1>1
<1> HIDE DEF S
<1>8. Max(S) \in S
  BY <1>6 DEF Max
<1> QED BY <1>7, <1>8 DEF S

\* What of the previous summary fits beside the messages.
LEMMA PreviousFits ==
    ASSUME NEW summary \in Nat, NEW ms \in Seq(ChatMessage)
    PROVE  LET fitted == FitPreviousSummary(summary, ms) IN
           /\ fitted \in Nat
           /\ SerializedSize(0, ms) <= CharacterBudget =>
                 SerializedSize(fitted, ms) <= CharacterBudget
<1> DEFINE fitting == {n \in 0..summary :
                         SerializedSize(Truncated(summary, n), ms) <= CharacterBudget}
           high == IF summary = 0 THEN 0 ELSE summary - 1
           found == SearchLimit(0, high, fitting, 0)
<1>1. high \in Int
  OBVIOUS
<1>2. found = 0 \/ found \in fitting
  <2> HIDE DEF high, fitting
  <2>1. 0 \in Int
    OBVIOUS
  <2> QED BY <1>1, <2>1, SearchResult
<1>3. \A n \in 0..summary : Truncated(summary, n) = n
  BY DEF Truncated
<1>4. CASE SerializedSize(summary, ms) <= CharacterBudget
  <2>1. FitPreviousSummary(summary, ms) = summary
    BY <1>4 DEF FitPreviousSummary
  <2> QED BY <1>4, <2>1
<1>5. CASE ~(SerializedSize(summary, ms) <= CharacterBudget)
  <2>1. FitPreviousSummary(summary, ms) = found
    BY <1>5 DEF FitPreviousSummary
  <2> HIDE DEF found
  <2>2. found \in Nat /\ (found # 0 => SerializedSize(found, ms) <= CharacterBudget)
    BY <1>2, <1>3
  <2> QED BY <2>1, <2>2
<1> QED BY <1>4, <1>5

\* One oversized turn: it fits if it can, cut at the largest limit that does.
LEMMA ClipFits ==
    ASSUME NEW summary \in Nat, NEW t \in Seq(ChatMessage), t # <<>>
    PROVE  LET clip == ClipFirstTurn(summary, t)
               size == SerializedSize(clip.previous, clip.input) IN
           /\ Envelope + Wrapping + MarkerSize <= CharacterBudget => size <= CharacterBudget
           /\ SerializedSize(0, Clipped(t, MarkerSize)) <= CharacterBudget =>
                 \A n \in 0..Max({t[i].size : i \in DOMAIN t}) :
                    SerializedSize(clip.previous, Clipped(t, n))
                       \notin (size + 1)..CharacterBudget
<1> DEFINE minimum == Clipped(t, MarkerSize)
           bounded == FitPreviousSummary(summary, minimum)
           marker == <<[t[1] EXCEPT !.role = "user", !.size = MarkerSize]>>
           alone == FitPreviousSummary(summary, marker)
           longest == Max({t[i].size : i \in DOMAIN t})
           Size(n) == SerializedSize(bounded, Clipped(t, n))
           fitting == {n \in MarkerSize..longest :
                         SerializedSize(bounded, Clipped(t, n)) <= CharacterBudget}
           limit == SearchLimit(MarkerSize, longest, fitting, MarkerSize)
           clip == ClipFirstTurn(summary, t)
           size == SerializedSize(clip.previous, clip.input)
<1>1. clip = IF SerializedSize(bounded, minimum) > CharacterBudget
             THEN [previous |-> alone, input |-> marker]
             ELSE [previous |-> bounded, input |-> Clipped(t, limit)]
  BY DEF ClipFirstTurn
<1>2. MarkerSize \in Nat /\ longest \in Nat /\ CharacterBudget \in Nat
  BY LongestMessage, LoopsAssumption, TurnsAssumption
<1>3. /\ marker \in Seq(ChatMessage)
      /\ SerializedSize(0, marker) = Envelope + Wrapping + MarkerSize
  <2> DEFINE m == [t[1] EXCEPT !.role = "user", !.size = MarkerSize]
  <2>1. t[1] \in ChatMessage
    <3>1. 1 \in 1..Len(t)
      BY EmptySeq
    <3> QED BY <3>1, ElementOfSeq
  <2>2. m \in ChatMessage /\ m.size = MarkerSize
    BY <1>2, <2>1 DEF ChatMessage
  <2> HIDE DEF m
  <2>3. marker = <<m>>
    BY DEF m
  <2>4. <<m>> \in Seq(ChatMessage) /\ Len(<<m>>) = 1 /\ <<m>>[1] = m
    BY <2>2
  <2>5. PICK F \in [0..Len(<<m>>) -> Nat] :
           /\ F[0] = 0 /\ \A k \in 1..Len(<<m>>) : F[k] = F[k - 1] + <<m>>[k].size
           /\ SizesOf(<<m>>) = F[Len(<<m>>)]
    BY <2>4, SizesSteps
  <2>6. SizesOf(<<m>>) = MarkerSize
    <3>1. F[1] = F[1 - 1] + m.size /\ 1 - 1 = 0
      BY <2>4, <2>5
    <3> QED BY <1>2, <2>2, <2>4, <2>5, <3>1
  <2>7. SerializedSize(0, <<m>>) = Envelope + 0 + MarkerSize + Wrapping * 1
    BY <2>4, <2>6 DEF SerializedSize
  <2>8. Envelope + 0 + MarkerSize + Wrapping * 1 = Envelope + Wrapping + MarkerSize
    BY LoopsAssumption
  <2> QED BY <2>3, <2>4, <2>7, <2>8
<1>4. minimum \in Seq(ChatMessage)
  BY <1>2, ClippedTurn
<1> HIDE DEF minimum, marker, longest
<1>5. /\ bounded \in Nat /\ alone \in Nat
      /\ SerializedSize(0, minimum) <= CharacterBudget =>
            SerializedSize(bounded, minimum) <= CharacterBudget
      /\ SerializedSize(0, marker) <= CharacterBudget =>
            SerializedSize(alone, marker) <= CharacterBudget
  BY <1>3, <1>4, PreviousFits
<1> HIDE DEF bounded, alone
<1>6. SerializedSize(bounded, minimum) \in Nat /\ SerializedSize(alone, marker) \in Nat
  BY <1>3, <1>4, <1>5, SizeIsNumber
<1>7. \A n \in Nat : Size(n) \in Nat
  BY <1>5, ClippedTurn, SizeIsNumber
<1>8. \A m, n \in Nat : m <= n => Size(m) <= Size(n)
  BY <1>5, ClippingGrows
<1>9. Size(MarkerSize) = SerializedSize(bounded, minimum)
  BY DEF minimum
<1> HIDE DEF Size
<1>10. \A n \in MarkerSize..longest :
          n \in Nat /\ (n \in fitting <=> Size(n) <= CharacterBudget)
  BY <1>2 DEF Size
<1>11. fitting \subseteq MarkerSize..longest
  OBVIOUS
<1> HIDE DEF fitting
<1>12. Downward(MarkerSize, longest, fitting)
  <2> SUFFICES ASSUME NEW x \in fitting, NEW y \in MarkerSize..longest, y <= x
               PROVE  y \in fitting
    BY <1>11 DEF Downward
  <2>1. x \in Nat /\ y \in Nat /\ Size(x) <= CharacterBudget
    BY <1>10, <1>11
  <2>2. Size(y) <= Size(x) /\ Size(y) \in Nat /\ Size(x) \in Nat
    BY <1>7, <1>8, <2>1
  <2>3. Size(y) <= CharacterBudget
    BY <1>2, <2>1, <2>2
  <2> QED BY <1>10, <2>3
<1>13. /\ limit = MarkerSize \/ limit \in fitting
       /\ \A x \in fitting : x <= limit
  <2>1. MarkerSize \in Int /\ longest \in Int
    BY <1>2
  <2> QED BY <1>12, <2>1, SearchResult
<1> HIDE DEF limit
<1>14. limit \in Nat /\ MarkerSize <= limit
  <2>1. limit = MarkerSize \/ limit \in MarkerSize..longest
    BY <1>11, <1>13
  <2> QED BY <1>2, <2>1
<1> HIDE DEF clip
<1>15. CASE SerializedSize(bounded, minimum) > CharacterBudget
  <2>1. clip.previous = alone /\ clip.input = marker
    BY <1>1, <1>15
  <2>2. ~(SerializedSize(0, minimum) <= CharacterBudget)
    BY <1>2, <1>5, <1>6, <1>15
  <2>3. Envelope + Wrapping + MarkerSize <= CharacterBudget => size <= CharacterBudget
    BY <1>3, <1>5, <2>1
  <2> QED BY <2>2, <2>3 DEF clip, minimum
<1>16. CASE ~(SerializedSize(bounded, minimum) > CharacterBudget)
  <2>1. clip.previous = bounded /\ clip.input = Clipped(t, limit)
    BY <1>1, <1>16
  <2>2. size = Size(limit)
    BY <2>1 DEF Size
  <2>3. Size(MarkerSize) <= CharacterBudget
    BY <1>2, <1>6, <1>9, <1>16
  <2>4. size <= CharacterBudget
    BY <1>10, <1>11, <1>13, <2>2, <2>3
  <2>5. ASSUME NEW n \in 0..longest PROVE Size(n) \notin (size + 1)..CharacterBudget
    <3>1. n \in Nat /\ Size(n) \in Nat /\ Size(limit) \in Nat
      BY <1>2, <1>7, <1>14
    <3>2. CASE n <= limit
      <4>1. Size(n) <= Size(limit)
        BY <1>8, <1>14, <3>1, <3>2
      <4> HIDE DEF size
      <4> QED BY <2>2, <3>1, <4>1
    <3>3. CASE limit < n
      <4>1. n \in MarkerSize..longest
        BY <1>2, <1>14, <3>1, <3>3
      <4>2. n \notin fitting
        BY <1>13, <1>14, <3>1, <3>3
      <4>3. ~(Size(n) <= CharacterBudget)
        BY <1>10, <4>1, <4>2
      <4> HIDE DEF size
      <4> QED BY <1>2, <3>1, <4>3
    <3> QED BY <1>14, <3>1, <3>2, <3>3
  <2>6. \A n \in 0..longest :
           SerializedSize(clip.previous, Clipped(t, n)) \notin (size + 1)..CharacterBudget
    BY <2>1, <2>5 DEF Size
  <2> QED BY <2>4, <2>6 DEF clip, longest
<1> QED BY <1>15, <1>16

\* The batch is the first m turns, or the first turn clipped.
FirstTurns(T, H, summary, batch, m) ==
    /\ batch.previous = summary /\ batch.input = H[m]
    /\ batch.covered = IdsOf(H[m]) /\ batch.through = Last(H[m]).id
    /\ SerializedSize(summary, H[m]) <= CharacterBudget
    /\ SerializedSize(summary, T[1]) <= CharacterBudget
    /\ m = Len(T) \/ StopsAfter(T, H, summary, m)
ClippedFirst(T, summary, batch) ==
    LET clip == ClipFirstTurn(summary, T[1]) IN
    /\ batch.previous = clip.previous /\ batch.input = clip.input
    /\ batch.covered = IdsOf(T[1]) /\ batch.through = Last(T[1]).id
    /\ SerializedSize(summary, T[1]) > CharacterBudget

\* The batch of a list of complete turns.
LEMMA BatchChosen ==
    ASSUME NEW p, NEW T, NEW H, Parts(p, T, H), T = GroupTurns(p).turns, T # <<>>,
           NEW summary \in Nat
    PROVE  \/ \E m \in 1..Len(T) : FirstTurns(T, H, summary, SelectBatch(summary, p), m)
           \/ ClippedFirst(T, summary, SelectBatch(summary, p))
<1> DEFINE batch == SelectBatch(summary, p)
           clip == ClipFirstTurn(summary, T[1])
           taken == FoldLeft(TakeTurn, TakesNothing(summary), T)
           n == Len(T)
<1>1. batch = IF taken.selected # <<>>
              THEN [previous |-> summary, input |-> taken.selected,
                    covered |-> IdsOf(taken.selected), through |-> Last(taken.selected).id]
              ELSE [previous |-> clip.previous, input |-> clip.input,
                    covered |-> IdsOf(T[1]), through |-> Last(T[1]).id]
  BY DEF SelectBatch, TakesNothing
<1>2. TakenAt(T, H, summary, n, taken)
  BY BatchTaken
<1> HIDE DEF batch, clip, taken
<1>3. PICK m \in 0..n :
         /\ taken.selected = H[m]
         /\ \A i \in 1..m : SerializedSize(summary, H[i]) <= CharacterBudget
         /\ IF taken.stopped THEN StopsAfter(T, H, summary, m) ELSE m = n
  BY <1>2 DEF TakenAt
<1>4. /\ n \in Nat \ {0} /\ m \in Nat /\ H[0] = <<>> /\ H[1] = T[1]
      /\ m > 0 => H[m] # <<>>
  <2> Stand(T, H)
    BY PartsStand
  <2>1. /\ n \in Nat /\ T \in Seq(Seq(ChatMessage)) /\ H[0] = <<>>
        /\ \A k \in 1..n : H[k] = H[k - 1] \o T[k] /\ T[k] \in Seq(ChatMessage)
    BY DEF Parts, Stand
  <2>2. n # 0
    <3> DEFINE A == Seq(ChatMessage)
    <3>1. T \in Seq(A)
      BY <2>1
    <3> HIDE DEF A
    <3> QED BY <3>1, EmptySeq
  <2>3. H[1] = T[1]
    <3>1. 1 \in 1..n /\ 1 - 1 = 0
      BY <2>1, <2>2
    <3>2. H[1] = <<>> \o T[1] /\ T[1] \in Seq(ChatMessage)
      BY <2>1, <3>1
    <3> QED BY <3>2, ConcatEmptySeq
  <2>4. m > 0 => H[m] # <<>>
    <3> SUFFICES ASSUME m > 0, H[m] = <<>> PROVE FALSE
      OBVIOUS
    <3>1. 0 \in 0..m /\ 0 < m
      BY <3>1
    <3>2. Len(H[0]) < Len(H[m])
      BY <3>1 DEF Stand
    <3> QED BY <2>1, <3>2
  <2> QED BY <2>1, <2>2, <2>3, <2>4
<1>5. CASE m = 0
  <2>1. ~(taken.selected # <<>>)
    BY <1>3, <1>4, <1>5
  <2>2. StopsAfter(T, H, summary, 0)
    BY <1>3, <1>4, <1>5
  <2>3. SerializedSize(summary, T[1]) > CharacterBudget
    <3>1. 0 + 1 = 1
      OBVIOUS
    <3> QED BY <1>4, <2>2, <3>1 DEF StopsAfter
  <2>4. batch = [previous |-> clip.previous, input |-> clip.input,
                 covered |-> IdsOf(T[1]), through |-> Last(T[1]).id]
    BY <1>1, <2>1
  <2>5. /\ batch.previous = clip.previous /\ batch.input = clip.input
        /\ batch.covered = IdsOf(T[1]) /\ batch.through = Last(T[1]).id
    BY <2>4
  <2> QED BY <2>3, <2>5 DEF ClippedFirst, batch, clip
<1>6. CASE m > 0
  <2>1. taken.selected = H[m] /\ H[m] # <<>>
    BY <1>3, <1>4, <1>6
  <2>2. batch = [previous |-> summary, input |-> H[m],
                 covered |-> IdsOf(H[m]), through |-> Last(H[m]).id]
    BY <1>1, <2>1
  <2>3. /\ batch.previous = summary /\ batch.input = H[m]
        /\ batch.covered = IdsOf(H[m]) /\ batch.through = Last(H[m]).id
    BY <2>2
  <2>4. m = n \/ StopsAfter(T, H, summary, m)
    BY <1>3
  <2>5. m \in 1..n
    BY <1>4, <1>6
  <2>6. /\ SerializedSize(summary, H[m]) <= CharacterBudget
        /\ SerializedSize(summary, T[1]) <= CharacterBudget
    <3>1. m \in 1..m /\ 1 \in 1..m
      BY <1>4, <1>6
    <3> QED BY <1>3, <1>4, <3>1
  <2> QED BY <2>3, <2>4, <2>5, <2>6 DEF FirstTurns, batch
<1> QED BY <1>4, <1>5, <1>6

\* The part of a list up to a turn: the messages no later than the turn's answer.
LEMMA PartCovers ==
    ASSUME NEW ms, NEW p, Lists(ms, p), NEW T, NEW H, Parts(p, T, H), NEW m \in 1..Len(T)
    PROVE  /\ Last(H[m]) = Last(T[m]) /\ Last(T[m]).id \in Nat
           /\ IdsOf(H[m]) = {i \in IdsOf(p) : i <= Last(H[m]).id}
           /\ \A k \in 1..Len(T) : Last(T[k]).id = Last(T[m]).id => k = m
<1> DEFINE n == Len(T)
           L == Len(H[m])
<1> Stand(T, H)
  BY PartsStand
<1>1. /\ n \in Nat /\ m \in 0..n /\ m \in 0..n /\ n \in 0..n
      /\ \A k \in 0..n : H[k] \in Seq(ChatMessage) /\ Len(H[k]) \in Nat
      /\ \A k \in 1..n : Last(T[k]) = H[k][Len(H[k])]
      /\ p = H[n]
  <2>1. n \in Nat
    BY DEF Stand
  <2> QED BY <2>1 DEF Parts, Stand
<1>2. \A k \in 1..n : /\ Len(H[k]) \in 1..Len(p)
                      /\ \A i \in 1..Len(H[k]) : i \in 1..Len(p) /\ p[i] = H[k][i]
  <2> SUFFICES ASSUME NEW k \in 1..n
               PROVE  /\ Len(H[k]) \in 1..Len(p)
                      /\ \A i \in 1..Len(H[k]) : i \in 1..Len(p) /\ p[i] = H[k][i]
    OBVIOUS
  <2>1. k \in 0..n /\ n \in 0..n /\ k \in 0..n /\ 0 \in 0..k /\ 0 < k
    BY <1>1
  <2>2. /\ Len(H[k]) <= Len(H[n]) /\ \A i \in 1..Len(H[k]) : H[n][i] = H[k][i]
    BY <2>1 DEF Stand
  <2>3. Len(H[0]) < Len(H[k]) /\ Len(H[0]) \in Nat /\ Len(H[k]) \in Nat /\ Len(H[n]) \in Nat
    BY <1>1, <2>1 DEF Stand
  <2> QED BY <1>1, <2>2, <2>3
<1>3. /\ DOMAIN p = 1..Len(p) /\ Len(p) \in Nat /\ DOMAIN H[m] = 1..L /\ L \in Nat
      /\ \A i \in 1..Len(p) : p[i].id \in Nat
      /\ \A i, j \in 1..Len(p) : i < j => p[i].id < p[j].id
  <2>1. p \in Seq(ChatMessage) /\ H[m] \in Seq(ChatMessage)
    BY <1>1 DEF Lists
  <2> QED BY <2>1, LenProperties DEF Lists
<1>4. Last(H[m]) = Last(T[m]) /\ Last(H[m]) = p[L] /\ L \in 1..Len(p)
  <2>1. Last(H[m]) = H[m][L]
    BY DEF Last
  <2>2. L \in 1..L
    BY <1>2, <1>3
  <2> QED BY <1>1, <1>2, <2>1, <2>2
<1>5. IdsOf(H[m]) = {p[i].id : i \in 1..L}
  BY <1>2, <1>3 DEF IdsOf
<1>6. IdsOf(p) = {p[i].id : i \in 1..Len(p)}
  BY <1>3 DEF IdsOf
<1>7. \A i \in 1..Len(p) : p[i].id <= p[L].id <=> i \in 1..L
  <2> SUFFICES ASSUME NEW i \in 1..Len(p) PROVE p[i].id <= p[L].id <=> i \in 1..L
    OBVIOUS
  <2>1. p[i].id \in Nat /\ p[L].id \in Nat /\ i \in Nat /\ i >= 1 /\ L \in Nat
    BY <1>3, <1>4
  <2>2. i < L => p[i].id < p[L].id
    BY <1>3, <1>4
  <2>3. L < i => p[L].id < p[i].id
    BY <1>3, <1>4
  <2> HIDE DEF L
  <2> QED BY <2>1, <2>2, <2>3
<1>8. IdsOf(H[m]) = {i \in IdsOf(p) : i <= p[L].id}
  <2>1. 1..L \subseteq 1..Len(p)
    BY <1>2
  <2> HIDE DEF L
  <2> QED BY <1>5, <1>6, <1>7, <2>1
<1>9. ASSUME NEW k \in 1..n, Last(T[k]).id = Last(T[m]).id PROVE k = m
  <2> DEFINE K == Len(H[k])
  <2>1. Last(T[k]) = p[K] /\ K \in 1..Len(p)
    <3>1. K \in 1..Len(p) /\ K \in 1..K
      BY <1>2
    <3> QED BY <1>1, <1>2, <3>1
  <2>2. p[K].id = p[L].id /\ p[K].id \in Nat
    BY <1>3, <1>4, <1>9, <2>1
  <2>3. K = L
    <3>1. K < L => p[K].id < p[L].id
      BY <1>3, <1>4, <2>1
    <3>2. L < K => p[L].id < p[K].id
      BY <1>3, <1>4, <2>1
    <3>3. K \in Nat /\ L \in Nat
      BY <1>3, <2>1
    <3> HIDE DEF K, L
    <3> QED BY <2>2, <3>1, <3>2, <3>3
  <2>4. k < m => K < L
    <3>1. k < m => k \in 0..m
      BY <1>1
    <3> QED BY <1>1, <3>1 DEF Stand
  <2>5. m < k => L < K
    <3>1. m < k => m \in 0..k /\ k \in 0..n
      BY <1>1
    <3> QED BY <1>1, <3>1 DEF Stand
  <2>6. K \in Nat /\ k \in Nat /\ m \in Nat
    BY <1>3, <2>1
  <2> HIDE DEF K, L
  <2> QED BY <2>3, <2>4, <2>5, <2>6
<1> QED BY <1>3, <1>4, <1>8, <1>9

\* What BatchIsFull says of a batch of the turns T of p.
FullBatch(p, T, summary, batch) ==
    LET first == T[1]
        size == SerializedSize(batch.previous, batch.input) IN
    /\ batch.covered = {i \in IdsOf(p) : i <= batch.through}
    /\ batch.through \in LastIds(T)
    /\ Envelope + Wrapping + MarkerSize <= CharacterBudget => size <= CharacterBudget
    /\ IF SerializedSize(summary, first) <= CharacterBudget
       THEN \A k \in DOMAIN T \ {1} :
               Last(T[k - 1]).id = batch.through =>
                  SerializedSize(summary, batch.input \o T[k]) > CharacterBudget
       ELSE SerializedSize(0, Clipped(first, MarkerSize)) <= CharacterBudget =>
               \A n \in 0..Max({first[i].size : i \in DOMAIN first}) :
                  SerializedSize(batch.previous, Clipped(first, n))
                     \notin (size + 1)..CharacterBudget

LEMMA BatchFull ==
    ASSUME NEW ms, NEW p, Lists(ms, p), NEW T, NEW H, Parts(p, T, H),
           T = GroupTurns(p).turns, T # <<>>, NEW summary \in Nat
    PROVE  FullBatch(p, T, summary, SelectBatch(summary, p))
<1> DEFINE batch == SelectBatch(summary, p)
           clip == ClipFirstTurn(summary, T[1])
           size == SerializedSize(batch.previous, batch.input)
           n == Len(T)
<1>1. /\ n \in Nat /\ n # 0 /\ DOMAIN T = 1..n /\ \A k \in 1..n : T[k] \in Seq(ChatMessage)
      /\ \A k \in 1..n : H[k] = H[k - 1] \o T[k] /\ T[k] # <<>>
      /\ H[0] = <<>>
  <2> DEFINE A == Seq(ChatMessage)
  <2>1. T \in Seq(A)
    BY DEF Parts
  <2>2. Stand(T, H)
    BY PartsStand
  <2> HIDE DEF A
  <2>3. n # 0 /\ DOMAIN T = 1..n
    BY <2>1, EmptySeq, LenProperties
  <2> QED BY <2>2, <2>3 DEF Stand, Parts
<1>2. SerializedSize(summary, T[1]) \in Nat /\ CharacterBudget \in Nat /\ 1 \in 1..n
  BY <1>1, SizeIsNumber, TurnsAssumption
<1>3. H[1] = T[1]
  <2>1. 1 - 1 = 0
    OBVIOUS
  <2>2. H[1] = <<>> \o T[1] /\ T[1] \in Seq(ChatMessage)
    BY <1>1, <1>2, <2>1
  <2> QED BY <2>2, ConcatEmptySeq
<1>4. \/ \E m \in 1..n : FirstTurns(T, H, summary, batch, m)
      \/ ClippedFirst(T, summary, batch)
  BY BatchChosen
<1> HIDE DEF batch, clip
<1>5. ASSUME NEW m \in 1..n,
             batch.covered = IdsOf(H[m]), batch.through = Last(H[m]).id
      PROVE  /\ batch.covered = {i \in IdsOf(p) : i <= batch.through}
             /\ batch.through \in LastIds(T)
  <2>1. /\ Last(H[m]) = Last(T[m])
        /\ IdsOf(H[m]) = {i \in IdsOf(p) : i <= Last(H[m]).id}
    BY PartCovers
  <2> QED BY <1>1, <1>5, <2>1 DEF LastIds
<1>6. CASE \E m \in 1..n : FirstTurns(T, H, summary, batch, m)
  <2>1. PICK m \in 1..n :
            /\ batch.previous = summary /\ batch.input = H[m]
            /\ batch.covered = IdsOf(H[m]) /\ batch.through = Last(H[m]).id
            /\ SerializedSize(summary, H[m]) <= CharacterBudget
            /\ SerializedSize(summary, T[1]) <= CharacterBudget
            /\ m = n \/ StopsAfter(T, H, summary, m)
    BY <1>6 DEF FirstTurns
  <2>2. size <= CharacterBudget
    BY <2>1
  <2>3. ASSUME NEW k \in DOMAIN T \ {1}, Last(T[k - 1]).id = batch.through
        PROVE  SerializedSize(summary, batch.input \o T[k]) > CharacterBudget
    <3>1. k \in 1..n /\ k - 1 \in 1..n /\ k \in Nat
      BY <1>1
    <3>2. k - 1 = m
      <4>1. Last(T[k - 1]).id = Last(T[m]).id
        <5>1. Last(H[m]) = Last(T[m])
          BY PartCovers
        <5> QED BY <2>1, <2>3, <5>1
      <4> QED BY <3>1, <4>1, PartCovers
    <3>3. m # n /\ m + 1 = k
      BY <1>1, <3>1, <3>2
    <3>4. SerializedSize(summary, H[k]) > CharacterBudget
      BY <2>1, <3>3 DEF StopsAfter
    <3>5. H[k] = batch.input \o T[k]
      BY <1>1, <2>1, <3>1, <3>2
    <3> QED BY <3>4, <3>5
  <2> HIDE DEF size
  <2> QED BY <1>5, <2>1, <2>2, <2>3 DEF FullBatch, batch, size
<1>7. CASE ClippedFirst(T, summary, batch)
  <2>0. /\ batch.previous = clip.previous /\ batch.input = clip.input
        /\ batch.covered = IdsOf(T[1]) /\ batch.through = Last(T[1]).id
        /\ SerializedSize(summary, T[1]) > CharacterBudget
    BY <1>7 DEF ClippedFirst, clip
  <2>1. /\ batch.covered = {i \in IdsOf(p) : i <= batch.through}
        /\ batch.through \in LastIds(T)
    BY <1>2, <1>3, <1>5, <2>0
  <2>2. ~(SerializedSize(summary, T[1]) <= CharacterBudget)
    BY <1>2, <2>0
  <2>3. size = SerializedSize(clip.previous, clip.input)
    BY <2>0
  <2>4. /\ Envelope + Wrapping + MarkerSize <= CharacterBudget => size <= CharacterBudget
        /\ SerializedSize(0, Clipped(T[1], MarkerSize)) <= CharacterBudget =>
              \A x \in 0..Max({T[1][i].size : i \in DOMAIN T[1]}) :
                 SerializedSize(batch.previous, Clipped(T[1], x))
                    \notin (size + 1)..CharacterBudget
    <3>1. T[1] \in Seq(ChatMessage) /\ T[1] # <<>>
      BY <1>1, <1>2
    <3> HIDE DEF size
    <3>2. /\ Envelope + Wrapping + MarkerSize <= CharacterBudget => size <= CharacterBudget
          /\ SerializedSize(0, Clipped(T[1], MarkerSize)) <= CharacterBudget =>
                \A x \in 0..Max({T[1][i].size : i \in DOMAIN T[1]}) :
                   SerializedSize(clip.previous, Clipped(T[1], x))
                      \notin (size + 1)..CharacterBudget
      BY <2>3, <3>1, ClipFits DEF clip
    <3> QED BY <2>0, <3>2
  <2> HIDE DEF size
  <2> QED BY <2>1, <2>2, <2>4 DEF FullBatch, batch, size
<1> QED BY <1>4, <1>6, <1>7

\* The stored summary has a length.
PreviousOK == previous \in Nat

LEMMA PreviousSteps ==
    /\ Init => PreviousOK
    /\ PreviousOK /\ [Receive]_vars => PreviousOK'
BY LoopsAssumption DEF Init, PreviousOK, Receive, vars

(* The batch of a refresh is the oldest turns, never none of them, fits if one marker *)
(* does and wastes nothing, for any conversation, previous summary and lengths        *)
(* (_select_summary_batch, _clip_first_turn_to_budget).                               *)
THEOREM BatchIsFullAlways == Spec => []BatchIsFull
<1>1. ConversationOK /\ PreviousOK => BatchIsFull
  <2> SUFFICES ASSUME ConversationOK, PreviousOK, Regrouped # <<>> PROVE BatchIsFull
    BY DEF BatchIsFull
  <2> DEFINE p == Context.candidates
  <2>1. previous \in Nat /\ Regrouped = GroupTurns(p).turns
    BY DEF PreviousOK, Regrouped
  <2>2. Lists(messages, p) /\ IdsOf(p) = Candidates(messages, 1..Len(messages))
    BY ContextAgrees DEF Context, ConversationOK
  <2> HIDE DEF p
  <2>3. Unbroken(p)
    <3> DEFINE E == TurnEnds(messages, 1..Len(messages)) \ KeptEnds(messages, 1..Len(messages))
    <3>1. E \subseteq TurnEnds(messages, 1..Len(messages))
      OBVIOUS
    <3>2. IdsOf(p) = TurnMessages(messages, 1..Len(messages), E)
      BY <2>2 DEF Candidates
    <3> HIDE DEF E
    <3> QED BY <2>2, <3>1, <3>2, TurnsUnbroken DEF ConversationOK
  <2>4. PICK H : Parts(p, Regrouped, H)
    BY <2>1, <2>3, UnbrokenParts
  <2>5. ChosenBatch = SelectBatch(previous, p)
    BY DEF ChosenBatch, p
  <2> DEFINE T == Regrouped
             batch == SelectBatch(previous, p)
  <2> HIDE DEF T, batch
  <2>6. Parts(p, T, H) /\ T = GroupTurns(p).turns /\ T # <<>>
    BY <2>1, <2>4 DEF T
  <2>7. FullBatch(p, T, previous, batch)
    BY <2>1, <2>2, <2>6, BatchFull DEF batch
  <2> QED BY <2>5, <2>7 DEF BatchIsFull, FullBatch, T, batch, p
<1> QED BY <1>1, ConversationSteps, PreviousSteps, PTL DEF Spec

=============================================================================
