---------------------------- MODULE TurnsProofs ----------------------------
(***************************************************************************)
(* Turns and their window, for any conversation and any settings: to whom  *)
(* a message belongs, what it takes for a turn to leave the window, and    *)
(* that a conversation which grows at its end changes neither the turns    *)
(* it has nor the fate of those that left.                                 *)
(***************************************************************************)
EXTENDS Turns, FiniteSetTheorems, WellFoundedInduction, TLAPS

-----------------------------------------------------------------------------
(* Lengths of texts. *)

(* Numbers have a least one.                                                         *)
LEMMA LeastOne ==
    ASSUME NEW S, S \subseteq Nat, S # {}
    PROVE  \E n \in S : \A m \in S : n <= m
<1> DEFINE R == OpToRel(<, Nat)
<1>1. \A m, n \in Nat : <<n, m>> \notin R => ~(n < m)
  BY Zenon DEF OpToRel
<1>2. IsWellFoundedOn(R, Nat)
  BY NatLessThanWellFounded
<1> HIDE DEF R
<1>3. PICK m \in S : \A n \in S : <<n, m>> \notin R
  BY <1>2, WFMin
<1>4. \A n \in S : n \in Nat /\ m \in Nat /\ ~(n < m)
  BY <1>1, <1>3
<1> QED BY <1>3, <1>4

(* Of some numbers, there is a last one before a number they reach below.            *)
LEMMA LastBelow ==
    ASSUME NEW M, M \subseteq Nat, NEW n \in Nat, NEW w \in M, w < n
    PROVE  \E u \in M : u < n /\ w <= u /\ \A k \in M : ~(u < k /\ k < n)
<1> DEFINE Distances == {n - k : k \in {j \in M : j < n}}
<1>1. Distances \subseteq Nat /\ Distances # {}
  OBVIOUS
<1>2. PICK d \in Distances : \A c \in Distances : d <= c
  <2> HIDE DEF Distances
  <2> QED BY <1>1, LeastOne
<1>3. PICK u \in M : u < n /\ d = n - u
  OBVIOUS
<1>4. ASSUME NEW k \in M, k < n PROVE k <= u
  <2>1. n - k \in Distances
    BY <1>4
  <2>2. n - u <= n - k
    BY <1>2, <1>3, <2>1
  <2> QED BY <1>3, <2>2
<1>5. w <= u
  BY <1>4
<1>6. \A k \in M : ~(u < k /\ k < n)
  BY <1>3, <1>4
<1> QED BY <1>3, <1>5, <1>6

\* The complete turns that left the window.
Dropped(l, S) == TurnEnds(l, S) \ KeptEnds(l, S)

\* The turn of e and those after it, and the text that must fit for e to stay.
Newest(l, S, e) == {f \in TurnEnds(l, S) : f >= e}
RawFrom(l, S, e) == Pending(l, S) \cup TurnMessages(l, S, Newest(l, S, e))

\* The messages of the turns that end beyond one position and up to another.
TurnsWithin(l, S, low, high) == TurnMessages(l, S, {e \in TurnEnds(l, S) : low < e /\ e <= high})

\* A set of messages of l: positions, finitely many, with lengths.
Messages(l, S) == S \subseteq Nat /\ IsFiniteSet(S) /\ \A i \in S : l[i].size \in Nat

(* A text has finitely many characters.                                              *)
LEMMA TextFinite ==
    ASSUME NEW l, NEW T, IsFiniteSet(T), \A i \in T : l[i].size \in Nat
    PROVE  IsFiniteSet(Characters(l, T))
<1> DEFINE Of == [i \in T |-> {i} \X (1..l[i].size)]
           Parts == {{i} \X (1..l[i].size) : i \in T}
<1>1. \A i \in T : IsFiniteSet({i} \X (1..l[i].size))
  <2> TAKE i \in T
  <2>1. l[i].size \in Int /\ 1 \in Int
    OBVIOUS
  <2>2. IsFiniteSet({i})
    BY FS_Singleton
  <2>3. IsFiniteSet(1..l[i].size)
    BY <2>1, FS_Interval
  <2> QED BY <2>2, <2>3, FS_Product
<1>2. Of \in Surjection(T, Parts)
  BY DEF Surjection
<1>3. IsFiniteSet(Parts)
  <2> HIDE DEF Of, Parts
  <2> QED BY <1>2, FS_Surjection
<1>4. \A P \in Parts : IsFiniteSet(P)
  BY <1>1
<1> QED
  <2>1. Characters(l, T) = UNION Parts
    BY DEF Characters
  <2> HIDE DEF Parts
  <2> QED BY <1>3, <1>4, <2>1, FS_UNION

(* Multiplying by a number keeps an order.                                           *)
LEMMA Times == ASSUME NEW s \in Nat, NEW a \in Nat, NEW b \in Nat, a <= b
               PROVE  s * a \in Nat /\ s * b \in Nat /\ s * a <= s * b
<1>1. PICK d \in Nat : b = a + d
  <2>1. b - a \in Nat /\ b = a + (b - a)
    OBVIOUS
  <2> QED BY <2>1
<1>2. s * b = s * a + s * d /\ s * a \in Nat /\ s * d \in Nat
  BY <1>1
<1> QED BY <1>2

(* More messages make a longer text.                                                 *)
LEMMA TextGrows ==
    ASSUME NEW l, NEW m, NEW T, NEW U, IsFiniteSet(U), T \subseteq U,
           \A i \in U : m[i].size \in Nat, \A i \in T : l[i].size = m[i].size
    PROVE  /\ TextSize(l, T) \in Nat /\ TextSize(m, U) \in Nat
           /\ TextSize(l, T) <= TextSize(m, U)
<1> DEFINE Rest(X) == IF X = {} THEN 0 ELSE Cardinality(X) - 1
<1>1. /\ IsFiniteSet(T) /\ Cardinality(T) \in Nat /\ Cardinality(U) \in Nat
      /\ Cardinality(T) <= Cardinality(U)
  BY FS_Subset, FS_CardinalityType
<1>2. Rest(T) \in Nat /\ Rest(U) \in Nat /\ Rest(T) <= Rest(U)
  <2>1. T # {} => Cardinality(T) # 0
    BY <1>1, FS_EmptySet
  <2>2. U # {} => Cardinality(U) # 0
    BY FS_EmptySet
  <2>3. T # {} => U # {}
    OBVIOUS
  <2> QED BY <1>1, <2>1, <2>2, <2>3
<1>3. Characters(l, T) \subseteq Characters(m, U)
  BY DEF Characters
<1>4. IsFiniteSet(Characters(m, U))
  BY TextFinite
<1>5. /\ Cardinality(Characters(l, T)) \in Nat /\ Cardinality(Characters(m, U)) \in Nat
      /\ Cardinality(Characters(l, T)) <= Cardinality(Characters(m, U))
  BY <1>3, <1>4, FS_Subset, FS_CardinalityType
<1>6. /\ TextSize(l, T) = Cardinality(Characters(l, T)) + SeparatorSize * Rest(T)
      /\ TextSize(m, U) = Cardinality(Characters(m, U)) + SeparatorSize * Rest(U)
  BY DEF TextSize
<1> HIDE DEF Rest
<1>7. /\ SeparatorSize * Rest(T) \in Nat /\ SeparatorSize * Rest(U) \in Nat
      /\ SeparatorSize * Rest(T) <= SeparatorSize * Rest(U)
  BY <1>2, Times, TurnsAssumption
<1> QED BY <1>5, <1>6, <1>7

-----------------------------------------------------------------------------
(* Turns, and what it takes for one to leave the window. *)

(* The parts of a conversation.                                                      *)
LEMMA TurnParts ==
    ASSUME NEW l, NEW S, S \subseteq Nat
    PROVE  /\ TurnEnds(l, S) \subseteq S
           /\ \A e \in TurnEnds(l, S) : l[e].role = "assistant"
           /\ \A e \in TurnEnds(l, S) : TurnOf(l, S, e) \subseteq S
           /\ \A e \in TurnEnds(l, S) : e \in TurnOf(l, S, e)
           /\ \A e \in TurnEnds(l, S) : \A u \in TurnOf(l, S, e) :
                 u <= e /\ (u # e => l[u].role = "user")
BY DEF TurnEnds, Closes, TurnOf

(* A message belongs to one turn, or to none when it is pending.                     *)
LEMMA TurnsApart ==
    ASSUME NEW l, NEW S, S \subseteq Nat, NEW e \in TurnEnds(l, S), NEW f \in TurnEnds(l, S),
           NEW i \in TurnOf(l, S, e), NEW j \in S, l[j].role = "assistant"
    PROVE  /\ i \in TurnOf(l, S, f) => e = f
           /\ i \notin Pending(l, S)
           /\ i <= j /\ j <= e => j = e
<1>1. /\ e \in S /\ f \in S /\ i \in S /\ i <= e
      /\ l[e].role = "assistant" /\ l[f].role = "assistant"
  BY TurnParts
<1>2. e \in Nat /\ f \in Nat /\ i \in Nat /\ j \in Nat
  BY <1>1
<1>3. ASSUME NEW g \in TurnEnds(l, S), NEW k \in S, l[k].role = "assistant",
             i \in TurnOf(l, S, g), i <= k, k <= g
      PROVE  k = g
  <2>1. g \in Nat /\ k \in Nat
    BY TurnParts
  <2> QED BY <1>3, <2>1 DEF TurnOf
<1>4. i \in TurnOf(l, S, f) => e = f
  <2> SUFFICES ASSUME i \in TurnOf(l, S, f) PROVE e = f
    OBVIOUS
  <2>1. i <= f
    BY TurnParts
  <2> QED BY <1>1, <1>2, <1>3, <2>1
<1>5. i \notin Pending(l, S)
  BY <1>1 DEF Pending
<1>6. i <= j /\ j <= e => j = e
  BY <1>3
<1> QED BY <1>4, <1>5, <1>6

(* What it means for a turn to have left the window.                                 *)
LEMMA DroppedMeans ==
    ASSUME NEW l, NEW S, NEW e
    PROVE  e \in Dropped(l, S) <=>
              /\ e \in TurnEnds(l, S)
              /\ ~(/\ Cardinality(Newest(l, S, e)) <= RecentTurnLimit
                   /\ TextSize(l, RawFrom(l, S, e)) <= CharacterBudget)
BY DEF Dropped, KeptEnds, Newest, RawFrom

(* The messages that must fit for a turn to stay are of the conversation.            *)
LEMMA RawIsOfS ==
    ASSUME NEW l, NEW S, S \subseteq Nat, NEW e
    PROVE  Newest(l, S, e) \subseteq S /\ RawFrom(l, S, e) \subseteq S
<1>1. Newest(l, S, e) \subseteq TurnEnds(l, S)
  BY DEF Newest
<1>2. Pending(l, S) \subseteq S
  BY DEF Pending
<1> QED BY <1>1, <1>2, TurnParts DEF RawFrom, TurnMessages

(* With a turn, those before it left.                                                *)
LEMMA DroppedBefore ==
    ASSUME NEW l, NEW S, Messages(l, S), NEW f \in Dropped(l, S), NEW e \in TurnEnds(l, S), e <= f
    PROVE  e \in Dropped(l, S)
<1>1. S \subseteq Nat /\ IsFiniteSet(S) /\ \A i \in S : l[i].size \in Nat
  BY DEF Messages
<1>2. TurnEnds(l, S) \subseteq Nat /\ f \in TurnEnds(l, S)
  BY <1>1, TurnParts, DroppedMeans
<1>3. Newest(l, S, f) \subseteq Newest(l, S, e)
  BY <1>2 DEF Newest
<1>4. RawFrom(l, S, f) \subseteq RawFrom(l, S, e)
  BY <1>3 DEF RawFrom, TurnMessages
<1>5. /\ Newest(l, S, e) \subseteq S /\ RawFrom(l, S, e) \subseteq S
      /\ IsFiniteSet(Newest(l, S, e)) /\ IsFiniteSet(RawFrom(l, S, e))
  BY <1>1, RawIsOfS, FS_Subset
<1>6. /\ Cardinality(Newest(l, S, f)) <= Cardinality(Newest(l, S, e))
      /\ Cardinality(Newest(l, S, f)) \in Nat /\ Cardinality(Newest(l, S, e)) \in Nat
  BY <1>3, <1>5, FS_Subset, FS_CardinalityType
<1>7. /\ TextSize(l, RawFrom(l, S, f)) <= TextSize(l, RawFrom(l, S, e))
      /\ TextSize(l, RawFrom(l, S, f)) \in Nat /\ TextSize(l, RawFrom(l, S, e)) \in Nat
  BY <1>1, <1>4, <1>5, TextGrows
<1> QED BY <1>6, <1>7, DroppedMeans, TurnsAssumption

-----------------------------------------------------------------------------
(* A conversation that grows leaves its turns alone. *)

\* A conversation that grows at its end.
Grows(l, S, m, R) ==
    /\ S \subseteq R /\ \A k \in R \ S : \A i \in S : i < k
    /\ \A i \in S : m[i].role = l[i].role /\ m[i].size = l[i].size

(* The turns there were are as they were.                                            *)
LEMMA TurnsStay ==
    ASSUME NEW l, NEW S, NEW m, NEW R, Messages(m, R), Grows(l, S, m, R), NEW e \in S
    PROVE  /\ e \in TurnEnds(m, R) <=> e \in TurnEnds(l, S)
           /\ TurnOf(m, R, e) = TurnOf(l, S, e)
<1>1. /\ R \subseteq Nat /\ S \subseteq R
      /\ \A k \in R : k < e => k \in S
      /\ \A i \in S : m[i].role = l[i].role
  BY DEF Messages, Grows
<1>2. Closes(m, R, e) <=> Closes(l, S, e)
  <2>1. ASSUME Closes(m, R, e) PROVE Closes(l, S, e)
    <3>1. PICK u \in R : u < e /\ m[u].role = "user" /\ \A k \in R : ~(u < k /\ k < e)
      BY <2>1 DEF Closes
    <3>2. u \in S /\ l[u].role = "user" /\ \A k \in S : ~(u < k /\ k < e)
      BY <1>1, <3>1
    <3>3. l[e].role = "assistant"
      BY <1>1, <2>1 DEF Closes
    <3> QED BY <3>1, <3>2, <3>3 DEF Closes
  <2>2. ASSUME Closes(l, S, e) PROVE Closes(m, R, e)
    <3>1. PICK u \in S : u < e /\ l[u].role = "user" /\ \A k \in S : ~(u < k /\ k < e)
      BY <2>2 DEF Closes
    <3>2. u \in R /\ m[u].role = "user" /\ \A k \in R : ~(u < k /\ k < e)
      BY <1>1, <3>1
    <3>3. m[e].role = "assistant"
      BY <1>1, <2>2 DEF Closes
    <3> QED BY <3>1, <3>2, <3>3 DEF Closes
  <2> QED BY <2>1, <2>2
<1>3. \A u \in R : u < e /\ (\A k \in R : u <= k /\ k < e => m[k].role = "user")
         <=> u \in S /\ u < e /\ (\A k \in S : u <= k /\ k < e => l[k].role = "user")
  BY <1>1
<1>4. TurnOf(m, R, e) = TurnOf(l, S, e)
  BY <1>1, <1>3 DEF TurnOf
<1> QED BY <1>1, <1>2, <1>4 DEF TurnEnds

(* A turn that left does not come back.                                              *)
LEMMA DroppedStays ==
    ASSUME NEW l, NEW S, NEW m, NEW R, Messages(l, S), Messages(m, R), Grows(l, S, m, R),
           \A i \in R : m[i].role \in {"user", "assistant"},
           NEW e \in Dropped(l, S)
    PROVE  e \in Dropped(m, R)
<1>1. /\ R \subseteq Nat /\ S \subseteq R /\ IsFiniteSet(R) /\ \A i \in R : m[i].size \in Nat
      /\ \A k \in R \ S : \A i \in S : i < k
      /\ \A i \in S : m[i].role = l[i].role /\ m[i].size = l[i].size
  BY DEF Messages, Grows
<1>2. e \in TurnEnds(l, S) /\ TurnEnds(l, S) \subseteq S /\ e \in S
  <2>1. e \in TurnEnds(l, S)
    BY DroppedMeans
  <2>2. TurnEnds(l, S) \subseteq S
    BY DEF TurnEnds
  <2> QED BY <2>1, <2>2
<1>3. \A f \in TurnEnds(l, S) : f \in TurnEnds(m, R) /\ TurnOf(m, R, f) = TurnOf(l, S, f)
  BY <1>2, TurnsStay
<1>4. Newest(l, S, e) \subseteq Newest(m, R, e)
  BY <1>3 DEF Newest
<1>5. TurnMessages(l, S, Newest(l, S, e)) \subseteq TurnMessages(m, R, Newest(m, R, e))
  BY <1>3, <1>4 DEF TurnMessages, Newest
<1>6. Pending(l, S) \subseteq RawFrom(m, R, e)
  <2> SUFFICES ASSUME NEW u \in Pending(l, S), u \notin Pending(m, R)
               PROVE  \E f \in Newest(m, R, e) : u \in TurnOf(m, R, f)
    BY DEF RawFrom, TurnMessages
  <2>1. u \in S /\ u \in R /\ u \in Nat /\ \A k \in S : k >= u => l[k].role = "user"
    BY <1>1 DEF Pending
  <2> DEFINE After == {k \in R : k >= u /\ m[k].role = "assistant"}
  <2>2. After # {}
    BY <1>1, <2>1 DEF Pending
  <2>3. After \subseteq Nat
    BY <1>1
  <2>4. PICK f \in After : \A k \in After : f <= k
    <3> HIDE DEF After
    <3> QED BY <2>2, <2>3, LeastOne
  <2>5. f \in R /\ f \notin S /\ f >= u /\ f # u /\ m[f].role = "assistant" /\ f \in Nat
    BY <1>1, <2>1
  <2>6. \A k \in R : u <= k /\ k < f => m[k].role = "user"
    BY <1>1, <2>1, <2>4, <2>5
  <2>7. f \in TurnEnds(m, R) /\ e < f
    <3>1. e < f
      BY <1>1, <1>2, <2>5
    <3>2. u < f
      BY <2>1, <2>5
    <3>3. PICK w \in R : w < f /\ u <= w /\ \A k \in R : ~(w < k /\ k < f)
      <4>1. R \subseteq Nat /\ f \in Nat /\ u \in R /\ u < f
        BY <1>1, <2>1, <2>5, <3>2
      <4> QED BY ONLY <4>1, LastBelow
    <3>4. m[w].role = "user"
      BY <2>6, <3>3
    <3> QED BY <2>5, <3>1, <3>3, <3>4 DEF TurnEnds, Closes
  <2>8. u \in TurnOf(m, R, f)
    BY <2>1, <2>5, <2>6 DEF TurnOf
  <2>9. f \in Newest(m, R, e)
    BY <1>1, <1>2, <2>5, <2>7 DEF Newest
  <2> QED BY <2>8, <2>9
<1>7. RawFrom(l, S, e) \subseteq RawFrom(m, R, e)
  BY <1>5, <1>6 DEF RawFrom
<1>8. /\ Newest(m, R, e) \subseteq R /\ RawFrom(m, R, e) \subseteq R
      /\ IsFiniteSet(Newest(m, R, e)) /\ IsFiniteSet(RawFrom(m, R, e))
  BY <1>1, RawIsOfS, FS_Subset
<1>9. /\ Cardinality(Newest(l, S, e)) <= Cardinality(Newest(m, R, e))
      /\ Cardinality(Newest(l, S, e)) \in Nat /\ Cardinality(Newest(m, R, e)) \in Nat
  BY <1>4, <1>8, FS_Subset, FS_CardinalityType
<1>10. RawFrom(l, S, e) \subseteq S
  BY <1>1, RawIsOfS
<1>11. /\ TextSize(l, RawFrom(l, S, e)) <= TextSize(m, RawFrom(m, R, e))
       /\ TextSize(l, RawFrom(l, S, e)) \in Nat /\ TextSize(m, RawFrom(m, R, e)) \in Nat
  BY <1>1, <1>7, <1>8, <1>10, TextGrows
<1> QED BY <1>2, <1>3, <1>9, <1>11, DroppedMeans, TurnsAssumption

(* So the turns up to a turn that left stay the same.                                *)
LEMMA WithinStays ==
    ASSUME NEW l, NEW S, NEW m, NEW R, Messages(m, R), Grows(l, S, m, R),
           NEW low \in Nat, NEW high, high = 0 \/ high \in S
    PROVE  TurnsWithin(m, R, low, high) = TurnsWithin(l, S, low, high)
<1>1. /\ R \subseteq Nat /\ S \subseteq R
      /\ \A k \in R \ S : \A i \in S : i < k
  BY DEF Messages, Grows
<1>2. TurnEnds(m, R) \subseteq R /\ TurnEnds(l, S) \subseteq S
  BY DEF TurnEnds
<1>3. \A f \in S : /\ f \in TurnEnds(m, R) <=> f \in TurnEnds(l, S)
                   /\ TurnOf(m, R, f) = TurnOf(l, S, f)
  BY TurnsStay
<1>4. {f \in TurnEnds(m, R) : low < f /\ f <= high} = {f \in TurnEnds(l, S) : low < f /\ f <= high}
  <2>1. CASE high = 0
    <3>1. \A f \in Nat : ~(low < f /\ f <= high)
      BY <2>1
    <3> QED BY <1>1, <1>2, <3>1
  <2>2. CASE high \in S
    <3>1. \A f \in R : f <= high => f \in S
      <4> SUFFICES ASSUME NEW f \in R, f <= high, f \notin S PROVE FALSE
        OBVIOUS
      <4>1. high < f /\ high \in Nat /\ f \in Nat
        BY <1>1, <2>2
      <4> QED BY <4>1
    <3> QED BY <1>1, <1>2, <1>3, <3>1
  <2> QED BY <2>1, <2>2
<1>5. \A f \in {g \in TurnEnds(l, S) : low < g /\ g <= high} : TurnOf(m, R, f) = TurnOf(l, S, f)
  BY <1>2, <1>3
<1> QED BY <1>4, <1>5 DEF TurnsWithin, TurnMessages

-----------------------------------------------------------------------------
(* The candidates for the summary. *)

(* The candidates beyond a turn that left are whole turns, and the turns a task finds in *)
(* them are those of the conversation.                                               *)
LEMMA CandidateTurns ==
    ASSUME NEW l, NEW S, Messages(l, S), NEW c, c = 0 \/ c \in Dropped(l, S),
           \A k \in S : l[k].role = "assistant" => k \in TurnEnds(l, S),
           \A i \in S : l[i].role \in {"user", "assistant"},
           0 \notin S,
           NEW U, U = {i \in Candidates(l, S) : i > c}
    PROVE  /\ TurnEnds(l, U) = {e \in Dropped(l, S) : e > c}
           /\ \A e \in TurnEnds(l, U) : TurnOf(l, U, e) = TurnOf(l, S, e)
<1>1. S \subseteq Nat
  BY DEF Messages
<1>2. /\ TurnEnds(l, S) \subseteq S /\ Dropped(l, S) \subseteq TurnEnds(l, S)
      /\ c \in Nat
  <2>1. TurnEnds(l, S) \subseteq S
    BY DEF TurnEnds
  <2>2. Dropped(l, S) \subseteq TurnEnds(l, S)
    BY DEF Dropped
  <2>3. c \in Dropped(l, S) => c \in Nat
    BY <1>1, <2>1, <2>2
  <2>4. c = 0 => c \in Nat
    OBVIOUS
  <2> QED BY <2>1, <2>2, <2>3, <2>4
<1>3. Candidates(l, S) = TurnMessages(l, S, Dropped(l, S))
  BY DEF Candidates, Dropped
<1>4. U \subseteq S
  <2>1. \A e \in Dropped(l, S) : TurnOf(l, S, e) \subseteq S
    BY <1>1, <1>2, TurnParts
  <2> QED BY <1>3, <2>1 DEF TurnMessages
<1>5. ASSUME NEW e \in Dropped(l, S), e > c, NEW i \in TurnOf(l, S, e)
      PROVE  i \in U
  <2>1. i \in Candidates(l, S) /\ i \in S
    <3>1. i \in Candidates(l, S)
      BY <1>3 DEF TurnMessages
    <3>2. TurnOf(l, S, e) \subseteq S
      BY <1>1, <1>2, TurnParts
    <3> QED BY <3>1, <3>2
  <2>2. i > c
    <3>1. CASE c = 0
      BY <1>1, <2>1, <3>1
    <3>2. CASE c \in Dropped(l, S)
      <4>1. c \in S /\ l[c].role = "assistant"
        BY <1>1, <1>2, <3>2, TurnParts
      <4>2. ~(i <= c)
        BY <1>1, <1>2, <1>5, <4>1, TurnsApart
      <4> QED BY <1>1, <1>2, <2>1, <4>2
    <3> QED BY <3>1, <3>2
  <2> QED BY <2>1, <2>2
<1>6. ASSUME NEW i \in U
      PROVE  \E e \in Dropped(l, S) : e > c /\ i \in TurnOf(l, S, e)
  <2>1. PICK e \in Dropped(l, S) : i \in TurnOf(l, S, e)
    BY <1>3 DEF TurnMessages
  <2>2. i <= e /\ i > c /\ i \in Nat /\ e \in Nat
    BY <1>1, <1>2, <1>4, <2>1, TurnParts
  <2> QED BY <1>2, <2>1, <2>2
<1>7. ASSUME NEW e \in U, l[e].role = "assistant"
      PROVE  e \in Dropped(l, S) /\ e > c
  <2>1. PICK f \in Dropped(l, S) : f > c /\ e \in TurnOf(l, S, f)
    BY <1>6
  <2>2. e = f
    <3>1. e # f => l[e].role = "user"
      BY <1>1, <1>2, <2>1, TurnParts
    <3> QED BY <1>7, <3>1
  <2> QED BY <2>1, <2>2
<1>8. ASSUME NEW e \in Dropped(l, S), e > c
      PROVE  /\ e \in U
             /\ Closes(l, U, e)
             /\ TurnOf(l, U, e) = TurnOf(l, S, e)
  <2>1. e \in TurnOf(l, S, e) /\ e \in S /\ e \in Nat
    BY <1>1, <1>2, TurnParts
  <2>2. TurnOf(l, S, e) \subseteq U
    BY <1>5, <1>8
  <2>3. Closes(l, S, e)
    BY <1>2 DEF TurnEnds
  <2>4. PICK u \in S : u < e /\ l[u].role = "user" /\ \A k \in S : ~(u < k /\ k < e)
    BY <2>3 DEF Closes
  <2>5. u \in TurnOf(l, S, e)
    <3>1. \A k \in S : u <= k /\ k < e => k = u
      BY <1>1, <2>1, <2>4
    <3> QED BY <2>4, <3>1 DEF TurnOf
  <2>6. Closes(l, U, e)
    BY <1>4, <2>2, <2>3, <2>4, <2>5 DEF Closes
  <2>7. TurnOf(l, S, e) \subseteq TurnOf(l, U, e)
    BY <1>4, <2>2 DEF TurnOf
  <2>8. TurnOf(l, U, e) \subseteq TurnOf(l, S, e)
    <3> SUFFICES ASSUME NEW i \in U, i < e,
                        \A k \in U : i <= k /\ k < e => l[k].role = "user"
                 PROVE  i \in TurnOf(l, S, e)
      BY <2>1 DEF TurnOf
    <3>1. PICK f \in Dropped(l, S) : f > c /\ i \in TurnOf(l, S, f)
      BY <1>6
    <3>2. f \in U /\ f \in Nat /\ i <= f /\ l[f].role = "assistant" /\ i \in Nat
      BY <1>1, <1>2, <1>4, <1>5, <3>1, TurnParts
    <3>3. ~(f < e)
      BY <3>2
    <3>4. e <= f /\ l[e].role = "assistant"
      <4>1. l[e].role = "assistant"
        BY <2>3 DEF Closes
      <4> QED BY <2>1, <3>2, <3>3, <4>1
    <3>5. e \in TurnEnds(l, S) /\ f \in TurnEnds(l, S) /\ i <= e
      BY <1>2, <2>1, <3>1, <3>2
    <3>6. i <= e /\ e <= f => e = f
      BY <1>1, <2>1, <3>1, <3>4, <3>5, TurnsApart
    <3>7. e = f
      BY <3>4, <3>5, <3>6
    <3> QED BY <3>1, <3>7
  <2> QED BY <2>1, <2>2, <2>6, <2>7, <2>8
<1>9. TurnEnds(l, U) = {e \in Dropped(l, S) : e > c}
  BY <1>7, <1>8 DEF TurnEnds, Closes
<1> QED BY <1>8, <1>9

============================================================================
