------------------------ MODULE RankPrograms_proofs -------------------------
(***************************************************************************)
(* Proofs about programs of assignment 1: the distances of the maze are    *)
(* shortest, for every maze and every number of ranks; a search finds      *)
(* every whole word, and nothing else but at the cuts between the chunks,  *)
(* for every file, word and size of a chunk; and the bouncing balls end    *)
(* where a simulation without ranks puts them, for every torus and number  *)
(* of balls, steps and ranks.                                              *)
(***************************************************************************)
EXTENDS MazeEscape, WordSearch, BouncingBalls, FiniteSetTheorems, SequenceTheorems,
        WellFoundedInduction, TLAPS

(* The natural numbers are well founded, and so each set of them that is not *)
(* empty has a least element.                                                *)
Less == {ss \in Nat \X Nat : ss[1] < ss[2]}

LEMMA LessWellFounded == IsWellFoundedOn(Less, Nat)
BY NatLessThanWellFounded DEF OpToRel, Less

LEMMA LeastNatural ==
    ASSUME NEW S \in SUBSET Nat, S # {}
    PROVE  \E m \in S : \A n \in S : m <= n
<1>1. PICK m \in S : \A n \in S : ~(<<n, m>> \in Less)
  BY LessWellFounded, WFMin
<1>2. \A n \in S : ~(n < m)
  BY <1>1 DEF Less
<1> QED BY <1>2

LEMMA MinIs ==
    ASSUME NEW S \in SUBSET Nat, NEW m \in S, \A k \in S : m <= k
    PROVE  Min(S) = m
<1>1. \A x \in S : (\A y \in S : x <= y) => x = m
  OBVIOUS
<1>2. Min(S) \in S /\ \A y \in S : Min(S) <= y
  BY DEF Min
<1> QED BY <1>1, <1>2

-----------------------------------------------------------------------------
(* Maze escape: balls around the exit *)

Pred(S) == {u \in Node : \E v \in S : <<u, v>> \in Moves /\ v \notin blocked}

(* Within is a function that satisfies its recursive definition: one on      *)
(* 0 .. n is extended by one value to 0 .. n + 1.                            *)
LEMMA WithinDef ==
    Within = [k \in 0 .. NumNodes |->
                 IF k = 0 THEN {R} ELSE Within[k - 1] \cup Pred(Within[k - 1])]
<1> DEFINE Is(W, n) ==
               W = [k \in 0 .. n |-> IF k = 0 THEN {R} ELSE W[k - 1] \cup Pred(W[k - 1])]
           Bad == {n \in Nat : ~ \E W : Is(W, n)}
<1>1. Bad = {}
  <2> SUFFICES ASSUME Bad # {} PROVE FALSE
    OBVIOUS
  <2>1. PICK n \in Bad : \A m \in Bad : n <= m
    <3>1. Bad \in SUBSET Nat
      OBVIOUS
    <3> QED BY <3>1, LeastNatural
  <2>2. n # 0
    <3>1. Is([k \in 0 .. 0 |-> {R}], 0)
      OBVIOUS
    <3> QED BY <3>1
  <2>3. n \in Nat /\ n - 1 \in Nat /\ n - 1 \notin Bad
    <3>1. n \in Nat
      OBVIOUS
    <3>2. n - 1 \in Nat /\ ~(n <= n - 1)
      BY <2>2, <3>1
    <3> HIDE DEF Bad
    <3> QED BY <2>1, <3>1, <3>2
  <2>4. PICK W : Is(W, n - 1)
    BY <2>3
  <2> DEFINE V == [k \in 0 .. n |-> IF k < n THEN W[k] ELSE W[n - 1] \cup Pred(W[n - 1])]
             rhs == [k \in 0 .. n |-> IF k = 0 THEN {R} ELSE V[k - 1] \cup Pred(V[k - 1])]
  <2>5. \A k \in 0 .. n - 1 : W[k] = IF k = 0 THEN {R} ELSE W[k - 1] \cup Pred(W[k - 1])
    <3>1. W = [k \in 0 .. n - 1 |-> IF k = 0 THEN {R} ELSE W[k - 1] \cup Pred(W[k - 1])]
      BY <2>4
    <3> QED BY <3>1
  <2>6. ASSUME NEW k \in 0 .. n PROVE V[k] = IF k = 0 THEN {R} ELSE V[k - 1] \cup Pred(V[k - 1])
    <3>1. CASE k = 0
      <4>1. 0 \in 0 .. n - 1 /\ V[0] = W[0]
        BY <2>2, <2>3
      <4> QED BY <2>5, <3>1, <4>1
    <3>2. CASE k # 0
      <4>1. k - 1 \in 0 .. n /\ k - 1 < n
        BY <2>3, <3>2
      <4>2. V[k - 1] = W[k - 1]
        BY <4>1
      <4>3. V[k] = W[k - 1] \cup Pred(W[k - 1])
        <5>1. CASE k < n
          <6>1. V[k] = W[k] /\ k \in 0 .. n - 1
            BY <2>3, <5>1
          <6> QED BY <2>5, <3>2, <6>1
        <5>2. CASE ~(k < n)
          <6>1. k = n
            BY <2>3, <5>2
          <6> QED BY <5>2, <6>1
        <5> QED BY <5>1, <5>2
      <4> HIDE DEF V
      <4> QED BY <3>2, <4>2, <4>3
    <3> QED BY <3>1, <3>2
  <2>7. V = rhs
    <3>1. \A k \in 0 .. n : V[k] = rhs[k]
      BY <2>6
    <3> QED BY <3>1
  <2>8. Is(V, n)
    BY <2>7
  <2> QED BY <2>1, <2>8
<1>2. PICK W : Is(W, NumNodes)
  <2>1. NumNodes \in Nat
    BY MazeAssumption
  <2> QED BY <1>1, <2>1
<1> QED BY <1>2 DEF Within, Pred

LEMMA WithinSteps ==
    /\ Within[0] = {R}
    /\ \A k \in 1 .. NumNodes : Within[k] = Within[k - 1] \cup Pred(Within[k - 1])
<1> DEFINE W == Within
<1>1. W = [k \in 0 .. NumNodes |-> IF k = 0 THEN {R} ELSE W[k - 1] \cup Pred(W[k - 1])]
  BY WithinDef
<1> HIDE DEF W
<1>2. \A k \in 0 .. NumNodes : W[k] = IF k = 0 THEN {R} ELSE W[k - 1] \cup Pred(W[k - 1])
  BY <1>1
<1>3. 0 \in 0 .. NumNodes /\ \A k \in 1 .. NumNodes : k \in 0 .. NumNodes /\ k # 0
  BY MazeAssumption
<1>4. W[0] = {R}
  BY <1>2, <1>3
<1>5. \A k \in 1 .. NumNodes : W[k] = W[k - 1] \cup Pred(W[k - 1])
  BY <1>2, <1>3
<1> QED BY <1>4, <1>5 DEF W

LEMMA WithinNodes ==
    ASSUME R \in Node
    PROVE  \A k \in 0 .. NumNodes : Within[k] \subseteq Node
<1> DEFINE Bad == {k \in 0 .. NumNodes : ~(Within[k] \subseteq Node)}
<1> SUFFICES ASSUME Bad # {} PROVE FALSE
  OBVIOUS
<1>1. PICK k \in Bad : \A m \in Bad : k <= m
  <2>1. Bad \in SUBSET Nat
    BY MazeAssumption
  <2> QED BY <2>1, LeastNatural
<1>2. k # 0
  BY <1>1, WithinSteps
<1>3. k \in 1 .. NumNodes /\ k - 1 \in 0 .. NumNodes /\ ~(k <= k - 1)
  BY <1>2, MazeAssumption
<1>4. Within[k - 1] \subseteq Node
  BY <1>1, <1>3
<1>5. Within[k] \subseteq Node
  BY <1>3, <1>4, WithinSteps DEF Pred
<1> QED BY <1>5

(* As long as every ball is larger than the one before, there is a node for  *)
(* each of them.                                                             *)
LEMMA BallsGrow ==
    ASSUME R \in Node, NEW n \in 0 .. NumNodes,
           \A j \in 1 .. n : Within[j] # Within[j - 1]
    PROVE  n < NumNodes
<1>1. \A k \in 0 .. NumNodes : IsFiniteSet(Within[k]) /\ Cardinality(Within[k]) \in 0 .. NumNodes
  <2>1. IsFiniteSet(Node) /\ Cardinality(Node) = NumNodes
    <3>1. 0 \in Int /\ NumNodes - 1 \in Int /\ NumNodes \in Nat /\ ~(0 > NumNodes - 1)
      BY MazeAssumption
    <3>2. IsFiniteSet(0 .. NumNodes - 1)
          /\ Cardinality(0 .. NumNodes - 1) =
                 IF 0 > NumNodes - 1 THEN 0 ELSE (NumNodes - 1) - 0 + 1
      BY <3>1, FS_Interval
    <3> QED BY <3>1, <3>2 DEF Node
  <2> SUFFICES ASSUME NEW k \in 0 .. NumNodes
               PROVE  IsFiniteSet(Within[k]) /\ Cardinality(Within[k]) \in 0 .. NumNodes
    OBVIOUS
  <2>2. IsFiniteSet(Within[k]) /\ Cardinality(Within[k]) <= Cardinality(Node)
    BY <2>1, WithinNodes, FS_Subset
  <2>3. Cardinality(Within[k]) \in Nat
    BY <2>2, FS_CardinalityType
  <2> QED BY <2>1, <2>2, <2>3, MazeAssumption
<1> DEFINE Bad == {k \in 0 .. n : ~(k < Cardinality(Within[k]))}
<1>2. Bad = {}
  <2> SUFFICES ASSUME Bad # {} PROVE FALSE
    OBVIOUS
  <2>1. PICK k \in Bad : \A m \in Bad : k <= m
    <3>1. Bad \in SUBSET Nat
      BY MazeAssumption
    <3> QED BY <3>1, LeastNatural
  <2>2. k # 0
    <3>1. Cardinality(Within[0]) = 1
      BY FS_Singleton, WithinSteps
    <3>2. 0 \notin Bad
      BY <3>1
    <3> QED BY <2>1, <3>2
  <2>3. k \in 1 .. n /\ k \in 1 .. NumNodes /\ k \in 0 .. NumNodes /\ k - 1 \in 0 .. NumNodes
        /\ k - 1 \in 0 .. n /\ ~(k <= k - 1)
    BY <2>2, MazeAssumption
  <2>4. k - 1 < Cardinality(Within[k - 1])
    BY <2>1, <2>3
  <2>5. Within[k - 1] \in SUBSET Within[k] /\ Within[k] # Within[k - 1]
    BY <2>3, WithinSteps
  <2>6. Cardinality(Within[k - 1]) <= Cardinality(Within[k])
        /\ Cardinality(Within[k]) # Cardinality(Within[k - 1])
    BY <1>1, <2>3, <2>5, FS_Subset
  <2>7. Cardinality(Within[k]) \in Nat /\ Cardinality(Within[k - 1]) \in Nat /\ k \in Nat
    BY <1>1, <2>3, MazeAssumption
  <2>8. k < Cardinality(Within[k])
    BY <2>4, <2>6, <2>7
  <2> QED BY <2>8
<1>3. n < Cardinality(Within[n])
  BY <1>2, MazeAssumption
<1> QED BY <1>1, <1>3, MazeAssumption

(* A ball that has stopped growing does not grow again.                      *)
LEMMA BallsStay ==
    ASSUME NEW j \in 1 .. NumNodes, Within[j] = Within[j - 1]
    PROVE  \A k \in j .. NumNodes : Within[k] = Within[j]
<1> DEFINE Bad == {k \in j .. NumNodes : Within[k] # Within[j]}
<1> SUFFICES ASSUME Bad # {} PROVE FALSE
  OBVIOUS
<1>1. PICK k \in Bad : \A m \in Bad : k <= m
  <2>1. Bad \in SUBSET Nat
    BY MazeAssumption
  <2> QED BY <2>1, LeastNatural
<1>2. k # j
  OBVIOUS
<1>3. k \in 1 .. NumNodes /\ k - 1 \in j .. NumNodes /\ ~(k <= k - 1)
  BY <1>2, MazeAssumption
<1>4. Within[k - 1] = Within[j]
  BY <1>1, <1>3
<1>5. Within[k] = Within[j - 1] \cup Pred(Within[j - 1])
  BY <1>3, <1>4, WithinSteps
<1>6. Within[k] = Within[j]
  BY <1>5, WithinSteps
<1> QED BY <1>6

LEMMA Saturated ==
    ASSUME R \in Node
    PROVE  Pred(Within[NumNodes]) \subseteq Within[NumNodes]
<1>1. NumNodes \in Nat \ {0} /\ NumNodes \in 0 .. NumNodes
  BY MazeAssumption
<1>2. PICK j \in 1 .. NumNodes : Within[j] = Within[j - 1]
  BY <1>1, BallsGrow
<1>3. Within[NumNodes] = Within[j]
  BY <1>1, <1>2, BallsStay
<1>4. Within[j] = Within[j] \cup Pred(Within[j])
  BY <1>2, WithinSteps
<1> QED BY <1>3, <1>4

-----------------------------------------------------------------------------
(* Layers: the nodes at exactly a distance *)

(* The search may go on for more levels than there are nodes.                *)
Reach(l) == IF l <= NumNodes THEN Within[l] ELSE Within[NumNodes]
Layer(l) == IF l = 0 THEN {R} ELSE Reach(l) \ Reach(l - 1)

LEMMA ReachSteps ==
    ASSUME R \in Node
    PROVE  /\ Reach(0) = {R}
           /\ \A l \in Nat : Reach(l + 1) = Reach(l) \cup Pred(Reach(l))
<1>1. Reach(0) = {R}
  BY WithinSteps, MazeAssumption DEF Reach
<1>2. ASSUME NEW l \in Nat  PROVE Reach(l + 1) = Reach(l) \cup Pred(Reach(l))
  <2>1. CASE l + 1 <= NumNodes
    <3>1. l + 1 \in 1 .. NumNodes /\ (l + 1) - 1 = l /\ l <= NumNodes
      BY <2>1, MazeAssumption
    <3>2. Within[l + 1] = Within[l] \cup Pred(Within[l])
      BY <3>1, WithinSteps
    <3> QED BY <2>1, <3>1, <3>2 DEF Reach
  <2>2. CASE ~(l + 1 <= NumNodes)
    <3>1. Reach(l) = Within[NumNodes] /\ Reach(l + 1) = Within[NumNodes]
      <4>1. l <= NumNodes => l = NumNodes
        BY <2>2, MazeAssumption
      <4> QED BY <2>2, <4>1 DEF Reach
    <3> QED BY <3>1, Saturated
  <2> QED BY <2>1, <2>2
<1> QED BY <1>1, <1>2

LEMMA ReachNodes ==
    ASSUME R \in Node, NEW l \in Nat
    PROVE  Reach(l) \subseteq Node
<1>1. l <= NumNodes => l \in 0 .. NumNodes
  OBVIOUS
<1>2. NumNodes \in 0 .. NumNodes
  BY MazeAssumption
<1> QED BY <1>1, <1>2, WithinNodes DEF Reach

LEMMA ReachGrows ==
    ASSUME R \in Node, NEW k \in Nat, NEW l \in Nat, k <= l
    PROVE  Reach(k) \subseteq Reach(l)
<1> DEFINE Bad == {n \in Nat : k <= n /\ ~(Reach(k) \subseteq Reach(n))}
<1>1. Bad = {}
  <2> SUFFICES ASSUME Bad # {} PROVE FALSE
    OBVIOUS
  <2>1. PICK n \in Bad : \A m \in Bad : n <= m
    <3>1. Bad \in SUBSET Nat
      OBVIOUS
    <3> QED BY <3>1, LeastNatural
  <2>2. n # k /\ k <= n /\ n \in Nat
    OBVIOUS
  <2>3. n - 1 \in Nat /\ k <= n - 1 /\ ~(n <= n - 1) /\ (n - 1) + 1 = n
    BY <2>2
  <2>4. Reach(k) \subseteq Reach(n - 1)
    BY <2>1, <2>3
  <2>5. Reach(n - 1) \subseteq Reach((n - 1) + 1)
    BY <2>3, ReachSteps
  <2>6. Reach(k) \subseteq Reach(n)
    BY <2>3, <2>4, <2>5
  <2> QED BY <2>6
<1> QED BY <1>1

(* A layer has the nodes from which one move leads to the layer before and   *)
(* which are not closer.                                                     *)
LEMMA LayerNext ==
    ASSUME R \in Node, NEW l \in Nat
    PROVE  /\ Reach(l + 1) = Reach(l) \cup Layer(l + 1)
           /\ Layer(l + 1) = Pred(Layer(l)) \ Reach(l)
           /\ Layer(l) \subseteq Reach(l)
<1>1. l + 1 # 0 /\ (l + 1) - 1 = l
  OBVIOUS
<1>2. Layer(l + 1) = Reach(l + 1) \ Reach(l)
  BY <1>1 DEF Layer
<1>3. Reach(l + 1) = Reach(l) \cup Pred(Reach(l))
  BY ReachSteps
<1>4. Layer(l) \subseteq Reach(l) /\ Pred(Reach(l)) \subseteq Reach(l) \cup Pred(Layer(l))
  <2>1. CASE l = 0
    <3>1. Layer(l) = Reach(l)
      BY <2>1, ReachSteps DEF Layer
    <3> QED BY <3>1
  <2>2. CASE l # 0
    <3>1. l - 1 \in Nat /\ (l - 1) + 1 = l
      BY <2>2
    <3>2. Reach(l) = Reach(l - 1) \cup Pred(Reach(l - 1))
      BY <3>1, ReachSteps
    <3>3. Layer(l) = Reach(l) \ Reach(l - 1)
      BY <2>2 DEF Layer
    <3> HIDE <2>2
    <3> QED BY <3>2, <3>3 DEF Pred
  <2> QED BY <2>1, <2>2
<1>5. Pred(Layer(l)) \subseteq Pred(Reach(l))
  BY <1>4 DEF Pred
<1> QED BY <1>2, <1>3, <1>4, <1>5

LEMMA LayersApart ==
    ASSUME R \in Node, NEW k \in Nat, NEW l \in Nat, NEW v \in Layer(k), v \in Layer(l)
    PROVE  k = l
<1>1. ASSUME NEW a \in Nat, NEW b \in Nat, a < b, v \in Layer(a), v \in Layer(b)  PROVE FALSE
  <2>1. b - 1 \in Nat /\ a <= b - 1 /\ b # 0
    BY <1>1
  <2>2. v \notin Reach(b - 1)
    BY <1>1, <2>1 DEF Layer
  <2>3. v \in Reach(a)
    BY <1>1, LayerNext
  <2> QED BY <2>1, <2>2, <2>3, ReachGrows
<1>2. ~(k < l) /\ ~(l < k)
  BY <1>1
<1> QED BY <1>2

LEMMA InSomeLayer ==
    ASSUME R \in Node, NEW l \in Nat, NEW v \in Reach(l)
    PROVE  \E k \in 0 .. l : v \in Layer(k)
<1> DEFINE S == {k \in Nat : v \in Reach(k)}
<1>1. PICK k \in S : \A m \in S : k <= m
  <2>1. S \in SUBSET Nat /\ S # {}
    OBVIOUS
  <2> QED BY <2>1, LeastNatural
<1>2. k \in Nat /\ v \in Reach(k) /\ k <= l
  BY <1>1
<1>3. v \in Layer(k)
  <2>1. CASE k = 0
    BY <1>2, <2>1, ReachSteps DEF Layer
  <2>2. CASE k # 0
    <3>1. k - 1 \in Nat /\ ~(k <= k - 1)
      BY <1>2, <2>2
    <3>2. v \notin Reach(k - 1)
      BY <1>1, <3>1
    <3> QED BY <1>2, <2>2, <3>2 DEF Layer
  <2> QED BY <2>1, <2>2
<1> QED BY <1>2, <1>3

(* No layer is farther away than there are nodes.                            *)
LEMMA LayersAreNear ==
    ASSUME R \in Node, NEW l \in Nat, NEW v \in Layer(l)
    PROVE  l < NumNodes
<1> SUFFICES ASSUME ~(l < NumNodes) PROVE FALSE
  OBVIOUS
<1>1. NumNodes \in Nat \ {0} /\ l # 0 /\ NumNodes <= l
  BY MazeAssumption
<1>2. v \in Reach(l) /\ v \notin Reach(l - 1)
  BY <1>1 DEF Layer
<1>3. l = NumNodes
  <2>1. SUFFICES ASSUME l # NumNodes PROVE FALSE
    OBVIOUS
  <2>2. NumNodes <= l - 1 /\ ~(l <= NumNodes)
    BY <1>1, <2>1
  <2>3. Reach(l) = Within[NumNodes]
    BY <2>2 DEF Reach
  <2>4. Reach(l - 1) = Within[NumNodes]
    <3>1. l - 1 <= NumNodes => l - 1 = NumNodes
      BY <1>1, <2>2
    <3> QED BY <3>1 DEF Reach
  <2> QED BY <1>2, <2>3, <2>4
<1>4. NumNodes \in 0 .. NumNodes /\ ~(NumNodes < NumNodes)
  BY <1>1
<1>5. PICK j \in 1 .. NumNodes : Within[j] = Within[j - 1]
  BY <1>4, BallsGrow
<1>6. \A k \in j .. NumNodes : Within[k] = Within[j]
  BY <1>5, BallsStay
<1>7. v \in Within[NumNodes] /\ v \notin Within[NumNodes - 1]
  <2>1. NumNodes <= NumNodes /\ NumNodes - 1 <= NumNodes
    BY <1>1
  <2> QED BY <1>2, <1>3, <2>1 DEF Reach
<1>8. CASE j = NumNodes
  BY <1>5, <1>7, <1>8
<1>9. CASE j # NumNodes
  <2>1. NumNodes \in j .. NumNodes /\ NumNodes - 1 \in j .. NumNodes
    BY <1>1, <1>9
  <2> QED BY <1>6, <1>7, <2>1
<1> QED BY <1>8, <1>9

(* After an empty layer there are only empty ones.                           *)
LEMMA LayersEnd ==
    ASSUME R \in Node, NEW l \in Nat, Layer(l) = {}, NEW n \in Nat
    PROVE  Reach(n) \subseteq Reach(l)
<1> DEFINE Bad == {m \in Nat : l <= m /\ Reach(m) # Reach(l)}
<1>1. Bad = {}
  <2> SUFFICES ASSUME Bad # {} PROVE FALSE
    OBVIOUS
  <2>1. PICK m \in Bad : \A k \in Bad : m <= k
    <3>1. Bad \in SUBSET Nat
      OBVIOUS
    <3> QED BY <3>1, LeastNatural
  <2>2. m # l /\ l <= m /\ m \in Nat /\ l # 0
    BY DEF Layer
  <2>3. m - 1 \in Nat /\ l <= m - 1 /\ ~(m <= m - 1) /\ (m - 1) + 1 = m /\ l - 1 \in Nat
        /\ (l - 1) + 1 = l
    BY <2>2
  <2>4. Reach(m - 1) = Reach(l)
    BY <2>1, <2>3
  <2>5. Reach(m) = Reach(l) \cup Pred(Reach(l))
    <3>1. Reach((m - 1) + 1) = Reach(m - 1) \cup Pred(Reach(m - 1))
      BY <2>3, ReachSteps
    <3> QED BY <2>3, <2>4, <3>1
  <2>6. Reach(l) = Reach(l - 1)
    <3>1. Reach((l - 1) + 1) = Reach(l - 1) \cup Layer((l - 1) + 1)
      BY <2>3, LayerNext
    <3> QED BY <2>3, <3>1
  <2>7. Reach((l - 1) + 1) = Reach(l - 1) \cup Pred(Reach(l - 1))
    BY <2>3, ReachSteps
  <2>8. Reach(m) = Reach(l)
    BY <2>3, <2>5, <2>6, <2>7
  <2> QED BY <2>8
<1>2. CASE l <= n
  BY <1>1, <1>2
<1>3. CASE ~(l <= n)
  BY <1>3, ReachGrows
<1> QED BY <1>2, <1>3

(* The distance of a node is the number of its layer.                        *)
LEMMA ShortestIs ==
    ASSUME R \in Node, NEW v \in Node
    PROVE  /\ \A l \in Nat : v \in Layer(l) => Shortest[v] = l
           /\ (\A l \in Nat : v \notin Reach(l)) => Shortest[v] = INF
<1> DEFINE S == {k \in 0 .. NumNodes : v \in Within[k]} \cup {INF}
<1>1. Shortest[v] = Min(S)
  <2> DEFINE within == [k \in 0 .. NumNodes |-> Within[k]]
  <2>1. \A k \in 0 .. NumNodes : within[k] = Within[k]
    OBVIOUS
  <2>2. S = {k \in 0 .. NumNodes : v \in within[k]} \cup {INF}
    BY <2>1
  <2> QED BY <2>2 DEF Shortest
<1>2. \A m \in S : (\A k \in S : m <= k) => Min(S) = m
  <2>1. S \in SUBSET Nat
    BY MazeAssumption DEF INF
  <2> HIDE DEF S
  <2> QED BY <2>1, MinIs
<1>3. \A k \in 0 .. NumNodes : Reach(k) = Within[k]
  BY DEF Reach
<1>4. ASSUME NEW l \in Nat, v \in Layer(l)  PROVE Shortest[v] = l
  <2>1. l < NumNodes /\ v \in Reach(l)
    BY <1>4, LayersAreNear, LayerNext
  <2>2. l \in S
    BY <1>3, <2>1, MazeAssumption
  <2>3. ASSUME NEW k \in S  PROVE l <= k
    <3>1. CASE k = INF
      BY <2>1, <3>1, MazeAssumption DEF INF
    <3>2. CASE k # INF
      <4>1. k \in Nat /\ v \in Reach(k)
        BY <1>3, <3>2, MazeAssumption
      <4>2. PICK j \in 0 .. k : v \in Layer(j)
        BY <4>1, InSomeLayer
      <4>3. j \in Nat /\ j <= k
        BY <4>1
      <4> QED BY <1>4, <4>2, <4>3, LayersApart
    <3> QED BY <3>1, <3>2
  <2> QED BY <1>1, <1>2, <2>2, <2>3
<1>5. ASSUME \A l \in Nat : v \notin Reach(l)  PROVE Shortest[v] = INF
  <2>1. S = {INF}
    BY <1>3, <1>5, MazeAssumption
  <2>2. INF <= INF
    BY MazeAssumption DEF INF
  <2> HIDE DEF S
  <2> QED BY <1>1, <1>2, <2>1, <2>2
<1> QED BY <1>4, <1>5

(* What is known of the distances when l levels are searched.                *)
Dist(l) == [v \in Node |-> IF v \in Reach(l) THEN Shortest[v] ELSE INF]

LEMMA DistIs ==
    ASSUME R \in Node, NEW l \in Nat, NEW v \in Node
    PROVE  /\ Dist(l)[v] = IF v \in Reach(l) THEN Shortest[v] ELSE INF
           /\ Dist(l)[v] \in 0 .. INF
           /\ Dist(l)[v] = INF <=> v \notin Reach(l)
           /\ Dist(l + 1)[v] = IF v \in Layer(l + 1) THEN l + 1 ELSE Dist(l)[v]
           /\ v \in Layer(l + 1) => l + 1 < INF /\ Shortest[v] = l + 1 /\ Dist(l)[v] = INF
<1>1. \A k \in Nat : Dist(k)[v] = IF v \in Reach(k) THEN Shortest[v] ELSE INF
  BY DEF Dist
<1>2. v \in Reach(l) => Shortest[v] \in 0 .. INF - 1
  <2>1. ASSUME v \in Reach(l)  PROVE Shortest[v] \in 0 .. INF - 1
    <3>1. PICK k \in 0 .. l : v \in Layer(k)
      BY <2>1, InSomeLayer
    <3>2. k \in Nat
      OBVIOUS
    <3>3. k < NumNodes /\ Shortest[v] = k
      BY <3>1, <3>2, LayersAreNear, ShortestIs
    <3> QED BY <3>2, <3>3, MazeAssumption DEF INF
  <2> QED BY <2>1
<1>3. INF \in Nat
  BY MazeAssumption DEF INF
<1>4. Dist(l)[v] \in 0 .. INF /\ (Dist(l)[v] = INF <=> v \notin Reach(l))
  BY <1>1, <1>2, <1>3
<1>5. v \in Layer(l + 1) => l + 1 < INF /\ Shortest[v] = l + 1 /\ v \notin Reach(l)
  <2>1. l + 1 \in Nat
    OBVIOUS
  <2> QED BY <2>1, LayersAreNear, ShortestIs, LayerNext DEF INF
<1>6. Dist(l + 1)[v] = IF v \in Layer(l + 1) THEN l + 1 ELSE Dist(l)[v]
  <2>1. l + 1 \in Nat /\ Reach(l + 1) = Reach(l) \cup Layer(l + 1)
    BY LayerNext
  <2> QED BY <1>1, <1>5, <2>1
<1> QED BY <1>1, <1>4, <1>5, <1>6

(* Every node that is ever reached is reached when a layer is empty.         *)
LEMMA DistEnds ==
    ASSUME R \in Node, NEW l \in Nat, Layer(l) = {}
    PROVE  Dist(l) = Shortest
<1>1. ASSUME NEW v \in Node  PROVE Dist(l)[v] = Shortest[v]
  <2>1. CASE v \in Reach(l)
    BY <2>1, DistIs
  <2>2. CASE v \notin Reach(l)
    BY <2>2, LayersEnd, ShortestIs, DistIs
  <2> QED BY <2>1, <2>2
<1>2. Shortest = [v \in Node |-> Shortest[v]]
  BY DEF Shortest
<1> QED BY <1>1, <1>2 DEF Dist

-----------------------------------------------------------------------------
(* The inductive invariant of the search *)

Own(r) == {v \in Node : owner(v) = r}

(* What rank r finds in the next layer from its nodes of this one.           *)
FoundBy(r, l) == {v \in Layer(l + 1) : \E u \in Layer(l) \cap Own(r) : v \in graph(u)}

(* Rank r is about to search from layer l.                                   *)
HasLevel(r, l) ==
    dist[r] = Dist(l) /\ Frontier[r] = Layer(l) \cap Own(r) /\ NextFrontier[r] = {}

AtExpand(r, l) == step[r] = "expand" => HasLevel(r, l)

AtExchange(r, l) ==
    step[r] = "exchange" =>
        /\ NextFrontier[r] = FoundBy(r, l) \cap Own(r)
        /\ dist[r] = [v \in Node |-> IF v \in FoundBy(r, l) \cap Own(r) THEN l + 1 ELSE Dist(l)[v]]

HasSent(r, l) ==
    step[r] \in {"exchange", "reduce"} => SendBuf[r] = FoundBy(r, l) \ Own(r)

(* A rank knows all of its own nodes of the next layer, and of the nodes of  *)
(* others those that not only their owner has found.                         *)
AtReduce(r, l) ==
    step[r] = "reduce" =>
        /\ NextFrontier[r] = Layer(l + 1) \cap Own(r)
        /\ \A v \in Node :
              IF v \in Layer(l + 1)
              THEN dist[r][v] \in {l + 1, INF} /\ (v \in Own(r) => dist[r][v] = l + 1)
              ELSE dist[r][v] = Dist(l)[v]

AtVote(r, l) ==
    step[r] \in {"vote", "done"} => HasLevel(r, l + 1) /\ (Frontier[r] # {} => hasWork[r])

AtLevel(r, l) ==
    AtExpand(r, l) /\ AtExchange(r, l) /\ HasSent(r, l) /\ AtReduce(r, l) /\ AtVote(r, l)

RankInv(r) == /\ \A l \in Nat : level[r] = l => AtLevel(r, l)
              /\ step[r] = "done" => ~globalHasWork(r)

(* Two ranks are on the same side of all collectives but one.                *)
Adjacent == {{"expand", "exchange"}, {"exchange", "reduce"}, {"reduce", "vote"}, {"vote", "done"}}

SameLevel(p, q) == level[p] = level[q] /\ \E ss \in Adjacent : step[p] \in ss /\ step[q] \in ss

(* Rank q has left a vote for another level that p has not left yet.         *)
Ahead(q, p) == /\ level[q] = level[p] + 1
               /\ step[p] = "vote" /\ step[q] \in {"expand", "exchange"}
               /\ globalHasWork(q)

Together(p, q) == SameLevel(p, q) \/ Ahead(p, q) \/ Ahead(q, p)

MazeInv ==
    /\ MazeTypeOK
    /\ \A r \in Rank : RankInv(r)
    /\ \A p, q \in Rank : Together(p, q)

-----------------------------------------------------------------------------
(* Lemmas about the ranks *)

LEMMA OwnerIsRank == \A v \in Node : owner(v) \in Rank
BY MazeAssumption DEF Node, Rank, owner

(* The input does not change, and neither does what is defined from it.      *)
LEMMA SameLayers ==
    ASSUME UNCHANGED input
    PROVE  /\ \A l : Layer(l)' = Layer(l)
           /\ \A l : Dist(l)' = Dist(l)
           /\ \A r, l : FoundBy(r, l)' = FoundBy(r, l)
<1>1. Moves' = Moves /\ R' = R /\ blocked' = blocked
  BY DEF input, Moves
<1>2. Within' = Within
  BY <1>1 DEF Within
<1>3. Shortest' = Shortest
  BY <1>2 DEF Shortest
<1>4. \A l : Reach(l)' = Reach(l)
  BY <1>2 DEF Reach
<1>5. \A l : Layer(l)' = Layer(l)
  BY <1>1, <1>4 DEF Layer
<1>6. \A l : Dist(l)' = Dist(l)
  BY <1>3, <1>4 DEF Dist
<1>7. \A u : graph(u)' = graph(u)
  BY <1>1 DEF graph
<1>8. \A r, l : FoundBy(r, l)' = FoundBy(r, l)
  BY <1>5, <1>7 DEF FoundBy
<1> QED BY <1>5, <1>6, <1>8

(* A step of another rank does not matter to what a rank knows.              *)
LEMMA OtherRank ==
    ASSUME UNCHANGED input, NEW q \in Rank, NEW l \in Nat, AtLevel(q, l),
           step'[q] = step[q], dist'[q] = dist[q], Frontier'[q] = Frontier[q],
           NextFrontier'[q] = NextFrontier[q], SendBuf'[q] = SendBuf[q], hasWork'[q] = hasWork[q]
    PROVE  AtLevel(q, l)'
<1>1. HasLevel(q, l)' = HasLevel(q, l) /\ HasLevel(q, l + 1)' = HasLevel(q, l + 1)
  BY SameLayers DEF HasLevel
<1>2. AtExpand(q, l)' /\ AtVote(q, l)'
  BY <1>1 DEF AtLevel, AtExpand, AtVote
<1>3. AtExchange(q, l)' /\ HasSent(q, l)'
  BY SameLayers DEF AtLevel, AtExchange, HasSent
<1>4. AtReduce(q, l)'
  BY SameLayers DEF AtLevel, AtReduce
<1> QED BY <1>2, <1>3, <1>4 DEF AtLevel

LEMMA FoundIsLayer ==
    ASSUME MazeTypeOK, NEW l \in Nat, NEW v \in Layer(l + 1)
    PROVE  v \in Node /\ \E q \in Rank : v \in FoundBy(q, l)
<1>1. R \in Node
  BY DEF MazeTypeOK
<1>2. v \in Pred(Layer(l)) /\ Layer(l) \subseteq Node
  BY <1>1, LayerNext, ReachNodes
<1>3. PICK u \in Layer(l) : <<v, u>> \in Moves /\ u \notin blocked
  BY <1>2 DEF Pred
<1>4. v \in Node /\ u \in Node
  BY <1>2 DEF Pred
<1>5. v \in graph(u) /\ u \in Own(owner(u)) /\ owner(u) \in Rank
  BY <1>3, <1>4, OwnerIsRank DEF graph, Own
<1> QED BY <1>3, <1>4, <1>5 DEF FoundBy

(* The search of a rank from its part of a layer.                            *)
LEMMA FreshIs ==
    ASSUME MazeTypeOK, NEW r \in Rank, NEW l \in Nat, HasLevel(r, l)
    PROVE  Fresh(r) = FoundBy(r, l)
<1>1. R \in Node
  BY DEF MazeTypeOK
<1>2. Layer(l + 1) = Pred(Layer(l)) \ Reach(l)
  BY <1>1, LayerNext
<1>3. \A v \in Node : dist[r][v] = INF <=> v \notin Reach(l)
  BY <1>1, DistIs DEF HasLevel
<1>4. ASSUME NEW v \in Fresh(r)  PROVE v \in FoundBy(r, l)
  <2>1. PICK u \in Frontier[r] : v \in graph(u) /\ dist[r][v] = INF
    BY DEF Fresh
  <2>2. u \in Layer(l) \cap Own(r) /\ v \in Node /\ u \notin blocked /\ <<v, u>> \in Moves
    BY <2>1 DEF HasLevel, graph
  <2>3. v \in Layer(l + 1)
    BY <1>2, <1>3, <2>1, <2>2 DEF Pred
  <2> QED BY <2>1, <2>2, <2>3 DEF FoundBy
<1>5. ASSUME NEW v \in FoundBy(r, l)  PROVE v \in Fresh(r)
  <2>1. v \in Layer(l + 1) /\ \E u \in Frontier[r] : v \in graph(u)
    BY DEF FoundBy, HasLevel
  <2>2. v \in Node /\ v \notin Reach(l)
    BY <1>2, <2>1 DEF graph
  <2> QED BY <1>3, <2>1, <2>2 DEF Fresh
<1> QED BY <1>4, <1>5

(* In a collective between two steps of a level all ranks are in that level. *)
LEMMA OneLevel ==
    ASSUME MazeInv, NEW r \in Rank, NEW q \in Rank, CanExchange(r) \/ CanReduce(r)
    PROVE  level[q] = level[r]
BY DEF MazeInv, Together, SameLevel, Ahead, AllIn, CanExchange, CanReduce

LEMMA ExpandKeeps ==
    ASSUME MazeInv, NEW r \in Rank, Expand(r)
    PROVE  MazeInv'
<1> DEFINE l == level[r]
           mine == FoundBy(r, l) \cap Own(r)
<1>1. MazeTypeOK /\ l \in Nat /\ R \in Node /\ HasLevel(r, l)
  BY DEF MazeInv, MazeTypeOK, RankInv, AtLevel, AtExpand, Expand
<1>2. Fresh(r) = FoundBy(r, l) /\ FoundBy(r, l) \subseteq Node
  BY <1>1, FreshIs, FoundIsLayer DEF FoundBy
<1>3. {v \in Fresh(r) : owner(v) = r} = mine /\ Fresh(r) \ mine = FoundBy(r, l) \ Own(r)
  BY <1>2 DEF Own
<1>4. /\ dist' = [dist EXCEPT ![r] = [v \in Node |-> IF v \in mine THEN l + 1 ELSE dist[r][v]]]
      /\ NextFrontier' = [NextFrontier EXCEPT ![r] = mine]
      /\ SendBuf' = [SendBuf EXCEPT ![r] = FoundBy(r, l) \ Own(r)]
      /\ step[r] = "expand" /\ step' = [step EXCEPT ![r] = "exchange"]
      /\ UNCHANGED <<input, Frontier, hasWork, level, garbage>>
  BY <1>3 DEF Expand, Mark
<1> HIDE DEF mine
<1>5. MazeTypeOK'
  <2>1. [v \in Node |-> IF v \in mine THEN l + 1 ELSE dist[r][v]] \in [Node -> 0 .. INF]
    <3>1. \A v \in mine : l + 1 \in 0 .. INF
      <4>1. \A v \in mine : v \in Layer(l + 1) /\ v \in Node
        BY <1>2 DEF mine, FoundBy
      <4> QED BY <1>1, <4>1, DistIs, MazeAssumption DEF INF
    <3>2. \A v \in Node : dist[r][v] \in 0 .. INF
      BY <1>1 DEF MazeTypeOK
    <3> QED BY <3>1, <3>2
  <2>2. dist' \in [Rank -> [Node -> 0 .. INF]]
    BY <1>1, <1>4, <2>1 DEF MazeTypeOK
  <2>3. mine \subseteq {v \in Node : owner(v) = r}
    BY <1>2 DEF mine, Own
  <2>4. /\ NextFrontier' \in [Rank -> SUBSET Node]
        /\ \A q \in Rank : Frontier'[q] \cup NextFrontier'[q] \subseteq {v \in Node : owner(v) = q}
    BY <1>1, <1>4, <2>3 DEF MazeTypeOK
  <2>5. SendBuf' \in [Rank -> SUBSET Node]
    BY <1>1, <1>2, <1>4 DEF MazeTypeOK
  <2>6. step' \in [Rank -> {"expand", "exchange", "reduce", "vote", "done"}]
    BY <1>1, <1>4 DEF MazeTypeOK
  <2> QED BY <1>1, <1>4, <2>2, <2>4, <2>5, <2>6 DEF MazeTypeOK, input
<1>6. ASSUME NEW q \in Rank  PROVE RankInv(q)'
  <2>1. step'[q] = "done" => ~globalHasWork(q)'
    BY <1>1, <1>4 DEF MazeInv, RankInv, globalHasWork, MazeTypeOK
  <2>2. ASSUME NEW k \in Nat, level'[q] = k  PROVE AtLevel(q, k)'
    <3>1. CASE q = r
      <4>1. k = l /\ step'[r] = "exchange"
        BY <1>1, <1>4, <2>2, <3>1 DEF MazeTypeOK
      <4>2. NextFrontier'[r] = mine /\ SendBuf'[r] = FoundBy(r, l) \ Own(r)
            /\ dist'[r] = [v \in Node |-> IF v \in mine THEN l + 1 ELSE Dist(l)[v]]
        BY <1>1, <1>4 DEF MazeTypeOK, HasLevel
      <4>3. FoundBy(r, k)' = FoundBy(r, k) /\ Dist(k)' = Dist(k)
        BY <1>4, SameLayers
      <4> QED BY <3>1, <4>1, <4>2, <4>3
              DEF mine, AtLevel, AtExpand, AtExchange, HasSent, AtReduce, AtVote
    <3>2. CASE q # r
      <4>1. AtLevel(q, k)
        BY <1>4, <2>2 DEF MazeInv, RankInv
      <4> QED BY <1>1, <1>4, <3>2, <4>1, OtherRank DEF MazeTypeOK
    <3> QED BY <3>1, <3>2
  <2> QED BY <2>1, <2>2 DEF RankInv
<1>7. \A p, q \in Rank : Together(p, q)'
  BY <1>1, <1>4 DEF MazeInv, MazeTypeOK, Together, SameLevel, Ahead, Adjacent, globalHasWork
<1> QED BY <1>5, <1>6, <1>7 DEF MazeInv

LEMMA ExchangeKeeps ==
    ASSUME MazeInv, NEW r \in Rank, Exchange(r)
    PROVE  MazeInv'
<1> DEFINE l == level[r]
           found == {v \in UNION {SendBuf[q] : q \in Rank} : dist[r][v] = INF}
           mine == NextFrontier[r] \cup {v \in found : owner(v) = r}
<1>1. MazeTypeOK /\ l \in Nat /\ R \in Node
  BY DEF MazeInv, MazeTypeOK
<1>2. /\ dist' = [dist EXCEPT ![r] = [v \in Node |-> IF v \in found THEN l + 1 ELSE dist[r][v]]]
      /\ NextFrontier' = [NextFrontier EXCEPT ![r] = mine]
      /\ step[r] = "exchange" /\ AllIn({"exchange", "reduce"})
      /\ step' = [step EXCEPT ![r] = "reduce"]
      /\ UNCHANGED <<input, Frontier, SendBuf, hasWork, level, garbage>>
  BY <1>1 DEF Exchange, CanExchange, Mark, MazeTypeOK
<1>3. \A q \in Rank : AtLevel(q, l) /\ SendBuf[q] = FoundBy(q, l) \ Own(q)
  <2> SUFFICES ASSUME NEW q \in Rank
               PROVE  AtLevel(q, l) /\ SendBuf[q] = FoundBy(q, l) \ Own(q)
    OBVIOUS
  <2>1. level[q] = l /\ step[q] \in {"exchange", "reduce"}
    BY <1>2, OneLevel DEF AllIn, CanExchange
  <2> QED BY <1>1, <2>1 DEF MazeInv, RankInv, AtLevel, HasSent
<1>4. /\ NextFrontier[r] = FoundBy(r, l) \cap Own(r)
      /\ \A v \in Node : dist[r][v] = IF v \in FoundBy(r, l) \cap Own(r) THEN l + 1
                                      ELSE Dist(l)[v]
  BY <1>2, <1>3 DEF AtLevel, AtExchange
<1>5. found \subseteq Layer(l + 1) /\ Layer(l + 1) \subseteq Node
  BY <1>1, <1>3, FoundIsLayer DEF FoundBy
<1>6. ASSUME NEW v \in Layer(l + 1), v \in Own(r)
      PROVE  v \in mine /\ (v \in found \/ dist[r][v] = l + 1)
  <2>1. PICK q \in Rank : v \in FoundBy(q, l)
    BY <1>1, FoundIsLayer
  <2>2. CASE v \in FoundBy(r, l)
    BY <1>4, <1>5, <1>6, <2>2
  <2>3. CASE v \notin FoundBy(r, l)
    <3>1. v \notin Own(q) /\ v \in SendBuf[q]
      BY <1>3, <1>6, <2>1, <2>3 DEF Own
    <3>2. dist[r][v] = INF
      BY <1>1, <1>4, <1>5, <2>3, DistIs
    <3> QED BY <1>6, <3>1, <3>2 DEF Own
  <2> QED BY <2>2, <2>3
<1>7. mine = Layer(l + 1) \cap Own(r)
  <2>1. mine \subseteq Layer(l + 1) \cap Own(r)
    BY <1>4, <1>5 DEF FoundBy, Own
  <2> QED BY <1>6, <2>1
<1>8. \A v \in Node :
         IF v \in Layer(l + 1)
         THEN dist'[r][v] \in {l + 1, INF} /\ (v \in Own(r) => dist'[r][v] = l + 1)
         ELSE dist'[r][v] = Dist(l)[v]
  <2> SUFFICES ASSUME NEW v \in Node
               PROVE  IF v \in Layer(l + 1)
                      THEN dist'[r][v] \in {l + 1, INF} /\ (v \in Own(r) => dist'[r][v] = l + 1)
                      ELSE dist'[r][v] = Dist(l)[v]
    OBVIOUS
  <2>1. dist'[r][v] = IF v \in found THEN l + 1 ELSE dist[r][v]
    BY <1>1, <1>2 DEF MazeTypeOK
  <2> HIDE DEF found, mine
  <2>2. CASE v \in Layer(l + 1)
    <3>1. dist[r][v] \in {l + 1, INF}
      BY <1>1, <1>4, <2>2, DistIs
    <3> QED BY <1>6, <2>1, <2>2, <3>1
  <2>3. CASE v \notin Layer(l + 1)
    BY <1>4, <1>5, <2>1, <2>3 DEF FoundBy
  <2> QED BY <2>2, <2>3
<1> HIDE DEF mine, found
<1>9. MazeTypeOK'
  <2>1. [v \in Node |-> IF v \in found THEN l + 1 ELSE dist[r][v]] \in [Node -> 0 .. INF]
    <3>1. \A v \in found : l + 1 \in 0 .. INF
      BY <1>1, <1>5, DistIs, MazeAssumption DEF INF
    <3>2. \A v \in Node : dist[r][v] \in 0 .. INF
      BY <1>1 DEF MazeTypeOK
    <3> QED BY <3>1, <3>2
  <2>2. dist' \in [Rank -> [Node -> 0 .. INF]]
    BY <1>1, <1>2, <2>1 DEF MazeTypeOK
  <2>3. mine \subseteq {v \in Node : owner(v) = r}
    BY <1>7 DEF Own
  <2>4. /\ NextFrontier' \in [Rank -> SUBSET Node]
        /\ \A q \in Rank : Frontier'[q] \cup NextFrontier'[q] \subseteq {v \in Node : owner(v) = q}
    BY <1>1, <1>2, <2>3 DEF MazeTypeOK
  <2>5. step' \in [Rank -> {"expand", "exchange", "reduce", "vote", "done"}]
    BY <1>1, <1>2 DEF MazeTypeOK
  <2> QED BY <1>1, <1>2, <2>2, <2>4, <2>5 DEF MazeTypeOK, input
<1>10. ASSUME NEW q \in Rank  PROVE RankInv(q)'
  <2>1. step'[q] # "done"
    BY <1>1, <1>2 DEF AllIn, MazeTypeOK
  <2>2. ASSUME NEW k \in Nat, level'[q] = k  PROVE AtLevel(q, k)'
    <3>1. CASE q = r
      <4>1. k = l /\ step'[r] = "reduce" /\ SendBuf'[r] = FoundBy(r, l) \ Own(r)
            /\ NextFrontier'[r] = Layer(l + 1) \cap Own(r)
        BY <1>1, <1>2, <1>3, <1>7, <2>2, <3>1 DEF MazeTypeOK
      <4>2. FoundBy(r, k)' = FoundBy(r, k) /\ Dist(k)' = Dist(k) /\ Layer(k + 1)' = Layer(k + 1)
        BY <1>2, SameLayers
      <4> QED BY <1>8, <3>1, <4>1, <4>2
              DEF AtLevel, AtExpand, AtExchange, HasSent, AtReduce, AtVote
    <3>2. CASE q # r
      <4>1. AtLevel(q, k)
        BY <1>2, <2>2 DEF MazeInv, RankInv
      <4> QED BY <1>1, <1>2, <3>2, <4>1, OtherRank DEF MazeTypeOK
    <3> QED BY <3>1, <3>2
  <2> QED BY <2>1, <2>2 DEF RankInv
<1>11. \A p, q \in Rank : Together(p, q)'
  BY <1>1, <1>2 DEF MazeInv, MazeTypeOK, Together, SameLevel, Ahead, Adjacent, globalHasWork, AllIn
<1> QED BY <1>9, <1>10, <1>11 DEF MazeInv

(* Every rank has the minimum of what all of them know: the owner of a node  *)
(* of the next layer knows it.                                               *)
LEMMA MinimumIsDist ==
    ASSUME MazeInv, NEW r \in Rank, CanReduce(r), NEW v \in Node
    PROVE  Min({dist[q][v] : q \in Rank}) = Dist(level[r] + 1)[v]
<1> DEFINE l == level[r]
           S == {dist[q][v] : q \in Rank}
<1>1. MazeTypeOK /\ l \in Nat /\ R \in Node
  BY DEF MazeInv, MazeTypeOK
<1>2. ASSUME NEW q \in Rank
      PROVE  /\ v \in Layer(l + 1) => /\ dist[q][v] \in {l + 1, INF}
                                      /\ v \in Own(q) => dist[q][v] = l + 1
             /\ v \notin Layer(l + 1) => dist[q][v] = Dist(l)[v]
  <2>1. level[q] = l /\ step[q] \in {"reduce", "vote"}
    BY OneLevel DEF AllIn, CanReduce
  <2>2. AtLevel(q, l)
    BY <1>1, <2>1 DEF MazeInv, RankInv
  <2>3. CASE step[q] = "reduce"
    BY <2>2, <2>3 DEF AtLevel, AtReduce
  <2>4. CASE step[q] = "vote"
    <3>1. dist[q] = Dist(l + 1)
      BY <2>2, <2>4 DEF AtLevel, AtVote, HasLevel
    <3> QED BY <1>1, <3>1, DistIs
  <2> QED BY <2>1, <2>3, <2>4
<1>3. S \in SUBSET Nat
  BY <1>1, MazeAssumption DEF MazeTypeOK, INF
<1>4. CASE v \in Layer(l + 1)
  <2>1. l + 1 < INF /\ l + 1 \in Nat /\ INF \in Nat /\ Dist(l + 1)[v] = l + 1
    BY <1>1, <1>4, DistIs, MazeAssumption DEF INF
  <2>2. l + 1 \in S
    <3>1. owner(v) \in Rank /\ v \in Own(owner(v))
      BY OwnerIsRank DEF Own
    <3> QED BY <1>2, <1>4, <3>1
  <2>3. \A x \in S : l + 1 <= x
    BY <1>2, <1>4, <2>1
  <2>4. Min(S) = l + 1
    <3> HIDE DEF S
    <3> QED BY <1>3, <2>2, <2>3, MinIs
  <2> QED BY <2>1, <2>4
<1>5. CASE v \notin Layer(l + 1)
  <2>1. S = {Dist(l)[v]}
    <3>1. r \in Rank
      OBVIOUS
    <3> QED BY <1>2, <1>5, <3>1
  <2>2. Dist(l + 1)[v] = Dist(l)[v]
    BY <1>1, <1>5, DistIs
  <2>3. \A x \in S : Dist(l)[v] <= x
    BY <1>3, <2>1
  <2>4. Min(S) = Dist(l)[v]
    <3>1. Dist(l)[v] \in S
      BY <2>1
    <3> HIDE DEF S
    <3> QED BY <1>3, <2>3, <3>1, MinIs
  <2> QED BY <2>2, <2>4
<1> QED BY <1>4, <1>5

LEMMA ReduceKeeps ==
    ASSUME MazeInv, NEW r \in Rank, Reduce(r)
    PROVE  MazeInv'
<1> DEFINE l == level[r]
<1>1. MazeTypeOK /\ l \in Nat /\ R \in Node
  BY DEF MazeInv, MazeTypeOK
<1>2. /\ dist' = [dist EXCEPT ![r] = [v \in Node |-> Min({dist[q][v] : q \in Rank})]]
      /\ Frontier' = [Frontier EXCEPT ![r] = NextFrontier[r]]
      /\ NextFrontier' = [NextFrontier EXCEPT ![r] = {}]
      /\ step[r] = "reduce" /\ AllIn({"reduce", "vote"}) /\ step' = [step EXCEPT ![r] = "vote"]
      /\ UNCHANGED <<input, SendBuf, level>>
  BY DEF Reduce, CanReduce
<1>3. /\ hasWork' \in [Rank -> BOOLEAN] /\ garbage' \in 0 .. MaxGarbage
      /\ NextFrontier[r] # {} => hasWork'[r]
      /\ \A q \in Rank : q # r => hasWork'[q] = hasWork[q]
  <2>1. hasWork \in [Rank -> BOOLEAN] /\ garbage \in 0 .. MaxGarbage /\ MaxGarbage \in Nat
    BY <1>1, MazeAssumption DEF MazeTypeOK
  <2>2. CASE hasWork' = [hasWork EXCEPT ![r] = NextFrontier[r] # {}] /\ UNCHANGED garbage
    BY <2>1, <2>2
  <2>3. CASE /\ NextFrontier[r] = {} /\ garbage < MaxGarbage
             /\ hasWork' = [hasWork EXCEPT ![r] = TRUE] /\ garbage' = garbage + 1
    BY <2>1, <2>3
  <2> QED BY <2>2, <2>3 DEF Reduce, CanReduce
<1>4. NextFrontier[r] = Layer(l + 1) \cap Own(r)
  BY <1>1, <1>2 DEF MazeInv, RankInv, AtLevel, AtReduce
<1>5. [v \in Node |-> Min({dist[q][v] : q \in Rank})] = Dist(l + 1)
  <2>1. Dist(l + 1) = [v \in Node |-> Dist(l + 1)[v]]
    BY DEF Dist
  <2>2. \A v \in Node : Min({dist[q][v] : q \in Rank}) = Dist(l + 1)[v]
    BY <1>2, MinimumIsDist DEF CanReduce
  <2> QED BY <2>1, <2>2
<1>6. MazeTypeOK'
  <2>1. Dist(l + 1) \in [Node -> 0 .. INF]
    <3>1. l + 1 \in Nat
      BY <1>1
    <3>2. \A v \in Node : Dist(l + 1)[v] \in 0 .. INF
      BY <1>1, <3>1, DistIs
    <3> QED BY <3>2 DEF Dist
  <2>2. dist' \in [Rank -> [Node -> 0 .. INF]]
    BY <1>1, <1>2, <1>5, <2>1 DEF MazeTypeOK
  <2>3. /\ Frontier' \in [Rank -> SUBSET Node] /\ NextFrontier' \in [Rank -> SUBSET Node]
        /\ \A q \in Rank : Frontier'[q] \cup NextFrontier'[q] \subseteq {v \in Node : owner(v) = q}
    BY <1>1, <1>2 DEF MazeTypeOK
  <2>4. step' \in [Rank -> {"expand", "exchange", "reduce", "vote", "done"}]
    BY <1>1, <1>2 DEF MazeTypeOK
  <2> QED BY <1>1, <1>2, <1>3, <2>2, <2>3, <2>4 DEF MazeTypeOK, input
<1>7. ASSUME NEW q \in Rank  PROVE RankInv(q)'
  <2>1. step'[q] # "done"
    BY <1>1, <1>2 DEF AllIn, MazeTypeOK
  <2>2. ASSUME NEW k \in Nat, level'[q] = k  PROVE AtLevel(q, k)'
    <3>1. CASE q = r
      <4>1. k = l /\ step'[r] = "vote" /\ dist'[r] = Dist(l + 1) /\ NextFrontier'[r] = {}
            /\ Frontier'[r] = Layer(l + 1) \cap Own(r) /\ (Frontier'[r] # {} => hasWork'[r])
        BY <1>1, <1>2, <1>3, <1>4, <1>5, <2>2, <3>1 DEF MazeTypeOK
      <4>2. Dist(k + 1)' = Dist(k + 1) /\ Layer(k + 1)' = Layer(k + 1)
        BY <1>2, SameLayers
      <4> QED BY <3>1, <4>1, <4>2
              DEF HasLevel, AtLevel, AtExpand, AtExchange, HasSent, AtReduce, AtVote
    <3>2. CASE q # r
      <4>1. AtLevel(q, k)
        BY <1>2, <2>2 DEF MazeInv, RankInv
      <4> QED BY <1>1, <1>2, <1>3, <3>2, <4>1, OtherRank DEF MazeTypeOK
    <3> QED BY <3>1, <3>2
  <2> QED BY <2>1, <2>2 DEF RankInv
<1>8. \A p, q \in Rank : Together(p, q)'
  <2> SUFFICES ASSUME NEW p \in Rank, NEW q \in Rank PROVE SameLevel(p, q)'
    BY DEF Together
  <2>1. level[p] = l /\ level[q] = l
    BY <1>2, OneLevel DEF CanReduce
  <2>2. step'[p] \in {"reduce", "vote"} /\ step'[q] \in {"reduce", "vote"}
    BY <1>1, <1>2 DEF AllIn, MazeTypeOK
  <2> QED BY <1>2, <2>1, <2>2 DEF SameLevel, Adjacent
<1> QED BY <1>6, <1>7, <1>8 DEF MazeInv

LEMMA DecideKeeps ==
    ASSUME MazeInv, NEW r \in Rank, Decide(r)
    PROVE  MazeInv'
<1> DEFINE l == level[r]
<1>1. MazeTypeOK /\ l \in Nat /\ R \in Node
  BY DEF MazeInv, MazeTypeOK
<1>2. /\ step[r] = "vote" /\ \A q \in Rank : step[q] \in {"vote", "done"} \/ level[q] > l
      /\ UNCHANGED <<input, dist, Frontier, NextFrontier, SendBuf, hasWork, garbage>>
      /\ \/ /\ globalHasWork(r) /\ step' = [step EXCEPT ![r] = "expand"]
            /\ level' = [level EXCEPT ![r] = l + 1]
         \/ /\ ~globalHasWork(r) /\ step' = [step EXCEPT ![r] = "done"] /\ level' = level
  BY <1>1 DEF Decide, CanDecide, MazeTypeOK
<1>3. HasLevel(r, l + 1) /\ (Frontier[r] # {} => hasWork[r])
  BY <1>1, <1>2 DEF MazeInv, RankInv, AtLevel, AtVote
<1>4. MazeTypeOK'
  <2>1. step' \in [Rank -> {"expand", "exchange", "reduce", "vote", "done"}]
    BY <1>1, <1>2 DEF MazeTypeOK
  <2>2. level' \in [Rank -> Nat]
    <3>1. level \in [Rank -> Nat] /\ l + 1 \in Nat
      BY <1>1 DEF MazeTypeOK
    <3> QED BY <1>2, <3>1
  <2> QED BY <1>1, <1>2, <2>1, <2>2 DEF MazeTypeOK, input
<1>5. ASSUME NEW q \in Rank  PROVE RankInv(q)'
  <2>1. step'[q] = "done" => ~globalHasWork(q)'
    BY <1>1, <1>2 DEF MazeInv, RankInv, globalHasWork, MazeTypeOK
  <2>2. ASSUME NEW k \in Nat, level'[q] = k  PROVE AtLevel(q, k)'
    <3>1. CASE q = r
      <4>1. \A n : HasLevel(r, n)' = HasLevel(r, n)
        BY <1>2, SameLayers DEF HasLevel
      <4>2. CASE globalHasWork(r)
        <5>1. step'[r] = "expand" /\ k = l + 1
          BY <1>1, <1>2, <2>2, <3>1, <4>2 DEF MazeTypeOK
        <5> QED BY <1>3, <3>1, <4>1, <5>1
                DEF AtLevel, AtExpand, AtExchange, HasSent, AtReduce, AtVote
      <4>3. CASE ~globalHasWork(r)
        <5>1. step'[r] = "done" /\ k = l
          BY <1>1, <1>2, <2>2, <3>1, <4>3 DEF MazeTypeOK
        <5> QED BY <1>2, <1>3, <3>1, <4>1, <5>1
                DEF AtLevel, AtExpand, AtExchange, HasSent, AtReduce, AtVote
      <4> QED BY <4>2, <4>3
    <3>2. CASE q # r
      <4>1. step'[q] = step[q] /\ level'[q] = level[q]
        BY <1>1, <1>2, <3>2 DEF MazeTypeOK
      <4>2. AtLevel(q, k)
        BY <2>2, <4>1 DEF MazeInv, RankInv
      <4> QED BY <1>2, <4>1, <4>2, OtherRank
    <3> QED BY <3>1, <3>2
  <2> QED BY <2>1, <2>2 DEF RankInv
<1>6. \A p, q \in Rank : Together(p, q)'
  <2>1. ASSUME NEW q \in Rank
        PROVE  \/ level[q] = l /\ step[q] = "vote"
               \/ level[q] = l /\ step[q] = "done" /\ ~globalHasWork(r)
               \/ level[q] = l + 1 /\ step[q] \in {"expand", "exchange"} /\ globalHasWork(r)
    <3>1. Together(r, q) /\ (step[q] = "done" => ~globalHasWork(r))
      BY DEF MazeInv, RankInv, globalHasWork
    <3>2. CASE step[q] \in {"vote", "done"}
      BY <1>1, <1>2, <3>1, <3>2 DEF Together, SameLevel, Ahead, Adjacent
    <3>3. CASE step[q] \notin {"vote", "done"}
      <4>1. level[q] > l
        BY <1>2, <3>3
      <4>2. level[q] \in Nat
        BY <1>1 DEF MazeTypeOK
      <4> QED BY <1>1, <1>2, <3>1, <4>1, <4>2 DEF Together, SameLevel, Ahead, globalHasWork
    <3> QED BY <3>2, <3>3
  <2>2. ASSUME NEW q \in Rank
        PROVE  \/ level'[q] = l /\ step'[q] = "vote"
               \/ level'[q] = l /\ step'[q] = "done" /\ ~globalHasWork(r)
               \/ level'[q] = l + 1 /\ step'[q] \in {"expand", "exchange"} /\ globalHasWork(r)
    BY <1>1, <1>2, <2>1 DEF MazeTypeOK
  <2>3. globalHasWork(r) => \A q \in Rank : globalHasWork(q)'
    BY <1>2 DEF globalHasWork
  <2> QED BY <1>1, <2>2, <2>3 DEF Together, SameLevel, Ahead, Adjacent
<1> QED BY <1>4, <1>5, <1>6 DEF MazeInv

LEMMA MazeStarts == MazeInit => MazeInv
<1> SUFFICES ASSUME NEW maze \in SUBSET Corridor, NEW closed \in SUBSET Node, NEW exit \in Node,
                    MazeStart(maze, closed, exit), step = [r \in Rank |-> "expand"]
             PROVE  MazeInv
  BY DEF MazeInit
<1>1. R \in Node /\ R = exit /\ owner(R) \in Rank
  BY OwnerIsRank DEF MazeStart
<1>2. /\ dist = [r \in Rank |-> [v \in Node |-> IF v = R THEN 0 ELSE INF]]
      /\ Frontier = [r \in Rank |-> IF r = owner(R) THEN {R} ELSE {}]
      /\ \A r \in Rank : Frontier[r] = {R} \cap Own(r)
  BY <1>1 DEF MazeStart, Own
<1>3. MazeTypeOK
  <2>1. 0 \in 0 .. INF /\ INF \in 0 .. INF /\ 0 \in 0 .. MaxGarbage
    BY MazeAssumption DEF INF
  <2>2. dist \in [Rank -> [Node -> 0 .. INF]]
    BY <1>2, <2>1
  <2>3. /\ Frontier \in [Rank -> SUBSET Node] /\ NextFrontier \in [Rank -> SUBSET Node]
        /\ \A r \in Rank : Frontier[r] \cup NextFrontier[r] \subseteq {v \in Node : owner(v) = r}
    BY <1>1, <1>2 DEF MazeStart, Own
  <2>4. hasWork \in [Rank -> BOOLEAN]
    BY DEF MazeStart
  <2>5. /\ corridors \subseteq Corridor /\ blocked \subseteq Node
        /\ SendBuf \in [Rank -> SUBSET Node] /\ level \in [Rank -> Nat]
        /\ step \in [Rank -> {"expand", "exchange", "reduce", "vote", "done"}]
        /\ garbage \in 0 .. MaxGarbage
    BY <2>1 DEF MazeStart
  <2> QED BY <1>1, <2>2, <2>3, <2>4, <2>5 DEF MazeTypeOK
<1>4. ASSUME NEW r \in Rank  PROVE RankInv(r)
  <2>1. step[r] = "expand" /\ level[r] = 0 /\ NextFrontier[r] = {}
    BY DEF MazeStart
  <2>2. dist[r] = Dist(0)
    <3>1. \A v \in Node : Dist(0)[v] = IF v = R THEN 0 ELSE INF
      <4>1. Reach(0) = {R} /\ R \in Layer(0)
        BY <1>1, ReachSteps DEF Layer
      <4>2. Shortest[R] = 0
        BY <1>1, <4>1, ShortestIs
      <4> QED BY <4>1, <4>2 DEF Dist
    <3>2. Dist(0) = [v \in Node |-> Dist(0)[v]]
      BY DEF Dist
    <3> QED BY <1>2, <3>1, <3>2
  <2>3. Frontier[r] = Layer(0) \cap Own(r)
    BY <1>2 DEF Layer
  <2>4. HasLevel(r, 0)
    BY <2>1, <2>2, <2>3 DEF HasLevel
  <2> QED BY <2>1, <2>4 DEF RankInv, AtLevel, AtExpand, AtExchange, HasSent, AtReduce, AtVote
<1>5. \A p, q \in Rank : Together(p, q)
  BY DEF MazeStart, Together, SameLevel, Adjacent
<1> QED BY <1>3, <1>4, <1>5 DEF MazeInv

LEMMA MazeSteps == MazeInv /\ [MazeNext]_mazeVars => MazeInv'
<1> SUFFICES ASSUME MazeInv, [MazeNext]_mazeVars PROVE MazeInv'
  OBVIOUS
<1>1. CASE MazeNext
  BY <1>1, ExpandKeeps, ExchangeKeeps, ReduceKeeps, DecideKeeps DEF MazeNext
<1>2. CASE UNCHANGED mazeVars
  <2>1. MazeTypeOK' /\ \A p, q \in Rank : Together(p, q)'
    BY <1>2 DEF mazeVars, MazeInv, MazeTypeOK, Together, SameLevel, Ahead, globalHasWork
  <2>2. ASSUME NEW q \in Rank  PROVE RankInv(q)'
    <3>1. step'[q] = "done" => ~globalHasWork(q)'
      BY <1>2 DEF mazeVars, MazeInv, RankInv, globalHasWork
    <3>2. ASSUME NEW k \in Nat, level'[q] = k  PROVE AtLevel(q, k)'
      <4>1. AtLevel(q, k) /\ UNCHANGED input
        BY <1>2, <3>2 DEF mazeVars, input, MazeInv, RankInv
      <4> QED BY <1>2, <4>1, OtherRank DEF mazeVars
    <3> QED BY <3>1, <3>2 DEF RankInv
  <2> QED BY <2>1, <2>2 DEF MazeInv
<1> QED BY <1>1, <1>2

(* What a rank knows at any point of a level is right.                       *)
LEMMA KnownIsShortest ==
    ASSUME MazeInv, NEW r \in Rank, NEW v \in Node
    PROVE  dist[r][v] \in {INF, Shortest[v]}
<1> DEFINE l == level[r]
<1>1. l \in Nat /\ R \in Node /\ AtLevel(r, l) /\ l + 1 \in Nat
      /\ step[r] \in {"expand", "exchange", "reduce", "vote", "done"}
  BY DEF MazeInv, MazeTypeOK, RankInv
<1>2. Dist(l)[v] \in {INF, Shortest[v]} /\ Dist(l + 1)[v] \in {INF, Shortest[v]}
  BY <1>1, DistIs
<1>3. v \in Layer(l + 1) => Shortest[v] = l + 1
  BY <1>1, ShortestIs
<1>4. CASE step[r] = "expand"
  BY <1>1, <1>2, <1>4 DEF AtLevel, AtExpand, HasLevel
<1>5. CASE step[r] = "exchange"
  <2>1. dist[r][v] = IF v \in FoundBy(r, l) \cap Own(r) THEN l + 1 ELSE Dist(l)[v]
    BY <1>1, <1>5 DEF AtLevel, AtExchange
  <2> QED BY <1>2, <1>3, <2>1 DEF FoundBy
<1>6. CASE step[r] = "reduce"
  BY <1>1, <1>2, <1>3, <1>6 DEF AtLevel, AtReduce
<1>7. CASE step[r] \in {"vote", "done"}
  BY <1>1, <1>2, <1>7 DEF AtLevel, AtVote, HasLevel
<1> QED BY <1>1, <1>4, <1>5, <1>6, <1>7

(* When one rank is done nobody has work left: the next layer is empty.      *)
LEMMA DoneIsAll ==
    ASSUME MazeInv, NEW r \in Rank, step[r] = "done"
    PROVE  dist[r] = Shortest
<1> DEFINE l == level[r]
<1>1. MazeTypeOK /\ l \in Nat /\ l + 1 \in Nat /\ R \in Node /\ dist[r] = Dist(l + 1)
  BY DEF MazeInv, MazeTypeOK, RankInv, AtLevel, AtVote, HasLevel
<1>2. ASSUME NEW q \in Rank  PROVE Layer(l + 1) \cap Own(q) = {}
  <2>1. ~hasWork[q] /\ ~globalHasWork(r)
    BY DEF MazeInv, RankInv, globalHasWork
  <2>2. Together(r, q)
    BY DEF MazeInv
  <2>3. level[q] = l /\ step[q] \in {"vote", "done"}
    BY <2>2 DEF Together, SameLevel, Ahead, Adjacent
  <2>4. Frontier[q] = Layer(l + 1) \cap Own(q) /\ (Frontier[q] # {} => hasWork[q])
    BY <1>1, <2>3 DEF MazeInv, RankInv, AtLevel, AtVote, HasLevel
  <2> QED BY <2>1, <2>4
<1>3. Layer(l + 1) = {}
  <2>1. ASSUME NEW v \in Layer(l + 1)  PROVE FALSE
    <3>1. v \in Node
      BY <1>1, FoundIsLayer
    <3>2. owner(v) \in Rank /\ v \in Own(owner(v))
      BY <3>1, OwnerIsRank DEF Own
    <3> QED BY <1>2, <3>2
  <2> QED BY <2>1
<1> QED BY <1>1, <1>3, DistEnds

(* The ranks advance through the layers of the maze around the exit, at most *)
(* one collective apart, and each knows, sent and received what belongs to   *)
(* its layer (distributedBFS).                                               *)
THEOREM MazeInvariant == MazeSpec => []MazeInv
<1> QED BY MazeStarts, MazeSteps, PTL DEF MazeSpec

(* Distances and levels stay in range (distributedBFS, main).                *)
THEOREM MazeTypes == MazeSpec => []MazeTypeOK
<1>1. MazeInv => MazeTypeOK
  BY DEF MazeInv
<1> QED BY <1>1, MazeInvariant, PTL

(* Whatever the order of the ranks, and whatever the vote makes of the bytes *)
(* after hasWork: what rank 0 prints when the ranks are done are the lengths *)
(* of shortest ways to the exit (distributedBFS, main).                      *)
THEOREM MazeDistances == MazeSpec => []DistancesAreShortest
<1>1. MazeInv => DistancesAreShortest
  BY KnownIsShortest, DoneIsAll DEF DistancesAreShortest
<1> QED BY <1>1, MazeInvariant, PTL

(* No rank is left alone in a collective: of two ranks one is at most one    *)
(* collective ahead, and only over the vote into the next level, so that the *)
(* hindmost can always go on (distributedBFS).                               *)
THEOREM MazeGoesOn == MazeSpec => []MazeNeverStuck
<1>1. MazeInv => MazeNeverStuck
  <2> SUFFICES ASSUME MazeInv, ~MazeNeverStuck PROVE FALSE
    OBVIOUS
  <2>1. \A p \in Rank : level[p] \in Nat /\ step[p] \in {"exchange", "reduce", "vote", "done"}
    BY DEF MazeInv, MazeTypeOK, MazeNeverStuck
  <2>2. \A p, q \in Rank : Together(p, q)
    BY DEF MazeInv
  <2>3. ASSUME NEW p \in Rank, step[p] = "exchange" PROVE FALSE
    <3>1. PICK q \in Rank : step[q] \notin {"exchange", "reduce"}
      BY <2>3 DEF MazeNeverStuck, CanExchange, AllIn
    <3>2. step[q] = "vote" /\ level[p] = level[q] + 1
      BY <2>1, <2>2, <2>3, <3>1 DEF Together, SameLevel, Ahead, Adjacent
    <3>3. ASSUME NEW x \in Rank PROVE step[x] \in {"vote", "done"} \/ level[x] > level[q]
      <4>1. Together(q, x) /\ Together(p, x)
        BY <2>2
      <4>2. CASE SameLevel(q, x)
        <5>1. level[x] = level[q] /\ step[x] \in {"reduce", "vote", "done"}
          BY <3>2, <4>2 DEF SameLevel, Adjacent
        <5>2. step[x] # "reduce"
          BY <2>1, <2>3, <3>2, <4>1, <5>1 DEF Together, SameLevel, Ahead
        <5> QED BY <5>1, <5>2
      <4>3. CASE Ahead(x, q)
        BY <2>1, <4>3 DEF Ahead
      <4>4. CASE Ahead(q, x)
        BY <3>2, <4>4 DEF Ahead
      <4> QED BY <4>1, <4>2, <4>3, <4>4 DEF Together
    <3>4. CanDecide(q)
      BY <3>2, <3>3 DEF CanDecide
    <3> QED BY <3>4 DEF MazeNeverStuck
  <2>4. ASSUME NEW p \in Rank, step[p] = "reduce" PROVE FALSE
    <3>1. PICK q \in Rank : step[q] \notin {"reduce", "vote"}
      BY <2>4 DEF MazeNeverStuck, CanReduce, AllIn
    <3>2. step[q] = "done"
      BY <2>1, <2>3, <3>1
    <3> QED BY <2>2, <2>4, <3>2 DEF Together, SameLevel, Ahead, Adjacent
  <2>5. ASSUME NEW p \in Rank, step[p] = "vote" PROVE FALSE
    <3>1. \A q \in Rank : step[q] \in {"vote", "done"}
      BY <2>1, <2>3, <2>4
    <3> QED BY <2>5, <3>1 DEF MazeNeverStuck, CanDecide
  <2> QED BY <2>1, <2>3, <2>4, <2>5 DEF MazeNeverStuck, MazeDone, AllIn
<1> QED BY <1>1, MazeInvariant, PTL

-----------------------------------------------------------------------------
(* Search: chunks as parts of the file *)

LEMMA LeastIs ==
    ASSUME NEW S \in SUBSET Nat, S # {}
    PROVE  Least(S) \in S /\ \A j \in S : Least(S) <= j
<1>1. \E i \in S : \A j \in S : i <= j
  BY LeastNatural
<1> QED BY <1>1 DEF Least

SearchTypeOK ==
    /\ text \in Seq(Letter) /\ word \in Seq(Letter \ {Space})
    /\ chunkNumber \in 0 .. NumChunks
    /\ searchPos \in Nat /\ searchPos >= PrevSize(chunkNumber)
    /\ offsets \subseteq Int

(* Where chunk k begins, or the file ends.                                   *)
Start(k) == IF k * ChunkSize < Len(text) THEN k * ChunkSize ELSE Len(text)

(* Where what is merged for chunk k begins.                                  *)
Base(k) == IF k = 0 THEN 0 ELSE Start(k - 1)

LEMMA MultipleNext ==
    ASSUME NEW k \in Nat
    PROVE  (k + 1) * ChunkSize = k * ChunkSize + ChunkSize /\ k * ChunkSize \in Nat
BY WordSearchAssumption

LEMMA NumChunksIs ==
    ASSUME text \in Seq(Letter)
    PROVE  /\ NumChunks \in Nat
           /\ \A k \in Nat : k < NumChunks <=> k * ChunkSize < Len(text)
<1> DEFINE n == Len(text)
           x == n + ChunkSize - 1
           d == x \div ChunkSize
<1>1. n \in Nat /\ x \in Nat /\ ChunkSize \in Nat \ {0}
  BY WordSearchAssumption
<1>2. d \in Nat /\ d * ChunkSize <= x /\ x < d * ChunkSize + ChunkSize
  <2> HIDE DEF x
  <2> QED BY <1>1
<1>3. ASSUME NEW k \in Nat  PROVE k < d <=> k * ChunkSize < n
  <2> HIDE DEF d
  <2>1. k < d => k * ChunkSize + ChunkSize <= d * ChunkSize
    BY <1>1, <1>2
  <2>2. ~(k < d) => d * ChunkSize <= k * ChunkSize
    BY <1>1, <1>2
  <2>3. k * ChunkSize \in Int /\ d * ChunkSize \in Int
    BY <1>1, <1>2
  <2> QED BY <1>1, <1>2, <2>1, <2>2, <2>3
<1> QED BY <1>2, <1>3 DEF NumChunks

LEMMA StartIs ==
    ASSUME text \in Seq(Letter), NEW k \in Nat
    PROVE  /\ Start(k) \in 0 .. Len(text)
           /\ Start(k + 1) \in Start(k) .. Len(text)
           /\ Start(k + 1) = Start(k) + ChunkSize \/ Start(k + 1) = Len(text)
           /\ k < NumChunks => Start(k) = k * ChunkSize /\ Start(k) < Start(k + 1)
           /\ k >= NumChunks => Start(k) = Len(text) /\ Start(k + 1) = Len(text)
<1>1. Len(text) \in Nat /\ ChunkSize \in Nat \ {0}
  BY WordSearchAssumption
<1>2. k < NumChunks <=> k * ChunkSize < Len(text)
  BY NumChunksIs
<1>3. NumChunks \in Nat
  BY NumChunksIs
<1> DEFINE a == k * ChunkSize
           b == (k + 1) * ChunkSize
<1>4. b = a + ChunkSize /\ a \in Nat
  BY MultipleNext
<1>5. Start(k) = (IF a < Len(text) THEN a ELSE Len(text))
      /\ Start(k + 1) = IF b < Len(text) THEN b ELSE Len(text)
  BY DEF Start
<1> HIDE DEF a, b
<1>6. k < NumChunks <=> a < Len(text)
  BY <1>2 DEF a
<1>7. k >= NumChunks <=> ~(k < NumChunks)
  BY <1>3
<1>8. k < NumChunks => Start(k) = a /\ Start(k) < Start(k + 1)
  BY <1>1, <1>4, <1>5, <1>6
<1>9. k >= NumChunks => Start(k) = Len(text) /\ Start(k + 1) = Len(text)
  BY <1>1, <1>4, <1>5, <1>6, <1>7
<1>10. /\ Start(k) \in 0 .. Len(text)
       /\ Start(k + 1) \in Start(k) .. Len(text)
       /\ Start(k + 1) = Start(k) + ChunkSize \/ Start(k + 1) = Len(text)
  BY <1>1, <1>4, <1>5
<1> QED BY <1>8, <1>9, <1>10 DEF a

LEMMA DataIs ==
    ASSUME text \in Seq(Letter), NEW k \in Nat
    PROVE  /\ Data(k) = SubSeq(text, Start(k) + 1, Start(k + 1))
           /\ Data(k) \in Seq(Letter)
           /\ Len(Data(k)) = Start(k + 1) - Start(k)
<1>1. Len(text) \in Nat /\ NumChunks \in Nat
  BY NumChunksIs
<1>2. Data(k) = SubSeq(text, Start(k) + 1, Start(k + 1))
  <2>1. CASE k < NumChunks
    <3> DEFINE b == (k + 1) * ChunkSize
    <3>1. b \in Nat
      BY MultipleNext, WordSearchAssumption
    <3>2. k \in 0 .. NumChunks - 1
      BY <1>1, <2>1
    <3>3. Data(k) = SubSeq(text, k * ChunkSize + 1, Least({b, Len(text)}))
      BY <3>2 DEF Data
    <3>4. Start(k + 1) = IF b < Len(text) THEN b ELSE Len(text)
      BY DEF Start
    <3>5. Start(k) = k * ChunkSize
      BY <2>1, StartIs
    <3> HIDE DEF b
    <3>6. Least({b, Len(text)}) = Start(k + 1)
      <4>1. {b, Len(text)} \in SUBSET Nat /\ {b, Len(text)} # {}
        BY <1>1, <3>1
      <4>2. Least({b, Len(text)}) \in {b, Len(text)}
            /\ \A j \in {b, Len(text)} : Least({b, Len(text)}) <= j
        BY <4>1, LeastIs
      <4> QED BY <1>1, <3>1, <3>4, <4>2
    <3> QED BY <3>3, <3>5, <3>6
  <2>2. CASE ~(k < NumChunks)
    <3>1. Data(k) = <<>>
      BY <1>1, <2>2 DEF Data
    <3>2. Start(k) = Len(text) /\ Start(k + 1) = Len(text)
      <4>1. k >= NumChunks
        BY <1>1, <2>2
      <4> QED BY <4>1, StartIs
    <3>3. SubSeq(text, Len(text) + 1, Len(text)) = <<>>
      BY <1>1, SubSeqEmpty
    <3> QED BY <3>1, <3>2, <3>3
  <2> QED BY <2>1, <2>2
<1>3. Start(k) \in 0 .. Len(text) /\ Start(k + 1) \in Start(k) .. Len(text)
  BY StartIs
<1>4. \A i \in Start(k) + 1 .. Start(k + 1) : text[i] \in Letter
  BY <1>1, <1>3
<1>5. /\ SubSeq(text, Start(k) + 1, Start(k + 1)) \in Seq(Letter)
      /\ Len(SubSeq(text, Start(k) + 1, Start(k + 1))) =
             IF Start(k) + 1 <= Start(k + 1) THEN Start(k + 1) - (Start(k) + 1) + 1 ELSE 0
  <2>1. Start(k) + 1 \in Int /\ Start(k + 1) \in Int
    BY <1>1, <1>3
  <2> QED BY <1>4, <2>1, SubSeqProperties
<1> QED BY <1>1, <1>2, <1>3, <1>5

LEMMA PrevSizeIs ==
    ASSUME text \in Seq(Letter), NEW k \in Nat
    PROVE  PrevSize(k) = Start(k) - Base(k) /\ Base(k) \in 0 .. Start(k)
<1>1. CASE k = 0
  <2>1. -1 \notin 0 .. NumChunks - 1 /\ 0 - 1 = -1
    OBVIOUS
  <2>2. Data(k - 1) = <<>>
    BY <1>1, <2>1 DEF Data
  <2>3. Start(0) = 0
    BY WordSearchAssumption DEF Start
  <2> QED BY <1>1, <2>2, <2>3 DEF PrevSize, Base
<1>2. CASE k # 0
  <2>1. k - 1 \in Nat /\ (k - 1) + 1 = k
    BY <1>2
  <2>2. Len(Data(k - 1)) = Start(k) - Start(k - 1)
    BY <2>1, DataIs
  <2>3. /\ Start(k - 1) \in 0 .. Len(text) /\ Start(k) \in Start(k - 1) .. Len(text)
        /\ Len(text) \in Nat
    <3>1. Start((k - 1) + 1) \in Start(k - 1) .. Len(text) /\ Start(k - 1) \in 0 .. Len(text)
      BY <2>1, StartIs
    <3> QED BY <2>1, <3>1
  <2> QED BY <1>2, <2>2, <2>3 DEF PrevSize, Base
<1> QED BY <1>1, <1>2

LEMMA MergedIs ==
    ASSUME text \in Seq(Letter), NEW k \in Nat
    PROVE  /\ Merged(k) = SubSeq(text, Base(k) + 1, Start(k + 2))
           /\ Start(k) <= Start(k + 2) /\ Start(k + 2) \in 0 .. Len(text)
           /\ Merged(k) \in Seq(Letter) /\ Len(Merged(k)) = Start(k + 2) - Base(k)
           /\ \A i \in 1 .. Len(Merged(k)) : Merged(k)[i] = text[Base(k) + i]
<1> DEFINE n == Len(text)
<1>1. n \in Nat /\ k + 1 \in Nat /\ (k + 1) + 1 = k + 2
  OBVIOUS
<1>2. /\ Base(k) \in 0 .. Start(k) /\ Start(k) \in 0 .. n /\ Start(k + 1) \in Start(k) .. n
      /\ Start(k + 2) \in Start(k + 1) .. n
  <2>1. Start((k + 1) + 1) \in Start(k + 1) .. n
    BY <1>1, StartIs
  <2> QED BY <1>1, <2>1, StartIs, PrevSizeIs
<1>3. Data(k) = SubSeq(text, Start(k) + 1, Start(k + 1))
      /\ Data(k + 1) = SubSeq(text, Start(k + 1) + 1, Start(k + 2))
  <2>1. Data(k + 1) = SubSeq(text, Start(k + 1) + 1, Start((k + 1) + 1))
    BY <1>1, DataIs
  <2> QED BY <1>1, <2>1, DataIs
<1>4. Data(k - 1) = SubSeq(text, Base(k) + 1, Start(k))
  <2>1. CASE k = 0
    <3>1. Data(k - 1) = <<>>
      BY <2>1 DEF Data
    <3>2. Start(0) = 0
      <4>1. 0 * ChunkSize = 0 /\ Len(text) \in Nat
        BY WordSearchAssumption
      <4> QED BY <4>1 DEF Start
    <3>3. Base(0) = 0
      BY DEF Base
    <3>4. SubSeq(text, 0 + 1, 0) = <<>>
      BY SubSeqEmpty
    <3> QED BY <2>1, <3>1, <3>2, <3>3, <3>4
  <2>2. CASE k # 0
    <3>1. k - 1 \in Nat /\ (k - 1) + 1 = k
      BY <2>2
    <3>2. Data(k - 1) = SubSeq(text, Start(k - 1) + 1, Start((k - 1) + 1))
      BY <3>1, DataIs
    <3> QED BY <2>2, <3>1, <3>2 DEF Base
  <2> QED BY <2>1, <2>2
<1> DEFINE b == Base(k) c == Start(k) e == Start(k + 1) f == Start(k + 2)
<1>5. b \in 0 .. c /\ c \in 0 .. n /\ e \in c .. n /\ f \in e .. n
  BY <1>2
<1>6. Merged(k) = (SubSeq(text, b + 1, c) \o SubSeq(text, c + 1, e)) \o SubSeq(text, e + 1, f)
  BY <1>3, <1>4 DEF Merged
<1> HIDE DEF b, c, e, f
<1>7. SubSeq(text, b + 1, c) \o SubSeq(text, c + 1, e) = SubSeq(text, b + 1, e)
  <2>1. b + 1 \in 1 .. n + 1 /\ c \in (b + 1) - 1 .. n /\ e \in c .. n
    BY <1>1, <1>5
  <2> QED BY <2>1, ConcatAdjacentSubSeq
<1>8. SubSeq(text, b + 1, e) \o SubSeq(text, e + 1, f) = SubSeq(text, b + 1, f)
  <2>1. b + 1 \in 1 .. n + 1 /\ e \in (b + 1) - 1 .. n /\ f \in e .. n
    BY <1>1, <1>5
  <2> QED BY <2>1, ConcatAdjacentSubSeq
<1>9. /\ SubSeq(text, b + 1, f) \in Seq(Letter)
      /\ Len(SubSeq(text, b + 1, f)) = f - b
      /\ \A i \in 1 .. f - b : SubSeq(text, b + 1, f)[i] = text[b + i]
  <2>1. \A i \in b + 1 .. f : text[i] \in Letter
    BY <1>1, <1>5
  <2>2. b + 1 \in Int /\ f \in Int
    BY <1>5
  <2>3. /\ SubSeq(text, b + 1, f) \in Seq(Letter)
        /\ Len(SubSeq(text, b + 1, f)) = IF b + 1 <= f THEN f - (b + 1) + 1 ELSE 0
        /\ \A i \in 1 .. f - (b + 1) + 1 : SubSeq(text, b + 1, f)[i] = text[(b + 1) + i - 1]
    BY <2>1, <2>2, SubSeqProperties
  <2> QED BY <1>5, <2>3
<1>10. Merged(k) = SubSeq(text, b + 1, f) /\ c <= f /\ f \in 0 .. n
  BY <1>1, <1>5, <1>6, <1>7, <1>8
<1> QED BY <1>9, <1>10 DEF b, c, f

(* A word is at a place when its letters are.                                *)
LEMMA HasWordIs ==
    ASSUME NEW s \in Seq(Letter), word \in Seq(Letter \ {Space}),
           NEW i \in Nat, i + Len(word) <= Len(s)
    PROVE  HasWordAt(s, i) <=> \A j \in 1 .. Len(word) : s[i + j] = word[j]
<1> DEFINE m == Len(word)
           t == SubSeq(s, i + 1, i + m)
<1>1. m \in Nat /\ Len(s) \in Nat
  OBVIOUS
<1>2. t \in Seq(Letter) /\ Len(t) = m /\ \A j \in 1 .. m : t[j] = s[i + j]
  <2>1. \A j \in i + 1 .. i + m : s[j] \in Letter
    BY <1>1
  <2>2. i + 1 \in Int /\ i + m \in Int
    BY <1>1
  <2>3. /\ t \in Seq(Letter)
        /\ Len(t) = IF i + 1 <= i + m THEN (i + m) - (i + 1) + 1 ELSE 0
        /\ \A j \in 1 .. (i + m) - (i + 1) + 1 : t[j] = s[(i + 1) + j - 1]
    BY <2>1, <2>2, SubSeqProperties
  <2> HIDE DEF t
  <2> QED BY <1>1, <2>3
<1>3. word \in Seq(Letter)
  OBVIOUS
<1>4. (\A j \in 1 .. m : t[j] = word[j]) => t = word
  <2> HIDE DEF t
  <2> SUFFICES ASSUME \A j \in 1 .. m : t[j] = word[j] PROVE t = word
    OBVIOUS
  <2> QED BY <1>2, <1>3, SeqEqual
<1> QED BY <1>2, <1>4 DEF HasWordAt

-----------------------------------------------------------------------------
(* The inductive invariant *)

(* What was found are matches that begin where a word does, and end where    *)
(* one does or where the file was cut.                                       *)
HitsInv ==
    Valid => \A o \in offsets :
        /\ o \in 0 .. Len(text) - Len(word)
        /\ HasWordAt(text, o)
        /\ o = 0 \/ At(text, o - 1) = Space
        /\ EndsAt(o) \/ (o + Len(word)) % ChunkSize = 0

(* No whole word before the place of the search was missed.                  *)
FoundInv ==
    Valid => \A o \in WholeWords : o < Base(chunkNumber) + searchPos => o \in offsets

SearchInv == SearchTypeOK /\ HitsInv /\ FoundInv

LEMMA SearchInvInit == SearchInit => SearchInv
<1> SUFFICES ASSUME SearchInit PROVE SearchInv
  OBVIOUS
<1>1. PICK t \in Seq(Letter), w \in Seq(Letter \ {Space}) : SearchStart(t, w)
  BY DEF SearchInit
<1>2. /\ text \in Seq(Letter) /\ word \in Seq(Letter \ {Space})
      /\ chunkNumber = 0 /\ searchPos = 0 /\ offsets = {}
  BY <1>1 DEF SearchStart
<1>3. NumChunks \in Nat
  BY <1>2, NumChunksIs
<1>4. PrevSize(0) = 0 /\ Base(0) = 0
  <2>1. Start(0) = 0
    <3>1. 0 * ChunkSize = 0 /\ Len(text) \in Nat
      BY <1>2, WordSearchAssumption
    <3> QED BY <3>1 DEF Start
  <2>2. Base(0) = 0
    BY DEF Base
  <2>3. PrevSize(0) = Start(0) - Base(0)
    BY <1>2, PrevSizeIs
  <2> QED BY <2>1, <2>2, <2>3
<1>5. SearchTypeOK
  BY <1>2, <1>3, <1>4 DEF SearchTypeOK
<1>6. HitsInv
  BY <1>2 DEF HitsInv
<1>7. FoundInv
  <2>1. \A o \in WholeWords : o \in Nat
    BY DEF WholeWords
  <2> QED BY <1>2, <1>4, <2>1 DEF FoundInv
<1> QED BY <1>5, <1>6, <1>7 DEF SearchInv

(* The chunk that is searched: where it lies in the file.                    *)
LEMMA ChunkFacts ==
    ASSUME SearchTypeOK, chunkNumber < NumChunks
    PROVE  /\ chunkNumber \in Nat /\ Len(text) \in Nat /\ Len(word) \in Nat
           /\ Base(chunkNumber) \in Nat
           /\ PrevSize(chunkNumber) = Start(chunkNumber) - Base(chunkNumber)
           /\ chunkNumber * ChunkSize - PrevSize(chunkNumber) = Base(chunkNumber)
           /\ PrevSize(chunkNumber) = 0 => Base(chunkNumber) = 0
           /\ Base(chunkNumber) <= Start(chunkNumber)
           /\ Start(chunkNumber) \in Nat /\ Start(chunkNumber + 1) \in Nat
           /\ Start(chunkNumber + 2) \in Nat
           /\ Len(Data(chunkNumber)) = Start(chunkNumber + 1) - Start(chunkNumber)
           /\ Start(chunkNumber + 2) <= Len(text)
           /\ \/ Start(chunkNumber + 2) = Start(chunkNumber + 1) + ChunkSize
              \/ Start(chunkNumber + 2) = Len(text)
           /\ \/ Start(chunkNumber + 2) = Len(text)
              \/ Start(chunkNumber + 2) % ChunkSize = 0
           /\ Len(Merged(chunkNumber)) = Start(chunkNumber + 2) - Base(chunkNumber)
<1> DEFINE k == chunkNumber
<1>1. /\ text \in Seq(Letter) /\ word \in Seq(Letter \ {Space}) /\ k \in Nat
      /\ NumChunks \in Nat /\ k < NumChunks
      /\ Len(text) \in Nat /\ Len(word) \in Nat /\ ChunkSize \in Nat \ {0}
  <2>1. /\ text \in Seq(Letter) /\ word \in Seq(Letter \ {Space}) /\ k \in 0 .. NumChunks
    BY DEF SearchTypeOK
  <2>2. NumChunks \in Nat
    BY <2>1, NumChunksIs
  <2>3. k \in Nat /\ k < NumChunks
    BY <2>1, <2>2
  <2> QED BY <2>1, <2>2, <2>3, WordSearchAssumption
<1> HIDE DEF k
<1>2. /\ Start(k) \in 0 .. Len(text) /\ Start(k) = k * ChunkSize
      /\ Start(k + 1) \in Start(k) .. Len(text)
  BY <1>1, StartIs
<1>3. PrevSize(k) = Start(k) - Base(k) /\ Base(k) \in 0 .. Start(k)
  BY <1>1, PrevSizeIs
<1>4. /\ Start(k + 2) \in Start(k + 1) .. Len(text)
      /\ Start(k + 2) = Start(k + 1) + ChunkSize \/ Start(k + 2) = Len(text)
  <2>1. k + 1 \in Nat /\ (k + 1) + 1 = k + 2
    BY <1>1
  <2>2. /\ Start((k + 1) + 1) \in Start(k + 1) .. Len(text)
        /\ Start((k + 1) + 1) = Start(k + 1) + ChunkSize \/ Start((k + 1) + 1) = Len(text)
    BY <1>1, <2>1, StartIs
  <2> QED BY <2>1, <2>2
<1>5. Start(k + 2) = Len(text) \/ Start(k + 2) % ChunkSize = 0
  <2>1. k + 2 \in Nat
    BY <1>1
  <2>2. Start(k + 2) = Len(text) \/ Start(k + 2) = (k + 2) * ChunkSize
    BY DEF Start
  <2>3. ((k + 2) * ChunkSize) % ChunkSize = 0
    <3>1. \A j \in Nat, c \in Nat \ {0} : (j * c) % c = 0
      OBVIOUS
    <3> QED BY <1>1, <2>1, <3>1
  <2> QED BY <2>2, <2>3
<1>6. PrevSize(k) = 0 => Base(k) = 0
  <2>1. CASE k = 0
    BY <2>1 DEF Base
  <2>2. CASE k # 0
    <3>1. k - 1 \in Nat /\ (k - 1) + 1 = k /\ k - 1 < NumChunks
      BY <1>1, <2>2
    <3>2. Start(k - 1) < Start((k - 1) + 1)
      BY <1>1, <3>1, StartIs
    <3>3. Base(k) = Start(k - 1)
      BY <2>2 DEF Base
    <3> QED BY <1>2, <1>3, <3>1, <3>2, <3>3
  <2> QED BY <2>1, <2>2
<1>7. Len(Data(k)) = Start(k + 1) - Start(k)
  BY <1>1, DataIs
<1>8. Len(Merged(k)) = Start(k + 2) - Base(k)
  BY <1>1, MergedIs
<1>9. k * ChunkSize - PrevSize(k) = Base(k)
  <2> DEFINE x == k * ChunkSize
  <2>1. Start(k) = x
    BY <1>2
  <2> HIDE DEF x
  <2>2. x - PrevSize(k) = Base(k)
    BY <1>2, <1>3, <2>1
  <2> QED BY <2>2 DEF x
<1>10. Base(k) \in Nat /\ Base(k) <= Start(k) /\ Start(k) \in Nat /\ Start(k + 1) \in Nat
       /\ Start(k + 2) \in Nat /\ Start(k + 2) <= Len(text)
  BY <1>1, <1>2, <1>3, <1>4
<1> QED BY <1>1, <1>3, <1>4, <1>5, <1>6, <1>7, <1>8, <1>9, <1>10 DEF k

(* What is found in the chunk is what the file has there.                    *)
LEMMA MergedHas ==
    ASSUME SearchTypeOK, chunkNumber < NumChunks, NEW i \in Nat,
           i + Len(word) <= Len(Merged(chunkNumber))
    PROVE  HasWordAt(Merged(chunkNumber), i) <=> HasWordAt(text, Base(chunkNumber) + i)
<1> DEFINE k == chunkNumber
           b == Base(chunkNumber)
           M == Merged(chunkNumber)
           m == Len(word)
<1>1. /\ text \in Seq(Letter) /\ word \in Seq(Letter \ {Space}) /\ k \in Nat /\ m \in Nat
      /\ Len(text) \in Nat /\ b \in Nat /\ Len(M) = Start(k + 2) - b
      /\ Start(k + 2) <= Len(text) /\ Start(k + 2) \in Nat
  BY ChunkFacts DEF SearchTypeOK
<1>2. M \in Seq(Letter) /\ \A j \in 1 .. Len(M) : M[j] = text[b + j]
  BY <1>1, MergedIs
<1> HIDE DEF k, b, M
<1>3. i + m <= Len(M)
  BY DEF M
<1>4. b + i \in Nat /\ (b + i) + m <= Len(text)
  BY <1>1, <1>3
<1>5. HasWordAt(M, i) <=> \A j \in 1 .. m : M[i + j] = word[j]
  BY <1>1, <1>2, <1>3, HasWordIs
<1>6. HasWordAt(text, b + i) <=> \A j \in 1 .. m : text[(b + i) + j] = word[j]
  BY <1>1, <1>4, HasWordIs
<1>7. \A j \in 1 .. m : M[i + j] = text[(b + i) + j]
  <2> TAKE j \in 1 .. m
  <2>1. i + j \in 1 .. Len(M) /\ b + (i + j) = (b + i) + j
    BY <1>1, <1>3
  <2> QED BY <1>2, <2>1
<1> QED BY <1>5, <1>6, <1>7 DEF M, b

(* While the file and the word stay, so do the chunks.                       *)
LEMMA SameFile ==
    ASSUME UNCHANGED <<text, word>>
    PROVE  /\ NumChunks' = NumChunks
           /\ \A k : Start(k)' = Start(k) /\ Base(k)' = Base(k)
           /\ \A k : PrevSize(k)' = PrevSize(k)
           /\ Valid' = Valid /\ WholeWords' = WholeWords
           /\ \A i : EndsAt(i)' = EndsAt(i) /\ HasWordAt(text, i)' = HasWordAt(text, i)
<1>1. NumChunks' = NumChunks
  BY DEF NumChunks
<1>2. \A k : Start(k)' = Start(k) /\ Base(k)' = Base(k)
  BY DEF Start, Base
<1>3. \A k : PrevSize(k)' = PrevSize(k)
  BY <1>1 DEF PrevSize, Data
<1>4. \A i : EndsAt(i)' = EndsAt(i) /\ HasWordAt(text, i)' = HasWordAt(text, i)
  BY DEF EndsAt, HasWordAt, At
<1>5. Valid' = Valid /\ WholeWords' = WholeWords
  BY DEF Valid, WholeWords, EndsAt, HasWordAt, At
<1> QED BY <1>1, <1>2, <1>3, <1>4, <1>5

-----------------------------------------------------------------------------
(* One match *)

(* Where the search goes on lies in the chunk or behind it.                  *)
LEMMA FindNextFacts ==
    ASSUME SearchInv, FindNext
    PROVE  \E i \in Nat :
              /\ i >= searchPos
              /\ i + Len(word) <= Len(Merged(chunkNumber))
              /\ HasWordAt(text, Base(chunkNumber) + i)
              /\ \A j \in Found : i <= j
              /\ offsets' = IF IsCompleteWord(Merged(chunkNumber), i)
                            THEN offsets \cup {Base(chunkNumber) + i} ELSE offsets
              /\ searchPos' = i + Len(word)
<1> DEFINE M == Merged(chunkNumber)
           i == Least(Found)
<1>1. SearchTypeOK /\ chunkNumber < NumChunks /\ Found # {}
  BY DEF SearchInv, FindNext, LooksOn
<1>2. Len(word) \in Nat /\ searchPos \in Nat
  BY <1>1, ChunkFacts DEF SearchTypeOK
<1>3. Len(M) \in Nat
  BY <1>1, ChunkFacts, MergedIs DEF SearchTypeOK
<1>4. Found \in SUBSET Nat
  <2> HIDE DEF M
  <2>1. Found \in SUBSET (searchPos .. Len(M) - Len(word))
    BY DEF Found, M
  <2> QED BY <1>2, <1>3, <2>1
<1>5. i \in Found /\ \A j \in Found : i <= j
  BY <1>1, <1>4, LeastIs
<1>6. i \in Nat /\ i >= searchPos /\ i + Len(word) <= Len(M) /\ HasWordAt(M, i)
  <2>1. i \in searchPos .. Len(M) - Len(word) /\ HasWordAt(M, i)
    BY <1>5 DEF Found
  <2> HIDE DEF i, M
  <2> QED BY <1>2, <1>3, <2>1
<1>7. HasWordAt(text, Base(chunkNumber) + i)
  BY <1>1, <1>6, MergedHas
<1>8. /\ offsets' = IF IsCompleteWord(M, i)
                    THEN offsets \cup {chunkNumber * ChunkSize - PrevSize(chunkNumber) + i}
                    ELSE offsets
      /\ searchPos' = i + Len(word)
  BY DEF FindNext, Past
<1>9. chunkNumber * ChunkSize - PrevSize(chunkNumber) = Base(chunkNumber)
  BY <1>1, ChunkFacts
<1> QED BY <1>5, <1>6, <1>7, <1>8, <1>9

LEMMA FindNextType == ASSUME SearchInv, FindNext PROVE SearchTypeOK'
<1>1. SearchTypeOK /\ chunkNumber < NumChunks /\ UNCHANGED <<text, word, chunkNumber>>
  BY DEF SearchInv, FindNext
<1>2. PICK i \in Nat :
          /\ i >= searchPos
          /\ offsets' = IF IsCompleteWord(Merged(chunkNumber), i)
                        THEN offsets \cup {Base(chunkNumber) + i} ELSE offsets
          /\ searchPos' = i + Len(word)
  BY FindNextFacts
<1>3. NumChunks' = NumChunks /\ PrevSize(chunkNumber)' = PrevSize(chunkNumber)
  BY <1>1 DEF NumChunks, PrevSize, Data
<1>4. /\ Len(word) \in Nat /\ Base(chunkNumber) \in Nat
      /\ PrevSize(chunkNumber) = Start(chunkNumber) - Base(chunkNumber)
      /\ Start(chunkNumber) \in Nat
  BY <1>1, ChunkFacts
<1>5. searchPos \in Nat /\ searchPos >= PrevSize(chunkNumber) /\ offsets \subseteq Int
  BY <1>1 DEF SearchTypeOK
<1>6. searchPos' \in Nat /\ searchPos' >= PrevSize(chunkNumber)
  BY <1>2, <1>4, <1>5
<1>7. offsets' \subseteq Int
  <2>1. Base(chunkNumber) + i \in Int
    BY <1>4
  <2> QED BY <1>2, <1>5, <2>1
<1> QED BY <1>1, <1>3, <1>6, <1>7 DEF SearchTypeOK

LEMMA FindNextHits == ASSUME SearchInv, FindNext PROVE HitsInv'
<1>1. /\ SearchTypeOK /\ HitsInv /\ chunkNumber < NumChunks
      /\ UNCHANGED <<text, word, chunkNumber>>
  BY DEF SearchInv, FindNext
<1> DEFINE k == chunkNumber
           b == Base(chunkNumber)
           M == Merged(chunkNumber)
           n == Len(text)
           m == Len(word)
<1>2. PICK i \in Nat :
          /\ i >= searchPos
          /\ i + m <= Len(M)
          /\ HasWordAt(text, b + i)
          /\ offsets' = IF IsCompleteWord(M, i) THEN offsets \cup {b + i} ELSE offsets
  BY FindNextFacts
<1>3. /\ n \in Nat /\ m \in Nat /\ b \in Nat /\ Start(k + 2) \in Nat
      /\ Len(M) = Start(k + 2) - b /\ Start(k + 2) <= n
      /\ Start(k + 2) = n \/ Start(k + 2) % ChunkSize = 0
      /\ PrevSize(k) = 0 => b = 0
      /\ PrevSize(k) = Start(k) - b /\ b <= Start(k) /\ Start(k) \in Nat
  BY <1>1, ChunkFacts
<1>4. searchPos \in Nat /\ searchPos >= PrevSize(k)
  BY <1>1 DEF SearchTypeOK
<1>5. \A j \in 1 .. Len(M) : M[j] = text[b + j]
  BY <1>1, <1>3, MergedIs, ChunkFacts DEF SearchTypeOK
<1>6. Valid' = Valid /\ \A o : EndsAt(o)' = EndsAt(o) /\ HasWordAt(text, o)' = HasWordAt(text, o)
                              /\ At(text, o)' = At(text, o)
  <2>1. \A o : At(text, o)' = At(text, o)
    BY <1>1 DEF At
  <2> QED BY <1>1, <2>1, SameFile
<1>7. ASSUME IsCompleteWord(M, i)
      PROVE  /\ b + i \in 0 .. n - m
             /\ b + i = 0 \/ At(text, (b + i) - 1) = Space
             /\ EndsAt(b + i) \/ ((b + i) + m) % ChunkSize = 0
  <2>1. (i > 0 => M[(i - 1) + 1] = Space)
        /\ (i + m < Len(M) => M[(i + m) + 1] = Space)
    BY <1>7 DEF IsCompleteWord, At
  <2> HIDE DEF M, b
  <2>2. b + i \in 0 .. n - m
    BY <1>2, <1>3
  <2>3. b + i = 0 \/ At(text, (b + i) - 1) = Space
    <3>1. CASE i > 0
      <4>1. i \in 1 .. Len(M) /\ (i - 1) + 1 = i /\ ((b + i) - 1) + 1 = b + i
        BY <1>2, <1>3, <3>1
      <4> QED BY <1>5, <2>1, <3>1, <4>1 DEF At
    <3>2. CASE i = 0
      <4>1. PrevSize(k) = 0
        BY <1>2, <1>3, <1>4, <3>2
      <4> QED BY <1>3, <3>2, <4>1
    <3> QED BY <3>1, <3>2
  <2>4. EndsAt(b + i) \/ ((b + i) + m) % ChunkSize = 0
    <3>1. CASE i + m < Len(M)
      <4>1. (i + m) + 1 \in 1 .. Len(M) /\ b + ((i + m) + 1) = ((b + i) + m) + 1
        BY <1>2, <1>3, <3>1
      <4> QED BY <1>5, <2>1, <3>1, <4>1 DEF At, EndsAt
    <3>2. CASE i + m = Len(M)
      <4>1. (b + i) + m = Start(k + 2)
        BY <1>2, <1>3, <3>2
      <4> QED BY <1>3, <4>1 DEF EndsAt
    <3> QED BY <1>2, <1>3, <3>1, <3>2
  <2> QED BY <2>2, <2>3, <2>4
<1>8. ASSUME Valid, NEW o \in offsets'
      PROVE  /\ o \in 0 .. n - m
             /\ HasWordAt(text, o)
             /\ o = 0 \/ At(text, o - 1) = Space
             /\ EndsAt(o) \/ (o + m) % ChunkSize = 0
  <2>1. CASE o \in offsets
    BY <1>1, <1>8, <2>1 DEF HitsInv
  <2>2. CASE o \notin offsets
    <3>1. o = b + i /\ IsCompleteWord(M, i)
      BY <1>2, <2>2
    <3> HIDE DEF b, M
    <3> QED BY <1>2, <1>7, <3>1
  <2> QED BY <2>1, <2>2
<1>9. n' = n /\ m' = m
  BY <1>1
<1> HIDE DEF n, m
<1>10. ASSUME Valid, NEW o \in offsets'
       PROVE  /\ o \in 0 .. (n - m)'
              /\ HasWordAt(text, o)'
              /\ o = 0 \/ At(text, o - 1)' = Space
              /\ EndsAt(o)' \/ (o + m)' % ChunkSize = 0
  BY <1>6, <1>8, <1>9, <1>10
<1> QED BY <1>6, <1>10 DEF HitsInv, n, m

(* A whole word that begins within a match is the match itself: the space    *)
(* before it would be a letter of the word.                                  *)
LEMMA FindNextFound == ASSUME SearchInv, FindNext PROVE FoundInv'
<1>1. /\ SearchTypeOK /\ FoundInv /\ chunkNumber < NumChunks
      /\ UNCHANGED <<text, word, chunkNumber>>
  BY DEF SearchInv, FindNext
<1> DEFINE k == chunkNumber
           b == Base(chunkNumber)
           M == Merged(chunkNumber)
           n == Len(text)
           m == Len(word)
<1>2. PICK i \in Nat :
          /\ i >= searchPos
          /\ i + m <= Len(M)
          /\ HasWordAt(text, b + i)
          /\ \A j \in Found : i <= j
          /\ offsets' = IF IsCompleteWord(M, i) THEN offsets \cup {b + i} ELSE offsets
          /\ searchPos' = i + m
  BY FindNextFacts
<1>3. /\ n \in Nat /\ m \in Nat /\ b \in Nat /\ Start(k + 2) \in Nat
      /\ Len(M) = Start(k + 2) - b /\ Start(k + 2) <= n
  BY <1>1, ChunkFacts
<1>4. searchPos \in Nat /\ text \in Seq(Letter) /\ word \in Seq(Letter \ {Space}) /\ k \in Nat
  BY <1>1, ChunkFacts DEF SearchTypeOK
<1>5. \A j \in 1 .. Len(M) : M[j] = text[b + j]
  BY <1>4, MergedIs
<1>6. ASSUME Valid, NEW o \in WholeWords, o < b + (i + m)
      PROVE  o \in offsets'
  <2>1. /\ o \in 0 .. n - m /\ HasWordAt(text, o)
        /\ o = 0 \/ At(text, o - 1) = Space
        /\ EndsAt(o)
    BY <1>6 DEF WholeWords
  <2>2. CASE o < b + searchPos
    <3>1. o \in offsets
      BY <1>1, <1>6, <2>2 DEF FoundInv
    <3> QED BY <1>2, <3>1
  <2>3. CASE b + searchPos <= o /\ o < b + i
    <3> DEFINE j == o - b
    <3>1. j \in Nat /\ searchPos <= j /\ j + m <= Len(M) /\ b + j = o /\ ~(i <= j)
      <4> HIDE DEF b, M, m, n
      <4> QED BY <1>2, <1>3, <1>4, <2>1, <2>3
    <3>2. HasWordAt(M, j)
      <4> HIDE DEF j
      <4> QED BY <1>1, <2>1, <3>1, MergedHas
    <3>3. j \in searchPos .. Len(M) - m
      <4> HIDE DEF j, b, M, m, n
      <4> QED BY <1>3, <1>4, <3>1
    <3>4. j \in Found
      BY <3>2, <3>3 DEF Found
    <3> QED BY <1>2, <3>1, <3>4
  <2>4. CASE o = b + i
    <3>1. (b + i = 0 \/ text[((b + i) - 1) + 1] = Space)
          /\ (b + i) + m <= n
          /\ ((b + i) + m = n \/ text[((b + i) + m) + 1] = Space)
      <4>1. (b + i = 0 \/ text[((b + i) - 1) + 1] = Space)
            /\ ((b + i) + m = n \/ text[((b + i) + m) + 1] = Space)
        BY <1>6, <2>4 DEF WholeWords, At, EndsAt
      <4> HIDE DEF b, M, m, n
      <4> QED BY <1>3, <2>1, <2>4, <4>1
    <3>2. i > 0 => M[(i - 1) + 1] = Space
      <4> HIDE DEF b, M, m, n
      <4> SUFFICES ASSUME i > 0 PROVE M[(i - 1) + 1] = Space
        OBVIOUS
      <4>1. i \in 1 .. Len(M) /\ (i - 1) + 1 = i /\ ((b + i) - 1) + 1 = b + i /\ b + i # 0
        BY <1>2, <1>3
      <4> QED BY <1>5, <3>1, <4>1
    <3>3. i + m < Len(M) => M[(i + m) + 1] = Space
      <4> HIDE DEF b, M, m, n
      <4> SUFFICES ASSUME i + m < Len(M) PROVE M[(i + m) + 1] = Space
        OBVIOUS
      <4>1. (i + m) + 1 \in 1 .. Len(M) /\ b + ((i + m) + 1) = ((b + i) + m) + 1 /\ (b + i) + m # n
        BY <1>2, <1>3
      <4> QED BY <1>5, <3>1, <4>1
    <3>4. IsCompleteWord(M, i)
      BY <3>2, <3>3 DEF IsCompleteWord, At
    <3> QED BY <1>2, <2>4, <3>4
  <2>5. CASE b + i < o
    <3> DEFINE j == o - (b + i)
    <3>1. j \in 1 .. m /\ (b + i) + j = (o - 1) + 1 /\ o # 0
      <4> HIDE DEF b, M, m, n
      <4> QED BY <1>3, <1>6, <2>1, <2>5
    <3>2. text[(b + i) + j] = Space
      <4>1. At(text, o - 1) = Space
        BY <1>6, <3>1 DEF WholeWords
      <4> QED BY <3>1, <4>1 DEF At
    <3>3. text[(b + i) + j] = word[j]
      <4>1. b + i \in Nat /\ (b + i) + m <= n
        <5> HIDE DEF b, M, m, n
        <5> QED BY <1>2, <1>3
      <4>2. \A h \in 1 .. m : text[(b + i) + h] = word[h]
        <5> HIDE DEF b
        <5> QED BY <1>2, <1>4, <4>1, HasWordIs
      <4> QED BY <3>1, <4>2
    <3>4. word[j] # Space
      <4> HIDE DEF j
      <4> QED BY <1>4, <3>1
    <3> QED BY <3>2, <3>3, <3>4
  <2> HIDE DEF b, M, m, n
  <2>6. o \in Nat
    BY <1>3, <2>1
  <2> QED BY <1>3, <1>4, <2>2, <2>3, <2>4, <2>5, <2>6
<1>7. Base(chunkNumber)' = b /\ Valid' = Valid /\ WholeWords' = WholeWords
  <2>1. Base(chunkNumber)' = b
    BY <1>1 DEF Base, Start
  <2> QED BY <1>1, <2>1, SameFile
<1> QED BY <1>2, <1>6, <1>7 DEF FoundInv

-----------------------------------------------------------------------------
(* The next chunk *)

LEMMA NextChunkInv == ASSUME SearchInv, NextChunkSearched PROVE SearchInv'
<1>1. /\ SearchTypeOK /\ HitsInv /\ FoundInv /\ chunkNumber < NumChunks /\ ~LooksOn
      /\ chunkNumber' = chunkNumber + 1 /\ searchPos' = PrevSize(chunkNumber + 1)
      /\ UNCHANGED <<text, word, offsets>>
  BY DEF SearchInv, NextChunkSearched
<1> DEFINE k == chunkNumber
           b == Base(chunkNumber)
           M == Merged(chunkNumber)
           n == Len(text)
           m == Len(word)
<1>2. /\ k \in Nat /\ n \in Nat /\ m \in Nat /\ b \in Nat
      /\ Start(k) \in Nat /\ Start(k + 1) \in Nat /\ Start(k + 2) \in Nat
      /\ Len(Data(k)) = Start(k + 1) - Start(k)
      /\ PrevSize(k) = Start(k) - b
      /\ Start(k + 2) = Start(k + 1) + ChunkSize \/ Start(k + 2) = n
      /\ Len(M) = Start(k + 2) - b
  BY <1>1, ChunkFacts
<1>3. /\ text \in Seq(Letter) /\ word \in Seq(Letter \ {Space}) /\ searchPos \in Nat
      /\ k \in 0 .. NumChunks /\ offsets \subseteq Int
  BY <1>1 DEF SearchTypeOK
<1>4. PrevSize(k + 1) = Start(k + 1) - Base(k + 1) /\ Base(k + 1) \in 0 .. Start(k + 1)
  <2>1. k + 1 \in Nat
    BY <1>2
  <2> QED BY <1>3, <2>1, PrevSizeIs
<1>5. PrevSize(k + 1) \in Nat
  BY <1>2, <1>4
<1>6. /\ NumChunks' = NumChunks /\ PrevSize(chunkNumber)' = PrevSize(k + 1)
      /\ Base(chunkNumber)' = Base(k + 1)
  BY <1>1 DEF NumChunks, PrevSize, Data, Base, Start
<1>7. SearchTypeOK'
  <2>1. NumChunks \in Nat
    BY <1>3, NumChunksIs
  <2>2. k + 1 \in 0 .. NumChunks
    BY <1>1, <1>2, <2>1
  <2>3. chunkNumber' \in 0 .. NumChunks'
    BY <1>1, <1>6, <2>2
  <2>4. searchPos' \in Nat /\ searchPos' >= PrevSize(chunkNumber)'
    BY <1>1, <1>5, <1>6
  <2> QED BY <1>1, <1>3, <2>3, <2>4 DEF SearchTypeOK
<1>8. HitsInv'
  BY <1>1 DEF HitsInv, Valid, EndsAt, HasWordAt, At
<1>9. ASSUME Valid, NEW o \in WholeWords, o < Start(k + 1)
      PROVE  o \in offsets
  <2>1. o \in 0 .. n - m /\ HasWordAt(text, o) /\ m <= ChunkSize /\ ChunkSize \in Nat
    BY <1>9, WordSearchAssumption DEF WholeWords, Valid
  <2>2. CASE o < b + searchPos
    BY <1>1, <1>9, <2>2 DEF FoundInv
  <2>3. CASE ~(o < b + searchPos)
    <3> DEFINE j == o - b
    <3>1. /\ j \in Nat /\ searchPos <= j /\ j + m <= Len(M) /\ b + j = o
          /\ searchPos < PrevSize(k) + Len(Data(k))
      <4> HIDE DEF k, b, M, m, n
      <4>1. o + m <= Start(k + 2)
        BY <1>2, <1>9, <2>1
      <4>2. b + searchPos < Start(k + 1)
        BY <1>2, <1>3, <1>9, <2>1, <2>3
      <4>3. searchPos < PrevSize(k) + Len(Data(k))
        BY <1>2, <1>3, <4>2
      <4>4. j \in Nat /\ searchPos <= j /\ b + j = o
        BY <1>2, <1>3, <2>1, <2>3
      <4>5. j + m <= Len(M)
        BY <1>2, <2>1, <4>1
      <4> QED BY <4>3, <4>4, <4>5
    <3>2. HasWordAt(M, j)
      <4> HIDE DEF j
      <4> QED BY <1>1, <2>1, <3>1, MergedHas
    <3>3. j \in searchPos .. Len(M) - m
      <4> HIDE DEF j, k, b, M, m, n
      <4> QED BY <1>2, <1>3, <3>1
    <3>4. j \in Found
      BY <3>2, <3>3 DEF Found
    <3> QED BY <1>1, <3>1, <3>4 DEF LooksOn
  <2> QED BY <2>2, <2>3
<1>10. FoundInv'
  <2>1. Base(chunkNumber)' + searchPos' = Start(k + 1)
    <3>1. Base(chunkNumber)' + searchPos' = Base(k + 1) + PrevSize(k + 1)
      BY <1>1, <1>6
    <3> HIDE DEF k
    <3> QED BY <1>2, <1>4, <3>1
  <2>2. Valid' = Valid /\ WholeWords' = WholeWords
    BY <1>1, SameFile
  <2> QED BY <1>1, <1>9, <2>1, <2>2 DEF FoundInv
<1> QED BY <1>7, <1>8, <1>10 DEF SearchInv

-----------------------------------------------------------------------------
(* The theorems *)

LEMMA SearchStutters == ASSUME SearchInv, UNCHANGED searchVars PROVE SearchInv'
<1>1. SearchTypeOK'
  BY DEF SearchInv, searchVars, SearchTypeOK, NumChunks, PrevSize, Data
<1>2. HitsInv'
  BY DEF SearchInv, searchVars, HitsInv, Valid, EndsAt, HasWordAt, At
<1>3. FoundInv'
  <2>1. Base(chunkNumber)' = Base(chunkNumber)
    BY DEF searchVars, Base, Start
  <2>2. Valid' = Valid /\ WholeWords' = WholeWords
    BY SameFile DEF searchVars
  <2> QED BY <2>1, <2>2 DEF SearchInv, searchVars, FoundInv
<1> QED BY <1>1, <1>2, <1>3 DEF SearchInv

(* Of a word that can be searched for, no whole word before the place of the *)
(* search has been missed, and what was found are matches at the beginning   *)
(* of a word that end with one or at a cut (searchWordInChunk).              *)
THEOREM SearchInvariant == SearchSpec => []SearchInv
<1>1. SearchInv /\ [SearchNext]_searchVars => SearchInv'
  <2> SUFFICES ASSUME SearchInv, [SearchNext]_searchVars PROVE SearchInv'
    OBVIOUS
  <2>1. CASE FindNext
    BY <2>1, FindNextType, FindNextHits, FindNextFound DEF SearchInv
  <2>2. CASE NextChunkSearched
    BY <2>2, NextChunkInv
  <2>3. CASE UNCHANGED searchVars
    BY <2>3, SearchStutters
  <2> QED BY <2>1, <2>2, <2>3 DEF SearchNext
<1> QED BY SearchInvInit, <1>1, PTL DEF SearchSpec

(* A finished search has found every whole word of the file, and nothing     *)
(* that is none but at the end of a chunk (searchWordInChunk,                *)
(* handleSearchWorker).                                                      *)
THEOREM SearchOffsets == SearchSpec => []OffsetsAreWords
<1>1. SearchInv => OffsetsAreWords
  <2> SUFFICES ASSUME SearchInv PROVE OffsetsAreWords
    OBVIOUS
  <2>1. FalseHitsAreCut
    BY DEF SearchInv, HitsInv, FalseHitsAreCut
  <2>2. WordsAreFound
    <3> SUFFICES ASSUME SearchDone, Valid, NEW o \in WholeWords PROVE o \in offsets
      BY DEF WordsAreFound
    <3> DEFINE k == chunkNumber
    <3>1. /\ text \in Seq(Letter) /\ word \in Seq(Letter \ {Space}) /\ k = NumChunks
          /\ searchPos \in Nat /\ searchPos >= PrevSize(k)
      BY DEF SearchInv, SearchTypeOK, SearchDone
    <3>2. k \in Nat /\ Len(text) \in Nat /\ Len(word) \in Nat
      BY <3>1, NumChunksIs
    <3> HIDE DEF k
    <3>3. k >= NumChunks
      BY <3>1, <3>2
    <3>4. Start(k) = Len(text)
      BY <3>1, <3>2, <3>3, StartIs
    <3>5. PrevSize(k) = Start(k) - Base(k) /\ Base(k) \in 0 .. Start(k)
      BY <3>1, <3>2, PrevSizeIs
    <3>6. o \in 0 .. Len(text) - Len(word) /\ Len(word) >= 1
      BY DEF WholeWords, Valid
    <3>7. o < Base(k) + searchPos
      BY <3>1, <3>2, <3>4, <3>5, <3>6
    <3> QED BY <3>7 DEF SearchInv, FoundInv, k
  <2> QED BY <2>1, <2>2 DEF OffsetsAreWords
<1> QED BY SearchInvariant, <1>1, PTL
-----------------------------------------------------------------------------
(* Balls: the torus *)

OnGrid == Ball(grid[1], grid[2])

LEMMA Wraps ==
    ASSUME NEW n \in Nat \ {0}, NEW a \in 0 .. n - 1
    PROVE  /\ (a + 1) % n = IF a = n - 1 THEN 0 ELSE a + 1
           /\ (a - 1 + n) % n = IF a = 0 THEN n - 1 ELSE a - 1
<1>1. \A c \in 0 .. n - 1 : c % n = c /\ (c + n) % n = c
  OBVIOUS
<1>2. CASE a = n - 1
  <2>1. a + 1 = 0 + n /\ 0 \in 0 .. n - 1
    BY <1>2
  <2>2. (a + 1) % n = 0
    BY <1>1, <2>1
  <2>3. a # 0 => (a - 1) \in 0 .. n - 1
    BY <1>2
  <2>4. a = 0 => a - 1 + n = n - 1 /\ n - 1 \in 0 .. n - 1
    BY <1>2
  <2> QED BY <1>1, <1>2, <2>2, <2>3, <2>4
<1>3. CASE a # n - 1
  <2>1. a + 1 \in 0 .. n - 1
    BY <1>3
  <2>2. a # 0 => (a - 1) \in 0 .. n - 1
    OBVIOUS
  <2>3. a = 0 => a - 1 + n = n - 1 /\ n - 1 \in 0 .. n - 1
    BY <1>3
  <2> QED BY <1>1, <1>3, <2>1, <2>2, <2>3
<1> QED BY <1>2, <1>3

(* A step forth and a step back are inverse to each other.                   *)
LEMMA ForthAndBack ==
    ASSUME NEW n \in Nat \ {0}, NEW a \in 0 .. n - 1, NEW b \in 0 .. n - 1
    PROVE  /\ (a + 1) % n \in 0 .. n - 1 /\ (a - 1 + n) % n \in 0 .. n - 1
           /\ (a + 1) % n = b <=> a = (b - 1 + n) % n
           /\ (a - 1 + n) % n = b <=> a = (b + 1) % n
<1>1. /\ (a + 1) % n = IF a = n - 1 THEN 0 ELSE a + 1
      /\ (a - 1 + n) % n = IF a = 0 THEN n - 1 ELSE a - 1
  BY Wraps
<1>2. /\ (b + 1) % n = IF b = n - 1 THEN 0 ELSE b + 1
      /\ (b - 1 + n) % n = IF b = 0 THEN n - 1 ELSE b - 1
  BY Wraps
<1> DEFINE a1 == (a + 1) % n
           a2 == (a - 1 + n) % n
           b1 == (b + 1) % n
           b2 == (b - 1 + n) % n
<1>3. (a1 = IF a = n - 1 THEN 0 ELSE a + 1) /\ (a2 = IF a = 0 THEN n - 1 ELSE a - 1)
  BY <1>1
<1>4. (b1 = IF b = n - 1 THEN 0 ELSE b + 1) /\ (b2 = IF b = 0 THEN n - 1 ELSE b - 1)
  BY <1>2
<1> HIDE DEF a1, a2, b1, b2
<1>5. a1 \in 0 .. n - 1 /\ a2 \in 0 .. n - 1
  BY <1>3
<1>6. (a1 = b <=> a = b2) /\ (a2 = b <=> a = b1)
  BY <1>3, <1>4
<1> QED BY <1>5, <1>6 DEF a1, a2, b1, b2

LEMMA GridIs ==
    ASSUME grid \in Grids
    PROVE  grid[1] \in Nat \ {0} /\ grid[2] \in Nat \ {0}
BY BallsAssumption

LEMMA BallIs ==
    ASSUME NEW b \in OnGrid
    PROVE  /\ b = <<b[1], b[2], b[3]>>
           /\ b[1] \in 0 .. grid[1] - 1 /\ b[2] \in 0 .. grid[2] - 1 /\ b[3] \in Direction
BY DEF OnGrid, Ball

(* The four balls that arrive in a cell.                                     *)
FromAbove(X, Y) == <<(X - 1 + grid[1]) % grid[1], Y, "D">>
FromBelow(X, Y) == <<(X + 1) % grid[1], Y, "U">>
FromLeft(X, Y)  == <<X, (Y - 1 + grid[2]) % grid[2], "R">>
FromRight(X, Y) == <<X, (Y + 1) % grid[2], "L">>
Arriving(X, Y) == {FromAbove(X, Y), FromBelow(X, Y), FromLeft(X, Y), FromRight(X, Y)}

LEMMA TargetIs ==
    ASSUME grid \in Grids, NEW b \in OnGrid
    PROVE  /\ Target(b) = <<Target(b)[1], Target(b)[2]>>
           /\ Target(b)[1] \in 0 .. grid[1] - 1 /\ Target(b)[2] \in 0 .. grid[2] - 1
           /\ \A X \in 0 .. grid[1] - 1, Y \in 0 .. grid[2] - 1 :
                 Target(b) = <<X, Y>> <=> b \in Arriving(X, Y)
<1> DEFINE N == grid[1]
           M == grid[2]
           x == b[1]
           y == b[2]
           d == b[3]
<1>1. N \in Nat \ {0} /\ M \in Nat \ {0} /\ x \in 0 .. N - 1 /\ y \in 0 .. M - 1
  BY GridIs, BallIs
<1>2. b = <<x, y, d>> /\ d \in {"L", "R", "U", "D"}
  BY BallIs DEF Direction
<1>3. Target(b) = CASE d = "R" -> <<x, (y + 1) % M>>
                    [] d = "L" -> <<x, (y - 1 + M) % M>>
                    [] d = "D" -> <<(x + 1) % N, y>>
                    [] d = "U" -> <<(x - 1 + N) % N, y>>
  BY DEF Target, findNextPos
<1>4. /\ (x + 1) % N \in 0 .. N - 1 /\ (x - 1 + N) % N \in 0 .. N - 1
      /\ (y + 1) % M \in 0 .. M - 1 /\ (y - 1 + M) % M \in 0 .. M - 1
  <2> HIDE DEF N, M, x, y
  <2> QED BY <1>1, ForthAndBack
<1>5. ASSUME NEW X \in 0 .. N - 1
      PROVE  ((x + 1) % N = X <=> x = (X - 1 + N) % N) /\ ((x - 1 + N) % N = X <=> x = (X + 1) % N)
  <2> HIDE DEF N, M, x, y
  <2> QED BY <1>1, <1>5, ForthAndBack
<1>6. ASSUME NEW Y \in 0 .. M - 1
      PROVE  ((y + 1) % M = Y <=> y = (Y - 1 + M) % M) /\ ((y - 1 + M) % M = Y <=> y = (Y + 1) % M)
  <2> HIDE DEF N, M, x, y
  <2> QED BY <1>1, <1>6, ForthAndBack
<1>7. ASSUME NEW X \in 0 .. N - 1, NEW Y \in 0 .. M - 1
      PROVE  Target(b) = <<X, Y>> <=> b \in Arriving(X, Y)
  <2>1. b \in Arriving(X, Y) <=>
            \/ <<x, y, d>> = <<(X - 1 + N) % N, Y, "D">>
            \/ <<x, y, d>> = <<(X + 1) % N, Y, "U">>
            \/ <<x, y, d>> = <<X, (Y - 1 + M) % M, "R">>
            \/ <<x, y, d>> = <<X, (Y + 1) % M, "L">>
    <3> HIDE DEF x, y, d
    <3> QED BY <1>2 DEF Arriving, FromAbove, FromBelow, FromLeft, FromRight
  <2>2. ((x + 1) % N = X <=> x = (X - 1 + N) % N) /\ ((x - 1 + N) % N = X <=> x = (X + 1) % N)
    BY <1>5
  <2>3. ((y + 1) % M = Y <=> y = (Y - 1 + M) % M) /\ ((y - 1 + M) % M = Y <=> y = (Y + 1) % M)
    BY <1>6
  <2> DEFINE x1 == (x + 1) % N x2 == (x - 1 + N) % N
             y1 == (y + 1) % M y2 == (y - 1 + M) % M
             X1 == (X + 1) % N X2 == (X - 1 + N) % N
             Y1 == (Y + 1) % M Y2 == (Y - 1 + M) % M
  <2> HIDE DEF x1, x2, y1, y2, X1, X2, Y1, Y2
  <2>4. Target(b) = CASE d = "R" -> <<x, y1>> [] d = "L" -> <<x, y2>>
                      [] d = "D" -> <<x1, y>> [] d = "U" -> <<x2, y>>
    BY <1>3 DEF x1, x2, y1, y2
  <2>5. b \in Arriving(X, Y) <=>
            \/ x = X2 /\ y = Y /\ d = "D"
            \/ x = X1 /\ y = Y /\ d = "U"
            \/ x = X /\ y = Y2 /\ d = "R"
            \/ x = X /\ y = Y1 /\ d = "L"
    BY <2>1 DEF X1, X2, Y1, Y2
  <2>6. (x1 = X <=> x = X2) /\ (x2 = X <=> x = X1) /\ (y1 = Y <=> y = Y2) /\ (y2 = Y <=> y = Y1)
    BY <2>2, <2>3 DEF x1, x2, y1, y2, X1, X2, Y1, Y2
  <2> HIDE DEF x, y, d
  <2>7. CASE d = "R"
    BY <2>4, <2>5, <2>6, <2>7
  <2>8. CASE d = "L"
    BY <2>4, <2>5, <2>6, <2>8
  <2>9. CASE d = "D"
    BY <2>4, <2>5, <2>6, <2>9
  <2>10. CASE d = "U"
    BY <2>4, <2>5, <2>6, <2>10
  <2> QED BY <1>2, <2>7, <2>8, <2>9, <2>10
<1>8. /\ Target(b) = <<Target(b)[1], Target(b)[2]>>
      /\ Target(b)[1] \in 0 .. N - 1 /\ Target(b)[2] \in 0 .. M - 1
  <2> DEFINE x1 == (x + 1) % N x2 == (x - 1 + N) % N
             y1 == (y + 1) % M y2 == (y - 1 + M) % M
  <2> HIDE DEF x1, x2, y1, y2
  <2>1. Target(b) = CASE d = "R" -> <<x, y1>> [] d = "L" -> <<x, y2>>
                      [] d = "D" -> <<x1, y>> [] d = "U" -> <<x2, y>>
    BY <1>3 DEF x1, x2, y1, y2
  <2>2. x1 \in 0 .. N - 1 /\ x2 \in 0 .. N - 1 /\ y1 \in 0 .. M - 1 /\ y2 \in 0 .. M - 1
    BY <1>4 DEF x1, x2, y1, y2
  <2>3. d \in {"L", "R", "U", "D"}
    BY <1>2
  <2> HIDE DEF x, y, d
  <2> QED BY <1>1, <2>1, <2>2, <2>3
<1> QED BY <1>7, <1>8

-----------------------------------------------------------------------------
(* The simulation *)

LEMMA TurnedIs ==
    ASSUME NEW d \in Direction, NEW n
    PROVE  Turned(d, n) \in Direction
BY DEF Turned, Direction, rotateBy90, reverseDirection

LEMMA SteppedIs ==
    ASSUME grid \in Grids, NEW s \in Seq(OnGrid)
    PROVE  Stepped(s) \in Seq(OnGrid) /\ Len(Stepped(s)) = Len(s)
<1> DEFINE v == Stepped(s)
<1>1. Len(s) \in Nat /\ DOMAIN s = 1 .. Len(s)
  OBVIOUS
<1>2. ASSUME NEW i \in 1 .. Len(s)
      PROVE  v[i] \in OnGrid
  <2> DEFINE to == Target(s[i])
             dd == Turned(s[i][3], Arrivals(s, to))
  <2>1. s[i] \in OnGrid
    OBVIOUS
  <2>2. to[1] \in 0 .. grid[1] - 1 /\ to[2] \in 0 .. grid[2] - 1
    BY <2>1, TargetIs
  <2>3. dd \in Direction
    BY <2>1, BallIs, TurnedIs
  <2>4. v[i] = <<to[1], to[2], dd>>
    BY <1>1 DEF Stepped
  <2> HIDE DEF v, to, dd
  <2> QED BY <2>2, <2>3, <2>4 DEF OnGrid, Ball
<1>3. v = [i \in 1 .. Len(s) |-> v[i]]
  BY <1>1 DEF Stepped
<1> HIDE DEF v
<1>4. v \in [1 .. Len(s) -> OnGrid]
  BY <1>2, <1>3
<1>5. v \in Seq(OnGrid) /\ Len(v) = Len(s)
  BY <1>1, <1>4
<1> QED BY <1>5 DEF v

(* Simulated is a function that satisfies its recursive definition: one on   *)
(* 0 .. n is extended by one value to 0 .. n + 1.                            *)
LEMMA SimulatedDef ==
    Simulated = [t \in 0 .. Steps |-> IF t = 0 THEN balls ELSE Stepped(Simulated[t - 1])]
<1> DEFINE Is(W, n) == W = [k \in 0 .. n |-> IF k = 0 THEN balls ELSE Stepped(W[k - 1])]
           Bad == {n \in Nat : ~ \E W : Is(W, n)}
<1>1. Bad = {}
  <2> SUFFICES ASSUME Bad # {} PROVE FALSE
    OBVIOUS
  <2>1. PICK n \in Bad : \A m \in Bad : n <= m
    <3>1. Bad \in SUBSET Nat
      OBVIOUS
    <3> QED BY <3>1, LeastNatural
  <2>2. n # 0
    <3>1. Is([k \in 0 .. 0 |-> balls], 0)
      OBVIOUS
    <3> QED BY <3>1
  <2>3. n \in Nat /\ n - 1 \in Nat /\ n - 1 \notin Bad
    <3>1. n \in Nat
      OBVIOUS
    <3>2. n - 1 \in Nat /\ ~(n <= n - 1)
      BY <2>2, <3>1
    <3> HIDE DEF Bad
    <3> QED BY <2>1, <3>1, <3>2
  <2>4. PICK W : Is(W, n - 1)
    BY <2>3
  <2> DEFINE V == [k \in 0 .. n |-> IF k < n THEN W[k] ELSE Stepped(W[n - 1])]
             rhs == [k \in 0 .. n |-> IF k = 0 THEN balls ELSE Stepped(V[k - 1])]
  <2>5. \A k \in 0 .. n - 1 : W[k] = IF k = 0 THEN balls ELSE Stepped(W[k - 1])
    <3>1. W = [k \in 0 .. n - 1 |-> IF k = 0 THEN balls ELSE Stepped(W[k - 1])]
      BY <2>4
    <3> QED BY <3>1
  <2>6. ASSUME NEW k \in 0 .. n PROVE V[k] = IF k = 0 THEN balls ELSE Stepped(V[k - 1])
    <3>1. CASE k = 0
      <4>1. 0 \in 0 .. n - 1 /\ V[0] = W[0]
        BY <2>2, <2>3
      <4> QED BY <2>5, <3>1, <4>1
    <3>2. CASE k # 0
      <4>1. k - 1 \in 0 .. n /\ k - 1 < n
        BY <2>3, <3>2
      <4>2. V[k - 1] = W[k - 1]
        BY <4>1
      <4>3. V[k] = Stepped(W[k - 1])
        <5>1. CASE k < n
          <6>1. V[k] = W[k] /\ k \in 0 .. n - 1
            BY <2>3, <5>1
          <6> QED BY <2>5, <3>2, <6>1
        <5>2. CASE ~(k < n)
          <6>1. k = n
            BY <2>3, <5>2
          <6> QED BY <5>2, <6>1
        <5> QED BY <5>1, <5>2
      <4> HIDE DEF V
      <4> QED BY <3>2, <4>2, <4>3
    <3> QED BY <3>1, <3>2
  <2>7. V = rhs
    <3>1. \A k \in 0 .. n : V[k] = rhs[k]
      BY <2>6
    <3> QED BY <3>1
  <2>8. Is(V, n)
    BY <2>7
  <2> QED BY <2>1, <2>8
<1>2. PICK W : Is(W, Steps)
  <2>1. Steps \in Nat
    BY BallsAssumption
  <2> QED BY <1>1, <2>1
<1> QED BY <1>2 DEF Simulated

LEMMA SimulatedSteps ==
    /\ Simulated[0] = balls
    /\ \A t \in 1 .. Steps : Simulated[t] = Stepped(Simulated[t - 1])
<1> DEFINE W == Simulated
<1>1. W = [t \in 0 .. Steps |-> IF t = 0 THEN balls ELSE Stepped(W[t - 1])]
  BY SimulatedDef
<1> HIDE DEF W
<1>2. \A t \in 0 .. Steps : W[t] = IF t = 0 THEN balls ELSE Stepped(W[t - 1])
  BY <1>1
<1>3. 0 \in 0 .. Steps /\ \A t \in 1 .. Steps : t \in 0 .. Steps /\ t # 0
  BY BallsAssumption
<1>4. W[0] = balls
  BY <1>2, <1>3
<1>5. \A t \in 1 .. Steps : W[t] = Stepped(W[t - 1])
  BY <1>2, <1>3
<1> QED BY <1>4, <1>5 DEF W

LEMMA SimulatedIs ==
    ASSUME grid \in Grids, balls \in Seq(OnGrid)
    PROVE  \A t \in 0 .. Steps : Simulated[t] \in Seq(OnGrid) /\ Len(Simulated[t]) = Len(balls)
<1> DEFINE Good(t) == Simulated[t] \in Seq(OnGrid) /\ Len(Simulated[t]) = Len(balls)
           Bad == {t \in 0 .. Steps : ~Good(t)}
<1> SUFFICES ASSUME Bad # {} PROVE FALSE
  OBVIOUS
<1>1. PICK t \in Bad : \A m \in Bad : t <= m
  <2>1. Bad \in SUBSET Nat
    BY BallsAssumption
  <2> QED BY <2>1, LeastNatural
<1>2. t # 0
  BY <1>1, SimulatedSteps
<1>3. t \in 1 .. Steps /\ t - 1 \in 0 .. Steps /\ ~(t <= t - 1)
  BY <1>2, BallsAssumption
<1>4. Good(t - 1)
  BY <1>1, <1>3
<1>5. Good(t)
  BY <1>3, <1>4, SimulatedSteps, SteppedIs
<1> QED BY <1>5

-----------------------------------------------------------------------------
(* The chunks *)

(* Where the balls of rank r begin, counted from 0, or the balls end.        *)
First(r) == IF r * chunk_size < Len(balls) THEN r * chunk_size ELSE Len(balls)

(* The balls of rank r after t steps of the simulation.                      *)
Part(r, t) == SubSeq(Simulated[t], First(r) + 1, First(r + 1))

LEMMA ChunkSizeIs ==
    ASSUME Len(balls) \in Nat
    PROVE  chunk_size \in Nat /\ Ranks * chunk_size >= Len(balls) /\ Ranks \in Nat \ {0}
<1> DEFINE k == Len(balls)
           x == k + Ranks - 1
           d == x \div Ranks
<1>1. k \in Nat /\ x \in Nat /\ Ranks \in Nat \ {0}
  BY BallsAssumption
<1>2. d \in Nat /\ d * Ranks <= x /\ x < d * Ranks + Ranks
  <2> HIDE DEF x
  <2> QED BY <1>1
<1>3. Ranks * d >= k
  <2>1. x = k + Ranks - 1
    OBVIOUS
  <2> HIDE DEF d, x, k
  <2>2. Ranks * d = d * Ranks /\ d * Ranks \in Int
    BY <1>1, <1>2
  <2> DEFINE y == d * Ranks
  <2>3. y \in Int /\ x < y + Ranks /\ Ranks * d = y
    BY <1>2, <2>2
  <2> HIDE DEF y
  <2> QED BY <1>1, <2>1, <2>3
<1> QED BY <1>1, <1>2, <1>3 DEF chunk_size

LEMMA FirstIs ==
    ASSUME Len(balls) \in Nat, NEW r \in Nat
    PROVE  /\ First(r) \in 0 .. Len(balls) /\ First(r + 1) \in First(r) .. Len(balls)
           /\ First(0) = 0 /\ First(Ranks) = Len(balls)
<1> DEFINE k == Len(balls)
           a == r * chunk_size
           b == (r + 1) * chunk_size
           z == 0 * chunk_size
           w == Ranks * chunk_size
<1>1. /\ a \in Nat /\ b = a + chunk_size /\ chunk_size \in Nat /\ k \in Nat /\ z = 0
      /\ w >= k /\ w \in Nat
  <2>1. chunk_size \in Nat /\ Ranks \in Nat
    BY ChunkSizeIs
  <2> QED BY <2>1, ChunkSizeIs
<1>2. /\ First(r) = (IF a < k THEN a ELSE k) /\ First(r + 1) = (IF b < k THEN b ELSE k)
      /\ First(0) = (IF z < k THEN z ELSE k) /\ First(Ranks) = (IF w < k THEN w ELSE k)
  BY DEF First
<1> HIDE DEF a, b, z, w
<1>3. First(r) \in 0 .. k /\ First(r + 1) \in First(r) .. k
  BY <1>1, <1>2
<1>4. First(0) = 0 /\ First(Ranks) = k
  BY <1>1, <1>2
<1> QED BY <1>3, <1>4

(* What rank 0 sends is the part of the input.                               *)
LEMMA ChunkIs ==
    ASSUME balls \in Seq(OnGrid), NEW r \in Procs
    PROVE  Chunk(r) = SubSeq(balls, First(r) + 1, First(r + 1))
<1> DEFINE k == Len(balls)
           a == r * chunk_size
           b == (r + 1) * chunk_size
<1>1. k \in Nat /\ r \in Nat
  BY BallsAssumption DEF Procs
<1>2. a \in Nat /\ b = a + chunk_size /\ b \in Nat
  <2>1. chunk_size \in Nat
    BY <1>1, ChunkSizeIs
  <2> QED BY <1>1, <2>1
<1>3. Chunk(r) = SubSeq(balls, a + 1, Min({b, k}))
  BY DEF Chunk
<1>4. First(r) = (IF a < k THEN a ELSE k) /\ First(r + 1) = (IF b < k THEN b ELSE k)
  BY DEF First
<1> HIDE DEF a, b, k
<1>5. Min({b, k}) = First(r + 1)
  <2> DEFINE m == First(r + 1)
  <2>1. {b, k} \in SUBSET Nat /\ m \in {b, k} /\ \A j \in {b, k} : m <= j
    BY <1>1, <1>2, <1>4
  <2> HIDE DEF m
  <2>2. Min({b, k}) = m
    BY <2>1, MinIs
  <2> QED BY <2>2 DEF m
<1>6. CASE a < k
  BY <1>3, <1>4, <1>5, <1>6
<1>7. CASE ~(a < k)
  <2>1. First(r) = k /\ First(r + 1) = k /\ k < a + 1 /\ k < k + 1
    BY <1>1, <1>2, <1>4, <1>7, ChunkSizeIs DEF k
  <2>2. SubSeq(balls, a + 1, k) = <<>>
    BY <1>1, <1>2, <2>1, SubSeqEmpty
  <2>3. SubSeq(balls, k + 1, k) = <<>>
    BY <1>1, <2>1, SubSeqEmpty
  <2> QED BY <1>3, <1>5, <2>1, <2>2, <2>3
<1> QED BY <1>6, <1>7

(* A part of a sequence of as many balls.                                    *)
LEMMA PartIs ==
    ASSUME balls \in Seq(OnGrid), NEW s \in Seq(OnGrid), Len(s) = Len(balls), NEW r \in Procs
    PROVE  LET p == SubSeq(s, First(r) + 1, First(r + 1))
           IN  /\ p \in Seq(OnGrid) /\ Len(p) = First(r + 1) - First(r)
               /\ First(r) \in Nat /\ First(r + 1) \in Nat /\ First(r) <= First(r + 1)
               /\ First(r + 1) <= Len(s)
               /\ \A i \in 1 .. Len(p) : p[i] = s[First(r) + i]
<1> DEFINE p == SubSeq(s, First(r) + 1, First(r + 1))
           a == First(r)
           b == First(r + 1)
<1>1. Len(s) \in Nat /\ r \in Nat
  BY BallsAssumption DEF Procs
<1>2. a \in 0 .. Len(s) /\ b \in a .. Len(s)
  BY <1>1, FirstIs
<1> HIDE DEF a, b
<1> DEFINE q == SubSeq(s, a + 1, b)
<1>3. /\ q \in Seq(OnGrid) /\ Len(q) = IF a + 1 <= b THEN b - (a + 1) + 1 ELSE 0
      /\ \A i \in 1 .. b - (a + 1) + 1 : q[i] = s[(a + 1) + i - 1]
  <2>1. \A i \in a + 1 .. b : s[i] \in OnGrid
    BY <1>1, <1>2
  <2>2. a + 1 \in Int /\ b \in Int
    BY <1>2
  <2> QED BY <2>1, <2>2, SubSeqProperties
<1> HIDE DEF q
<1>4. /\ q \in Seq(OnGrid) /\ Len(q) = b - a
      /\ a \in Nat /\ b \in Nat /\ a <= b /\ b <= Len(s)
      /\ \A i \in 1 .. Len(q) : q[i] = s[a + i]
  BY <1>1, <1>2, <1>3
<1> QED BY <1>4 DEF a, b, q

-----------------------------------------------------------------------------
(* The counts *)

(* Where a ball is among those with the numbers a + 1 to b.                  *)
Places(s, a, b, key) == {j \in a + 1 .. b : s[j] = key}

LEMMA PlacesFinite ==
    ASSUME NEW s, NEW a \in Nat, NEW b \in Nat, NEW key
    PROVE  IsFiniteSet(Places(s, a, b, key)) /\ Cardinality(Places(s, a, b, key)) \in Nat
<1>1. Places(s, a, b, key) \in SUBSET (a + 1 .. b) /\ IsFiniteSet(a + 1 .. b)
  <2>1. a + 1 \in Int /\ b \in Int
    OBVIOUS
  <2>2. IsFiniteSet(a + 1 .. b)
    BY <2>1, FS_Interval
  <2> QED BY <2>2 DEF Places
<1>2. IsFiniteSet(Places(s, a, b, key))
  BY <1>1, FS_Subset
<1> QED BY <1>2, FS_CardinalityType

(* The balls of a rank, counted in its chunk or in the whole sequence.       *)
LEMMA CountIs ==
    ASSUME balls \in Seq(OnGrid), NEW s \in Seq(OnGrid), Len(s) = Len(balls), NEW r \in Procs,
           NEW key
    PROVE  Count(SubSeq(s, First(r) + 1, First(r + 1)), key)
           = Cardinality(Places(s, First(r), First(r + 1), key))
<1> DEFINE a == First(r)
           b == First(r + 1)
           p == SubSeq(s, a + 1, b)
           S == {i \in DOMAIN p : p[i] = key}
           T == Places(s, a, b, key)
           f == [j \in T |-> j - a]
<1>1. /\ p \in Seq(OnGrid) /\ Len(p) = b - a /\ a \in Nat /\ b \in Nat /\ a <= b
      /\ \A i \in 1 .. Len(p) : p[i] = s[a + i]
  BY PartIs
<1>2. DOMAIN p = 1 .. b - a
  BY <1>1
<1> HIDE DEF a, b, p
<1>3. ASSUME NEW j \in T PROVE j \in Nat /\ j - a \in S
  <2>1. j \in a + 1 .. b /\ s[j] = key
    BY DEF Places
  <2>2. j - a \in 1 .. b - a /\ a + (j - a) = j /\ j \in Nat
    BY <1>1, <2>1
  <2> QED BY <1>1, <1>2, <2>1, <2>2
<1>4. ASSUME NEW i \in S PROVE i \in Nat /\ a + i \in T /\ (a + i) - a = i
  <2>1. i \in 1 .. b - a /\ s[a + i] = key
    BY <1>1, <1>2
  <2>2. a + i \in a + 1 .. b /\ (a + i) - a = i /\ i \in Nat
    BY <1>1, <2>1
  <2> QED BY <2>1, <2>2 DEF Places
<1> HIDE DEF S, T
<1>5. f \in Bijection(T, S)
  <2>1. f \in [T -> S]
    BY <1>3
  <2>2. \A i, j \in T : f[i] = f[j] => i = j
    <3> TAKE i, j \in T
    <3>1. f[i] = i - a /\ f[j] = j - a /\ i \in Nat /\ j \in Nat
      BY <1>3
    <3> QED BY <1>1, <3>1
  <2>3. \A i \in S : \E j \in T : f[j] = i
    <3> TAKE i \in S
    <3>1. a + i \in T /\ f[a + i] = i
      BY <1>4
    <3> QED BY <3>1
  <2> QED BY <2>1, <2>2, <2>3 DEF Bijection, Injection, Surjection, IsInjective
<1>6. IsFiniteSet(T)
  BY <1>1, PlacesFinite DEF T
<1>7. Cardinality(S) = Cardinality(T)
  BY <1>5, <1>6, FS_Bijection DEF ExistsBijection
<1> QED BY <1>7 DEF S, T, p, a, b, Count

LEMMA ContributedIs ==
    ASSUME balls \in Seq(OnGrid), NEW s \in Seq(OnGrid), Len(s) = Len(balls), NEW r \in Procs,
           NEW key, NEW t,
           shared[r][t] = local_collisions(SubSeq(s, First(r) + 1, First(r + 1)))
    PROVE  Contributed(t, key, r) = Cardinality(Places(s, First(r), First(r + 1), key))
<1> DEFINE p == SubSeq(s, First(r) + 1, First(r + 1))
           T == Places(s, First(r), First(r + 1), key)
           keys == {p[i] : i \in DOMAIN p}
<1>1. Count(p, key) = Cardinality(T)
  BY CountIs
<1>2. shared[r][t] = [b \in keys |-> Count(p, b)]
  BY DEF local_collisions
<1>3. key \notin keys => Count(p, key) = 0
  <2> SUFFICES ASSUME key \notin keys PROVE Count(p, key) = 0
    OBVIOUS
  <2> HIDE DEF p
  <2>1. {i \in DOMAIN p : p[i] = key} = {}
    OBVIOUS
  <2>2. Cardinality({}) = 0
    BY FS_EmptySet
  <2> QED BY <2>1, <2>2 DEF Count
<1> HIDE DEF T, p, keys
<1>4. DOMAIN shared[r][t] = keys /\ (key \in keys => shared[r][t][key] = Count(p, key))
  BY <1>2
<1> QED BY <1>1, <1>3, <1>4 DEF Contributed, T

(* A sum that is known for every number of ranks is the one computed.        *)
LEMMA GlobalIs ==
    ASSUME NEW t, NEW key, NEW F,
           F = [n \in 0 .. Ranks |->
                   IF n = 0 THEN 0 ELSE F[n - 1] + Contributed(t, key, n - 1)]
    PROVE  global_collisions(t, key) = F[Ranks]
<1> DEFINE Is(f) == f = [n \in 0 .. Ranks |->
                            IF n = 0 THEN 0 ELSE f[n - 1] + Contributed(t, key, n - 1)]
           G == CHOOSE f : Is(f)
           Bad == {n \in 0 .. Ranks : G[n] # F[n]}
<1>1. Is(F) /\ Is(G)
  <2>1. Is(F)
    OBVIOUS
  <2> QED BY <2>1
<1>2. global_collisions(t, key) = G[Ranks]
  BY DEF global_collisions
<1>3. \A n \in 0 .. Ranks : F[n] = IF n = 0 THEN 0 ELSE F[n - 1] + Contributed(t, key, n - 1)
  OBVIOUS
<1>4. \A n \in 0 .. Ranks : G[n] = IF n = 0 THEN 0 ELSE G[n - 1] + Contributed(t, key, n - 1)
  <2>1. G = [n \in 0 .. Ranks |-> IF n = 0 THEN 0 ELSE G[n - 1] + Contributed(t, key, n - 1)]
    BY <1>1
  <2> HIDE DEF G
  <2> QED BY <2>1
<1>5. Bad = {}
  <2> HIDE DEF G
  <2> SUFFICES ASSUME Bad # {} PROVE FALSE
    OBVIOUS
  <2>1. PICK n \in Bad : \A m \in Bad : n <= m
    <3>1. Bad \in SUBSET Nat
      BY BallsAssumption
    <3> QED BY <3>1, LeastNatural
  <2>2. n \in 0 .. Ranks /\ n # 0
    BY <1>3, <1>4, <2>1
  <2>3. n - 1 \in 0 .. Ranks /\ ~(n <= n - 1)
    BY <2>2, BallsAssumption
  <2>4. G[n - 1] = F[n - 1]
    BY <2>1, <2>3
  <2> QED BY <1>3, <1>4, <2>2, <2>4
<1>6. Ranks \in 0 .. Ranks
  BY BallsAssumption
<1> HIDE DEF G
<1> QED BY <1>2, <1>5, <1>6

(* What all ranks have put in for step t makes up the whole sequence.        *)
SharedOf(s, t) ==
    \A q \in Procs : shared[q][t] = local_collisions(SubSeq(s, First(q) + 1, First(q + 1)))

LEMMA GlobalCounts ==
    ASSUME balls \in Seq(OnGrid), NEW s \in Seq(OnGrid), Len(s) = Len(balls),
           NEW t, NEW key, SharedOf(s, t)
    PROVE  global_collisions(t, key) = Cardinality(Places(s, 0, Len(s), key))
<1> DEFINE F == [n \in 0 .. Ranks |-> Cardinality(Places(s, 0, First(n), key))]
<1>1. Ranks \in Nat /\ Len(balls) \in Nat
  BY BallsAssumption
<1>2. F[0] = 0
  <2>1. First(0) = 0 /\ 0 \in 0 .. Ranks
    BY <1>1, FirstIs
  <2>2. Places(s, 0, 0, key) = {}
    BY DEF Places
  <2> QED BY <2>1, <2>2, FS_EmptySet
<1>3. ASSUME NEW n \in 0 .. Ranks, n # 0
      PROVE  F[n] = F[n - 1] + Contributed(t, key, n - 1)
  <2> DEFINE r == n - 1
             a == First(r)
             b == First(r + 1)
             A == Places(s, 0, a, key)
             B == Places(s, a, b, key)
  <2>1. r \in Procs /\ r \in Nat /\ r + 1 = n /\ r \in 0 .. Ranks
    BY <1>1, <1>3 DEF Procs
  <2>2. a \in Nat /\ b \in Nat /\ a <= b
    <3> HIDE DEF r
    <3>1. First(r) \in 0 .. Len(balls) /\ First(r + 1) \in First(r) .. Len(balls)
      BY <1>1, <2>1, FirstIs
    <3> QED BY <1>1, <3>1
  <2>3. Contributed(t, key, r) = Cardinality(B)
    <3> HIDE DEF r
    <3> QED BY <2>1, ContributedIs DEF SharedOf
  <2>4. F[n] = Cardinality(Places(s, 0, b, key)) /\ F[n - 1] = Cardinality(A)
    BY <2>1
  <2> HIDE DEF a, b, r
  <2>5. Places(s, 0, b, key) = A \cup B /\ A \cap B = {}
    <3>1. \A j : j \in 0 + 1 .. b <=> (j \in 0 + 1 .. a \/ j \in a + 1 .. b)
      BY <2>2
    <3>2. \A j : ~(j \in 0 + 1 .. a /\ j \in a + 1 .. b)
      BY <2>2
    <3> QED BY <3>1, <3>2 DEF Places
  <2>6. /\ IsFiniteSet(A) /\ IsFiniteSet(B)
        /\ Cardinality(A) \in Nat /\ Cardinality(B) \in Nat
    BY <2>2, PlacesFinite
  <2> HIDE DEF A, B
  <2>7. Cardinality(A \cup B) = Cardinality(A) + Cardinality(B)
    <3>1. Cardinality(A \cup B) = Cardinality(A) + Cardinality(B) - Cardinality(A \cap B)
      BY <2>6, FS_Union
    <3>2. Cardinality(A \cap B) = 0
      BY <2>5, FS_EmptySet
    <3> QED BY <2>6, <3>1, <3>2
  <2> HIDE DEF F
  <2> QED BY <2>3, <2>4, <2>5, <2>7 DEF r
<1>4. F = [n \in 0 .. Ranks |-> IF n = 0 THEN 0 ELSE F[n - 1] + Contributed(t, key, n - 1)]
  <2> DEFINE rhs == [n \in 0 .. Ranks |->
                        IF n = 0 THEN 0 ELSE F[n - 1] + Contributed(t, key, n - 1)]
  <2>1. \A n \in 0 .. Ranks : F[n] = rhs[n]
    <3> TAKE n \in 0 .. Ranks
    <3>1. rhs[n] = IF n = 0 THEN 0 ELSE F[n - 1] + Contributed(t, key, n - 1)
      OBVIOUS
    <3> HIDE DEF F, rhs
    <3> QED BY <1>2, <1>3, <3>1
  <2> QED BY <2>1
<1>5. F[Ranks] = Cardinality(Places(s, 0, First(Ranks), key))
  BY <1>1
<1> HIDE DEF F
<1>6. global_collisions(t, key) = F[Ranks]
  BY <1>4, GlobalIs
<1> QED BY <1>1, <1>5, <1>6, FirstIs

(* The balls a rank finds heading for a cell are those that arrive there.    *)
LEMMA CollisionsAre ==
    ASSUME grid \in Grids, balls \in Seq(OnGrid),
           NEW s \in Seq(OnGrid), Len(s) = Len(balls), NEW t, SharedOf(s, t),
           NEW X \in 0 .. grid[1] - 1, NEW Y \in 0 .. grid[2] - 1
    PROVE  cnt_collisions(t, X, Y) = Arrivals(s, <<X, Y>>)
<1> DEFINE n == Len(s)
           A == Places(s, 0, n, FromAbove(X, Y))
           B == Places(s, 0, n, FromBelow(X, Y))
           C == Places(s, 0, n, FromLeft(X, Y))
           E == Places(s, 0, n, FromRight(X, Y))
           T == {j \in DOMAIN s : Target(s[j]) = <<X, Y>>}
<1>1. n \in Nat /\ DOMAIN s = 1 .. n /\ 0 \in Nat
  OBVIOUS
<1>2. cnt_collisions(t, X, Y) = Cardinality(A) + Cardinality(B) + Cardinality(C) + Cardinality(E)
  BY GlobalCounts DEF cnt_collisions, FromAbove, FromBelow, FromLeft, FromRight
<1>3. T = A \cup B \cup C \cup E
  <2>1. ASSUME NEW j \in 1 .. n
        PROVE  Target(s[j]) = <<X, Y>> <=> s[j] \in Arriving(X, Y)
    <3>1. s[j] \in OnGrid
      OBVIOUS
    <3> QED BY <3>1, TargetIs
  <2>2. 0 + 1 .. n = 1 .. n
    OBVIOUS
  <2> QED BY <1>1, <2>1, <2>2 DEF Arriving, Places
<1>4. /\ A \cap B = {} /\ (A \cup B) \cap C = {} /\ (A \cup B \cup C) \cap E = {}
  <2>1. /\ FromAbove(X, Y)[3] = "D" /\ FromBelow(X, Y)[3] = "U"
        /\ FromLeft(X, Y)[3] = "R" /\ FromRight(X, Y)[3] = "L"
    BY DEF FromAbove, FromBelow, FromLeft, FromRight
  <2>2. /\ \A j \in A : s[j][3] = "D"
        /\ \A j \in B : s[j][3] = "U"
        /\ \A j \in C : s[j][3] = "R"
        /\ \A j \in E : s[j][3] = "L"
    BY <2>1 DEF Places
  <2> HIDE DEF A, B, C, E
  <2> QED BY <2>2
<1>5. /\ IsFiniteSet(A) /\ Cardinality(A) \in Nat
      /\ IsFiniteSet(B) /\ Cardinality(B) \in Nat
      /\ IsFiniteSet(C) /\ Cardinality(C) \in Nat
      /\ IsFiniteSet(E) /\ Cardinality(E) \in Nat
  BY <1>1, PlacesFinite
<1> HIDE DEF A, B, C, E
<1>6. /\ Cardinality(A \cap B) = 0 /\ Cardinality((A \cup B) \cap C) = 0
      /\ Cardinality((A \cup B \cup C) \cap E) = 0
  BY <1>4, FS_EmptySet
<1>7. IsFiniteSet(A \cup B) /\ Cardinality(A \cup B) = Cardinality(A) + Cardinality(B)
  <2>1. /\ IsFiniteSet(A \cup B)
        /\ Cardinality(A \cup B) = Cardinality(A) + Cardinality(B) - Cardinality(A \cap B)
    BY <1>5, FS_Union
  <2> QED BY <1>5, <1>6, <2>1
<1>8. /\ IsFiniteSet(A \cup B \cup C)
      /\ Cardinality(A \cup B \cup C) = Cardinality(A) + Cardinality(B) + Cardinality(C)
  <2>1. /\ IsFiniteSet(A \cup B \cup C)
        /\ Cardinality(A \cup B \cup C) =
               Cardinality(A \cup B) + Cardinality(C) - Cardinality((A \cup B) \cap C)
    BY <1>5, <1>7, FS_Union
  <2> QED BY <1>5, <1>6, <1>7, <2>1
<1>9. Cardinality(A \cup B \cup C \cup E) =
          Cardinality(A) + Cardinality(B) + Cardinality(C) + Cardinality(E)
  <2>1. Cardinality(A \cup B \cup C \cup E) =
            Cardinality(A \cup B \cup C) + Cardinality(E)
                - Cardinality((A \cup B \cup C) \cap E)
    BY <1>5, <1>8, FS_Union
  <2> QED BY <1>5, <1>6, <1>8, <2>1
<1> QED BY <1>2, <1>3, <1>9 DEF Arrivals

(* A rank moves a ball as the simulation does.                               *)
LEMMA BounceIs ==
    ASSUME grid \in Grids, balls \in Seq(OnGrid),
           NEW s \in Seq(OnGrid), Len(s) = Len(balls), NEW t, SharedOf(s, t),
           NEW j \in 1 .. Len(s)
    PROVE  Bounce(s[j], t) = Stepped(s)[j]
<1> DEFINE b == s[j]
           to == Target(b)
<1>1. b \in OnGrid /\ j \in DOMAIN s
  OBVIOUS
<1>2. to = <<to[1], to[2]>> /\ to[1] \in 0 .. grid[1] - 1 /\ to[2] \in 0 .. grid[2] - 1
  BY <1>1, TargetIs
<1>3. cnt_collisions(t, to[1], to[2]) = Arrivals(s, <<to[1], to[2]>>)
  <2> HIDE DEF to
  <2> QED BY <1>2, CollisionsAre
<1>4. Bounce(b, t) = <<to[1], to[2], Turned(b[3], cnt_collisions(t, to[1], to[2]))>>
  BY DEF Bounce, Target
<1>5. Stepped(s)[j] = <<to[1], to[2], Turned(b[3], Arrivals(s, to))>>
  BY <1>1 DEF Stepped
<1> HIDE DEF to, b
<1> QED BY <1>2, <1>3, <1>4, <1>5 DEF b

-----------------------------------------------------------------------------
(* The inductive invariant *)

(* A rank at a that has the balls p, has contributed sh, and for which rank  *)
(* 0 has sent box.                                                           *)
ProcAt(r, a, p, sh, box) ==
    /\ a = "start" => sh = <<>> /\ box \in {<<>>, Sent(r)}
    /\ a \in {"share", "gather"} => p = Part(r, Len(sh))
    /\ a = "move" => Len(sh) >= 1 /\ p = Part(r, Len(sh) - 1)
    /\ a = "gather" => Len(sh) = Steps
    /\ Len(sh) <= Steps
    /\ \A t \in 1 .. Len(sh) : sh[t] = local_collisions(Part(r, t - 1))

ProcInv(r) == ProcAt(r, at[r], pos[r], shared[r], inbox[r])

(* Once rank 0 has handed out the balls, whoever waits for them has got them. *)
Handed == at[0] # "start" => \A r \in Procs \ {0} : at[r] = "start" => inbox[r] # <<>>

BallsInv ==
    /\ BallsTypeOK
    /\ \A r \in Procs : ProcInv(r)
    /\ Handed
    /\ output # <<>> => output = Simulated[Steps]

Tables == UNION {[keys -> Nat] : keys \in SUBSET OnGrid}
Boxes  == {<<>>, <<0>>} \cup (Nat \X Seq(OnGrid))

LEMMA TypesAre ==
    ASSUME BallsTypeOK
    PROVE  /\ grid \in Grids /\ balls \in Seq(OnGrid) /\ output \in Seq(OnGrid)
           /\ pos \in [Procs -> Seq(OnGrid)] /\ shared \in [Procs -> Seq(Tables)]
           /\ inbox \in [Procs -> Boxes]
           /\ at \in [Procs -> {"start", "share", "move", "gather"}]
           /\ Len(balls) \in Nat
<1>1. /\ grid \in Grids /\ balls \in Seq(OnGrid) /\ output \in Seq(OnGrid)
      /\ pos \in [Procs -> Seq(OnGrid)] /\ shared \in [Procs -> Seq(Tables)]
      /\ inbox \in [Procs -> Boxes]
      /\ at \in [Procs -> {"start", "share", "move", "gather"}]
  BY DEF BallsTypeOK, OnGrid, Tables, Boxes
<1> QED BY <1>1

LEMMA SameInput ==
    ASSUME UNCHANGED <<grid, balls>>
    PROVE  /\ Simulated' = Simulated
           /\ \A r : Sent(r)' = Sent(r)
           /\ \A r, t : Part(r, t)' = Part(r, t)
<1>1. Simulated' = Simulated
  BY DEF Simulated, Stepped, Arrivals, Target, findNextPos
<1>2. \A r : First(r)' = First(r) /\ Chunk(r)' = Chunk(r) /\ Sent(r)' = Sent(r)
  BY DEF First, Chunk, Sent, chunk_size
<1>3. \A r, t : Part(r, t)' = Part(r, t)
  BY <1>1, <1>2 DEF Part
<1> QED BY <1>1, <1>2, <1>3

(* Of a step it suffices to look at the rank that takes it.                  *)
LEMMA OneProc ==
    ASSUME UNCHANGED <<grid, balls>>, NEW r \in Procs, NEW a, NEW p, NEW sh, NEW box,
           at'[r] = a, pos'[r] = p, shared'[r] = sh, inbox'[r] = box,
           ProcAt(r, a, p, sh, box)
    PROVE  ProcInv(r)'
<1>1. \A t : local_collisions(Part(r, t))' = local_collisions(Part(r, t))
  BY SameInput DEF local_collisions, Count
<1>2. /\ a = "start" => sh = <<>> /\ box \in {<<>>, Sent(r)'}
      /\ a \in {"share", "gather"} => p = Part(r, Len(sh))'
      /\ a = "move" => Len(sh) >= 1 /\ p = Part(r, Len(sh) - 1)'
      /\ a = "gather" => Len(sh) = Steps
      /\ Len(sh) <= Steps
  BY SameInput DEF ProcAt
<1>3. \A t \in 1 .. Len(sh) : sh[t] = local_collisions(Part(r, t - 1))'
  BY <1>1 DEF ProcAt
<1>4. ProcAt(r, a, p, sh, box)'
  BY <1>2, <1>3 DEF ProcAt
<1> QED BY <1>4 DEF ProcInv

LEMMA OthersKeep ==
    ASSUME NEW r \in Procs, ProcInv(r), UNCHANGED <<grid, balls>>,
           at'[r] = at[r], pos'[r] = pos[r], shared'[r] = shared[r], inbox'[r] = inbox[r]
    PROVE  ProcInv(r)'
<1>1. PICK a, p, sh, box : a = at[r] /\ p = pos[r] /\ sh = shared[r] /\ box = inbox[r]
  OBVIOUS
<1>2. ProcAt(r, a, p, sh, box)
  BY <1>1 DEF ProcInv
<1> QED BY <1>1, <1>2, OneProc

LEMMA PartAt ==
    ASSUME grid \in Grids, balls \in Seq(OnGrid), NEW r \in Procs, NEW t \in 0 .. Steps
    PROVE  /\ Part(r, t) \in Seq(OnGrid) /\ Len(Part(r, t)) = First(r + 1) - First(r)
           /\ First(r) \in Nat /\ First(r + 1) \in Nat /\ First(r) <= First(r + 1)
           /\ First(r + 1) <= Len(balls)
           /\ \A i \in 1 .. Len(Part(r, t)) : Part(r, t)[i] = Simulated[t][First(r) + i]
<1>1. Simulated[t] \in Seq(OnGrid) /\ Len(Simulated[t]) = Len(balls)
  BY SimulatedIs
<1> QED BY <1>1, PartIs DEF Part

LEMMA LocalIs ==
    ASSUME NEW s \in Seq(OnGrid)
    PROVE  local_collisions(s) \in Tables
<1> DEFINE keys == {s[i] : i \in DOMAIN s}
<1>1. keys \in SUBSET OnGrid
  <2>1. \A i \in DOMAIN s : s[i] \in OnGrid
    OBVIOUS
  <2> QED BY <2>1
<1>2. ASSUME NEW key PROVE Count(s, key) \in Nat
  <2> DEFINE S == {i \in DOMAIN s : s[i] = key}
  <2>1. S \in SUBSET (1 .. Len(s)) /\ Len(s) \in Nat
    OBVIOUS
  <2>2. IsFiniteSet(1 .. Len(s))
    BY <2>1, FS_Interval
  <2>3. IsFiniteSet(S)
    BY <2>1, <2>2, FS_Subset
  <2> QED BY <2>3, FS_CardinalityType DEF Count
<1>3. local_collisions(s) \in [keys -> Nat]
  BY <1>2 DEF local_collisions
<1> HIDE DEF keys
<1> QED BY <1>1, <1>3 DEF Tables

(* When all ranks have entered the exchange of step t, it is about the whole *)
(* simulation after t - 1 steps.                                             *)
LEMMA AllShared ==
    ASSUME BallsInv, NEW t \in Nat \ {0}, \A q \in Procs : Len(shared[q]) >= t
    PROVE  SharedOf(Simulated[t - 1], t)
<1> SUFFICES ASSUME NEW q \in Procs
             PROVE  shared[q][t] = local_collisions(Part(q, t - 1))
  BY DEF SharedOf, Part
<1>1. \A k \in 1 .. Len(shared[q]) : shared[q][k] = local_collisions(Part(q, k - 1))
  BY DEF BallsInv, ProcInv, ProcAt
<1>2. Len(shared[q]) \in Nat
  <2>1. shared[q] \in Seq(Tables)
    BY TypesAre DEF BallsInv
  <2> QED BY <2>1
<1>3. t \in 1 .. Len(shared[q])
  BY <1>2
<1> QED BY <1>1, <1>3

-----------------------------------------------------------------------------
(* The steps *)

LEMMA StepOf ==
    ASSUME BallsInv, UNCHANGED <<grid, balls, output>>, NEW r \in Procs,
           NEW a \in {"start", "share", "move", "gather"}, NEW p \in Seq(OnGrid),
           NEW sh \in Seq(Tables), NEW box \in Boxes,
           at' = [at EXCEPT ![r] = a], pos' = [pos EXCEPT ![r] = p],
           shared' = [shared EXCEPT ![r] = sh], inbox' = [inbox EXCEPT ![r] = box],
           ProcAt(r, a, p, sh, box), a # "start", r = 0 => at[0] # "start"
    PROVE  BallsInv'
<1>1. /\ grid \in Grids /\ balls \in Seq(OnGrid) /\ output \in Seq(OnGrid)
      /\ pos \in [Procs -> Seq(OnGrid)] /\ shared \in [Procs -> Seq(Tables)]
      /\ inbox \in [Procs -> Boxes]
      /\ at \in [Procs -> {"start", "share", "move", "gather"}]
  BY TypesAre DEF BallsInv
<1>2. BallsTypeOK'
  <2>1. OnGrid' = OnGrid /\ Tables' = Tables /\ Boxes' = Boxes
    BY DEF OnGrid, Tables, Boxes, Ball
  <2>2. /\ grid' \in Grids /\ balls' \in Seq(OnGrid) /\ output' \in Seq(OnGrid)
    BY <1>1
  <2>3. pos' \in [Procs -> Seq(OnGrid)]
    BY <1>1
  <2>4. shared' \in [Procs -> Seq(Tables)]
    BY <1>1
  <2>5. inbox' \in [Procs -> Boxes]
    BY <1>1
  <2>6. at' \in [Procs -> {"start", "share", "move", "gather"}]
    BY <1>1
  <2> QED BY <2>1, <2>2, <2>3, <2>4, <2>5, <2>6 DEF BallsTypeOK, OnGrid, Tables, Boxes
<1>3. ASSUME NEW q \in Procs PROVE ProcInv(q)'
  <2>1. CASE q = r
    <3>1. at'[r] = a /\ pos'[r] = p /\ shared'[r] = sh /\ inbox'[r] = box
      BY <1>1
    <3> QED BY <2>1, <3>1, OneProc
  <2>2. CASE q # r
    <3>1. at'[q] = at[q] /\ pos'[q] = pos[q] /\ shared'[q] = shared[q] /\ inbox'[q] = inbox[q]
      BY <1>1, <2>2
    <3>2. ProcInv(q)
      BY DEF BallsInv
    <3> QED BY <3>1, <3>2, OthersKeep
  <2> QED BY <2>1, <2>2
<1>4. (output # <<>> => output = Simulated[Steps])'
  BY SameInput DEF BallsInv
<1>5. Handed'
  <2> SUFFICES ASSUME at'[0] # "start", NEW q \in Procs \ {0}, at'[q] = "start"
               PROVE  inbox'[q] # <<>>
    BY DEF Handed
  <2>1. q # r /\ at[q] = "start" /\ inbox'[q] = inbox[q]
    BY <1>1
  <2>2. at[0] # "start"
    BY <1>1, <2>1
  <2> QED BY <2>1, <2>2 DEF BallsInv, Handed
<1> QED BY <1>2, <1>3, <1>4, <1>5 DEF BallsInv

LEMMA ReceiveKeeps ==
    ASSUME BallsInv, NEW r \in Procs, Receive(r)
    PROVE  BallsInv'
<1>1. /\ balls \in Seq(OnGrid) /\ grid \in Grids /\ pos \in [Procs -> Seq(OnGrid)]
      /\ shared \in [Procs -> Seq(Tables)]
      /\ inbox \in [Procs -> Boxes] /\ Len(balls) \in Nat
  BY TypesAre DEF BallsInv
<1>2. shared[r] = <<>> /\ inbox[r] = Sent(r)
  BY DEF BallsInv, ProcInv, ProcAt, Receive, CanReceive
<1> DEFINE p == IF inbox[r][1] > 0 THEN inbox[r][2] ELSE <<>>
<1>3. Chunk(r) = Part(r, 0) /\ Part(r, 0) \in Seq(OnGrid)
  <2>1. Chunk(r) = Part(r, 0)
    BY <1>1, ChunkIs, SimulatedSteps DEF Part
  <2>2. 0 \in 0 .. Steps
    BY BallsAssumption
  <2> QED BY <1>1, <2>1, <2>2, PartAt
<1>4. p = Part(r, 0)
  <2> DEFINE c == Chunk(r)
  <2>1. c \in Seq(OnGrid)
    BY <1>3
  <2>2. inbox[r] = IF c = <<>> THEN <<0>> ELSE <<Len(c), c>>
    BY <1>2 DEF Sent
  <2> HIDE DEF c
  <2>3. c # <<>> => Len(c) > 0
    BY <2>1
  <2>4. p = c
    <3>1. CASE c = <<>>
      BY <2>2, <3>1
    <3>2. CASE c # <<>>
      BY <2>2, <2>3, <3>2
    <3> QED BY <3>1, <3>2
  <2> QED BY <1>3, <2>4 DEF c
<1> HIDE DEF p
<1>5. ProcAt(r, "share", p, shared[r], <<>>)
  <2>1. Len(shared[r]) = 0 /\ 0 <= Steps
    BY <1>2, BallsAssumption
  <2> QED BY <1>4, <2>1 DEF ProcAt
<1>6. /\ at' = [at EXCEPT ![r] = "share"] /\ pos' = [pos EXCEPT ![r] = p]
      /\ shared' = [shared EXCEPT ![r] = shared[r]] /\ inbox' = [inbox EXCEPT ![r] = <<>>]
      /\ UNCHANGED <<grid, balls, output>>
  BY <1>1 DEF Receive, CanReceive, p
<1>7. p \in Seq(OnGrid) /\ shared[r] \in Seq(Tables) /\ <<>> \in Boxes
  BY <1>1, <1>3, <1>4 DEF Boxes
<1>20. r = 0 => at[0] # "start"
  BY DEF Receive, CanReceive
<1> QED BY <1>5, <1>6, <1>7, <1>20, StepOf

LEMMA ShareKeeps ==
    ASSUME BallsInv, NEW r \in Procs, Share(r)
    PROVE  BallsInv'
<1>1. /\ pos \in [Procs -> Seq(OnGrid)] /\ shared \in [Procs -> Seq(Tables)]
      /\ inbox \in [Procs -> Boxes]
  BY TypesAre DEF BallsInv
<1> DEFINE n == Len(shared[r])
           lc == local_collisions(pos[r])
           sh == Append(shared[r], lc)
<1>2. /\ pos[r] = Part(r, n) /\ n < Steps
      /\ \A t \in 1 .. n : shared[r][t] = local_collisions(Part(r, t - 1))
  BY DEF BallsInv, ProcInv, ProcAt, Share
<1>3. pos[r] \in Seq(OnGrid) /\ shared[r] \in Seq(Tables) /\ n \in Nat
  BY <1>1
<1>4. lc \in Tables
  BY <1>3, LocalIs
<1>5. /\ sh \in Seq(Tables) /\ Len(sh) = n + 1 /\ sh[n + 1] = lc
      /\ \A t \in 1 .. n : sh[t] = shared[r][t]
  <2> HIDE DEF lc
  <2> QED BY <1>3, <1>4
<1>6. ProcAt(r, "move", pos[r], sh, inbox[r])
  <2>1. \A t \in 1 .. Len(sh) : sh[t] = local_collisions(Part(r, t - 1))
    <3> TAKE t \in 1 .. Len(sh)
    <3>1. CASE t = n + 1
      <4>1. t - 1 = n
        BY <1>3, <3>1
      <4> QED BY <1>2, <1>5, <3>1, <4>1
    <3>2. CASE t # n + 1
      <4>1. t \in 1 .. n
        BY <1>3, <1>5, <3>2
      <4> QED BY <1>2, <1>5, <4>1
    <3> QED BY <3>1, <3>2
  <2>2. Len(sh) >= 1 /\ Len(sh) - 1 = n /\ Len(sh) <= Steps
    <3> HIDE DEF n, sh
    <3> QED BY <1>2, <1>3, <1>5, BallsAssumption
  <2> HIDE DEF n, sh
  <2> QED BY <1>2, <2>1, <2>2 DEF ProcAt
<1>7. /\ at' = [at EXCEPT ![r] = "move"] /\ pos' = [pos EXCEPT ![r] = pos[r]]
      /\ shared' = [shared EXCEPT ![r] = sh] /\ inbox' = [inbox EXCEPT ![r] = inbox[r]]
      /\ UNCHANGED <<grid, balls, output>>
  BY <1>1 DEF Share
<1> HIDE DEF sh, n, lc
<1>20. r = 0 => at[0] # "start"
  BY DEF Share
<1> QED BY <1>1, <1>3, <1>5, <1>6, <1>7, <1>20, StepOf

LEMMA MoveKeeps ==
    ASSUME BallsInv, NEW r \in Procs, Move(r)
    PROVE  BallsInv'
<1> DEFINE t == Len(shared[r])
           s == Simulated[t - 1]
           v == [i \in DOMAIN pos[r] |-> Bounce(pos[r][i], t)]
<1>1. /\ pos \in [Procs -> Seq(OnGrid)] /\ shared \in [Procs -> Seq(Tables)]
      /\ inbox \in [Procs -> Boxes]
      /\ grid \in Grids /\ balls \in Seq(OnGrid) /\ Len(balls) \in Nat
  BY TypesAre DEF BallsInv
<1>2. /\ pos[r] = Part(r, t - 1) /\ t >= 1 /\ t <= Steps
      /\ \A k \in 1 .. t : shared[r][k] = local_collisions(Part(r, k - 1))
      /\ \A q \in Procs : Len(shared[q]) >= t
  BY DEF BallsInv, ProcInv, ProcAt, Move, CanMove
<1>3. t \in Nat /\ t \in 1 .. Steps /\ t - 1 \in 0 .. Steps /\ t \in 0 .. Steps
  <2>1. shared[r] \in Seq(Tables)
    BY <1>1
  <2>2. t \in Nat
    BY <2>1
  <2> HIDE DEF t
  <2> QED BY <1>2, <2>2, BallsAssumption
<1>4. SharedOf(s, t) /\ s \in Seq(OnGrid) /\ Len(s) = Len(balls) /\ Simulated[t] = Stepped(s)
  <2>1. SharedOf(s, t)
    <3> HIDE DEF t
    <3> QED BY <1>2, <1>3, AllShared
  <2> QED BY <1>1, <1>3, <2>1, SimulatedIs, SimulatedSteps
<1> HIDE DEF t
<1>5. v = Part(r, t)
  <2> DEFINE a == First(r)
             d == First(r + 1) - First(r)
  <2>1. /\ Part(r, t - 1) \in Seq(OnGrid) /\ Len(Part(r, t - 1)) = d
        /\ a \in Nat /\ First(r + 1) \in Nat /\ a <= First(r + 1) /\ First(r + 1) <= Len(balls)
        /\ \A i \in 1 .. d : Part(r, t - 1)[i] = s[a + i]
    BY <1>1, <1>3, PartAt
  <2>2. /\ Part(r, t) \in Seq(OnGrid) /\ Len(Part(r, t)) = d
        /\ \A i \in 1 .. d : Part(r, t)[i] = Simulated[t][a + i]
    BY <1>1, <1>3, PartAt
  <2>3. DOMAIN pos[r] = 1 .. d /\ DOMAIN Part(r, t) = 1 .. d
    BY <1>2, <2>1, <2>2
  <2>4. ASSUME NEW i \in 1 .. d PROVE v[i] = Part(r, t)[i]
    <3>1. a + i \in 1 .. Len(s)
      BY <1>1, <1>4, <2>1
    <3>2. Bounce(s[a + i], t) = Stepped(s)[a + i]
      BY <1>1, <1>4, <3>1, BounceIs
    <3>3. v[i] = Bounce(pos[r][i], t) /\ pos[r][i] = s[a + i]
      BY <1>2, <2>1, <2>3
    <3> QED BY <1>4, <2>2, <3>2, <3>3
  <2>5. Part(r, t) = [i \in 1 .. d |-> Part(r, t)[i]]
    BY <2>2, <2>3
  <2>6. v = [i \in 1 .. d |-> v[i]]
    BY <2>3
  <2> HIDE DEF v
  <2> QED BY <2>4, <2>5, <2>6
<1>6. ProcAt(r, "share", v, shared[r], inbox[r])
  <2> HIDE DEF v
  <2> QED BY <1>2, <1>5 DEF ProcAt, t
<1>7. /\ at' = [at EXCEPT ![r] = "share"] /\ pos' = [pos EXCEPT ![r] = v]
      /\ shared' = [shared EXCEPT ![r] = shared[r]] /\ inbox' = [inbox EXCEPT ![r] = inbox[r]]
      /\ UNCHANGED <<grid, balls, output>>
  BY <1>1 DEF Move, CanMove, t
<1>8. v \in Seq(OnGrid) /\ shared[r] \in Seq(Tables)
        /\ inbox[r] \in Boxes
  <2> HIDE DEF v
  <2> QED BY <1>1, <1>3, <1>5, PartAt
<1> HIDE DEF v, s
<1>20. r = 0 => at[0] # "start"
  BY DEF Move, CanMove
<1> QED BY <1>6, <1>7, <1>8, <1>20, StepOf

LEMMA FinishKeeps ==
    ASSUME BallsInv, NEW r \in Procs, Finish(r)
    PROVE  BallsInv'
<1>1. /\ pos \in [Procs -> Seq(OnGrid)] /\ shared \in [Procs -> Seq(Tables)]
      /\ inbox \in [Procs -> Boxes]
  BY TypesAre DEF BallsInv
<1>2. ProcAt(r, "gather", pos[r], shared[r], inbox[r])
  BY DEF BallsInv, ProcInv, ProcAt, Finish
<1>3. /\ at' = [at EXCEPT ![r] = "gather"] /\ pos' = [pos EXCEPT ![r] = pos[r]]
      /\ shared' = [shared EXCEPT ![r] = shared[r]] /\ inbox' = [inbox EXCEPT ![r] = inbox[r]]
      /\ UNCHANGED <<grid, balls, output>>
  BY <1>1 DEF Finish
<1>4. pos[r] \in Seq(OnGrid) /\ shared[r] \in Seq(Tables)
        /\ inbox[r] \in Boxes
  BY <1>1
<1>20. r = 0 => at[0] # "start"
  BY DEF Finish
<1> QED BY <1>2, <1>3, <1>4, <1>20, StepOf

LEMMA DistributeKeeps ==
    ASSUME BallsInv, Distribute
    PROVE  BallsInv'
<1>1. /\ grid \in Grids /\ balls \in Seq(OnGrid) /\ output \in Seq(OnGrid)
      /\ pos \in [Procs -> Seq(OnGrid)] /\ shared \in [Procs -> Seq(Tables)]
      /\ inbox \in [Procs -> Boxes]
      /\ at \in [Procs -> {"start", "share", "move", "gather"}] /\ Len(balls) \in Nat
  BY TypesAre DEF BallsInv
<1>2. /\ at' = [at EXCEPT ![0] = "share"] /\ pos' = [pos EXCEPT ![0] = Chunk(0)]
      /\ inbox' = [r \in Procs |-> IF r = 0 THEN <<>> ELSE Sent(r)]
      /\ UNCHANGED <<grid, balls, shared, output>>
  BY DEF Distribute
<1>3. ASSUME NEW r \in Procs PROVE Chunk(r) \in Seq(OnGrid) /\ Chunk(r) = Part(r, 0)
  <2>1. Chunk(r) = Part(r, 0)
    BY <1>1, ChunkIs, SimulatedSteps DEF Part
  <2>2. 0 \in 0 .. Steps
    BY BallsAssumption
  <2> QED BY <1>1, <2>1, <2>2, PartAt
<1>4. 0 \in Procs
  BY BallsAssumption DEF Procs
<1>5. BallsTypeOK'
  <2>1. OnGrid' = OnGrid /\ Tables' = Tables /\ Boxes' = Boxes
    BY <1>2 DEF OnGrid, Tables, Boxes, Ball
  <2>2. /\ grid' \in Grids /\ balls' \in Seq(OnGrid) /\ output' \in Seq(OnGrid)
        /\ shared' \in [Procs -> Seq(Tables)]
    BY <1>1, <1>2
  <2>3. pos' \in [Procs -> Seq(OnGrid)]
    BY <1>1, <1>2, <1>3, <1>4
  <2>4. inbox' \in [Procs -> Boxes]
    <3>1. ASSUME NEW r \in Procs PROVE Sent(r) \in Boxes
      <4>1. Chunk(r) \in Seq(OnGrid)
        BY <1>3
      <4>2. Len(Chunk(r)) \in Nat
        BY <4>1
      <4> QED BY <4>1, <4>2 DEF Sent, Boxes
    <3> QED BY <1>2, <3>1 DEF Boxes
  <2>5. at' \in [Procs -> {"start", "share", "move", "gather"}]
    BY <1>1, <1>2
  <2> QED BY <2>1, <2>2, <2>3, <2>4, <2>5 DEF BallsTypeOK, OnGrid, Tables, Boxes
<1>6. ASSUME NEW r \in Procs PROVE ProcInv(r)'
  <2>1. ProcAt(r, at[r], pos[r], shared[r], inbox[r])
    BY DEF BallsInv, ProcInv
  <2>2. CASE r = 0
    <3>1. at'[r] = "share" /\ pos'[r] = Chunk(0) /\ shared'[r] = shared[r] /\ inbox'[r] = <<>>
      BY <1>1, <1>2, <1>4, <2>2
    <3>2. shared[r] = <<>>
      BY <2>1, <2>2 DEF ProcAt, Distribute
    <3>3. ProcAt(r, "share", Chunk(0), shared[r], <<>>)
      <4>1. Len(shared[r]) = 0 /\ 0 <= Steps
        BY <3>2, BallsAssumption
      <4> QED BY <1>3, <1>4, <2>2, <4>1 DEF ProcAt
    <3> QED BY <1>2, <3>1, <3>3, OneProc
  <2>3. CASE r # 0
    <3>1. /\ at'[r] = at[r] /\ pos'[r] = pos[r] /\ shared'[r] = shared[r] /\ inbox'[r] = Sent(r)
      BY <1>1, <1>2, <2>3
    <3>2. PICK a, p, sh, box : a = at[r] /\ p = pos[r] /\ sh = shared[r] /\ box = Sent(r)
      OBVIOUS
    <3>3. ProcAt(r, a, p, sh, box)
      BY <2>1, <3>2 DEF ProcAt
    <3>4. at'[r] = a /\ pos'[r] = p /\ shared'[r] = sh /\ inbox'[r] = box
      BY <3>1, <3>2
    <3> QED BY <1>2, <3>3, <3>4, OneProc
  <2> QED BY <2>2, <2>3
<1>7. (output # <<>> => output = Simulated[Steps])'
  BY <1>2, SameInput DEF BallsInv
<1>8. Handed'
  <2>1. ASSUME NEW r \in Procs \ {0} PROVE inbox'[r] # <<>>
    BY <1>2, <2>1 DEF Sent
  <2> QED BY <2>1 DEF Handed
<1> QED BY <1>5, <1>6, <1>7, <1>8 DEF BallsInv

(* The chunks of all ranks, after the last step, are the whole sequence: the *)
(* first n of them are its beginning.                                        *)
LEMMA GatheredIs ==
    ASSUME BallsInv, \A r \in Procs : at[r] = "gather"
    PROVE  global_flat_data[Ranks] = Simulated[Steps]
<1> DEFINE s == Simulated[Steps]
           F == [n \in 0 .. Ranks |-> SubSeq(s, 1, First(n))]
           Is(f) == f = [n \in 0 .. Ranks |-> IF n = 0 THEN <<>> ELSE f[n - 1] \o pos[n - 1]]
           G == CHOOSE f : Is(f)
           Bad == {n \in 0 .. Ranks : G[n] # F[n]}
<1>1. /\ grid \in Grids /\ balls \in Seq(OnGrid) /\ Len(balls) \in Nat
      /\ Ranks \in Nat /\ Steps \in 0 .. Steps
  BY TypesAre, BallsAssumption DEF BallsInv
<1>2. s \in Seq(OnGrid) /\ Len(s) = Len(balls)
  BY <1>1, SimulatedIs
<1>3. ASSUME NEW r \in Procs PROVE pos[r] = SubSeq(s, First(r) + 1, First(r + 1))
  BY DEF BallsInv, ProcInv, ProcAt, Part
<1> HIDE DEF s
<1>4. F[0] = <<>>
  <2>1. First(0) = 0 /\ 0 \in 0 .. Ranks
    BY <1>1, FirstIs
  <2>2. SubSeq(s, 1, 0) = <<>>
    BY <1>2, SubSeqEmpty
  <2> QED BY <2>1, <2>2
<1>5. ASSUME NEW n \in 0 .. Ranks, n # 0
      PROVE  F[n] = F[n - 1] \o pos[n - 1]
  <2> DEFINE r == n - 1
             a == First(r)
             b == First(r + 1)
  <2>1. r \in Procs /\ r \in Nat /\ r + 1 = n /\ r \in 0 .. Ranks
    BY <1>1, <1>5 DEF Procs
  <2>2. F[n] = SubSeq(s, 1, b) /\ F[r] = SubSeq(s, 1, a) /\ pos[r] = SubSeq(s, a + 1, b)
    BY <1>3, <2>1
  <2>3. a \in 0 .. Len(s) /\ b \in a .. Len(s)
    <3> HIDE DEF r
    <3> QED BY <1>1, <1>2, <2>1, FirstIs
  <2> HIDE DEF a, b, F
  <2>4. 1 \in 1 .. Len(s) + 1 /\ a \in 1 - 1 .. Len(s) /\ b \in a .. Len(s)
    BY <1>1, <1>2, <2>3
  <2>5. SubSeq(s, 1, a) \o SubSeq(s, a + 1, b) = SubSeq(s, 1, b)
    BY <1>2, <2>4, ConcatAdjacentSubSeq
  <2> QED BY <2>2, <2>5
<1>6. F = [n \in 0 .. Ranks |-> IF n = 0 THEN <<>> ELSE F[n - 1] \o pos[n - 1]]
  <2> DEFINE rhs == [n \in 0 .. Ranks |-> IF n = 0 THEN <<>> ELSE F[n - 1] \o pos[n - 1]]
  <2>1. \A n \in 0 .. Ranks : F[n] = rhs[n]
    <3> TAKE n \in 0 .. Ranks
    <3>1. rhs[n] = IF n = 0 THEN <<>> ELSE F[n - 1] \o pos[n - 1]
      OBVIOUS
    <3> HIDE DEF F, rhs
    <3> QED BY <1>4, <1>5, <3>1
  <2> QED BY <2>1
<1>7. Is(G)
  <2> HIDE DEF F
  <2>1. Is(F)
    BY <1>6
  <2> QED BY <2>1
<1>8. global_flat_data = G
  BY DEF global_flat_data
<1>9. \A n \in 0 .. Ranks : G[n] = IF n = 0 THEN <<>> ELSE G[n - 1] \o pos[n - 1]
  <2>1. G = [n \in 0 .. Ranks |-> IF n = 0 THEN <<>> ELSE G[n - 1] \o pos[n - 1]]
    BY <1>7
  <2> HIDE DEF G
  <2> QED BY <2>1
<1>10. F[Ranks] = s
  <2>1. F[Ranks] = SubSeq(s, 1, Len(s))
    <3>1. First(Ranks) = Len(balls)
      <4>1. 0 \in Nat
        OBVIOUS
      <4> QED BY <1>1, <4>1, FirstIs
    <3>2. Ranks \in 0 .. Ranks
      BY <1>1
    <3> QED BY <1>2, <3>1, <3>2
  <2>2. SubSeq(s, 1, Len(s)) = s
    BY <1>2, SubSeqFull
  <2> QED BY <2>1, <2>2
<1> HIDE DEF F, G
<1>11. Bad = {}
  <2> SUFFICES ASSUME Bad # {} PROVE FALSE
    OBVIOUS
  <2>1. PICK n \in Bad : \A m \in Bad : n <= m
    <3>1. Bad \in SUBSET Nat
      BY <1>1
    <3> QED BY <3>1, LeastNatural
  <2>2. n \in 0 .. Ranks /\ n # 0
    <3>1. 0 \in 0 .. Ranks /\ G[0] = <<>>
      BY <1>1, <1>9
    <3> QED BY <1>4, <2>1, <3>1
  <2>3. n - 1 \in 0 .. Ranks /\ ~(n <= n - 1)
    BY <1>1, <2>2
  <2>4. G[n - 1] = F[n - 1]
    BY <2>1, <2>3
  <2>5. F[n] = F[n - 1] \o pos[n - 1] /\ G[n] = G[n - 1] \o pos[n - 1]
    BY <1>5, <1>9, <2>2
  <2> QED BY <2>1, <2>4, <2>5
<1>12. Ranks \in 0 .. Ranks
  BY <1>1
<1> QED BY <1>8, <1>10, <1>11, <1>12 DEF s

LEMMA GatherKeeps ==
    ASSUME BallsInv, Gather
    PROVE  BallsInv'
<1>1. /\ grid \in Grids /\ balls \in Seq(OnGrid) /\ Steps \in 0 .. Steps
  BY TypesAre, BallsAssumption DEF BallsInv
<1>2. UNCHANGED <<grid, balls, inbox, pos, shared, at>> /\ output' = Simulated[Steps]
  BY GatheredIs DEF Gather, CanGather
<1>3. Simulated[Steps] \in Seq(OnGrid)
  BY <1>1, SimulatedIs
<1>4. BallsTypeOK'
  <2>1. output' \in Seq(OnGrid)
    BY <1>2, <1>3
  <2> QED BY <1>2, <2>1 DEF BallsInv, BallsTypeOK, OnGrid, Ball
<1>5. ASSUME NEW r \in Procs PROVE ProcInv(r)'
  <2>1. ProcInv(r)
    BY DEF BallsInv
  <2> QED BY <1>2, <2>1, OthersKeep
<1>6. (output # <<>> => output = Simulated[Steps])'
  BY <1>2, SameInput
<1>7. Handed'
  BY <1>2 DEF BallsInv, Handed
<1> QED BY <1>4, <1>5, <1>6, <1>7 DEF BallsInv

LEMMA BallsStutter ==
    ASSUME BallsInv, UNCHANGED ballVars
    PROVE  BallsInv'
<1>1. UNCHANGED <<grid, balls, inbox, pos, shared, at, output>>
  BY DEF ballVars
<1>2. BallsTypeOK'
  BY <1>1 DEF BallsInv, BallsTypeOK, Ball
<1>3. ASSUME NEW r \in Procs PROVE ProcInv(r)'
  <2>1. ProcInv(r)
    BY DEF BallsInv
  <2> QED BY <1>1, <2>1, OthersKeep
<1>4. (output # <<>> => output = Simulated[Steps])'
  BY <1>1, SameInput DEF BallsInv
<1>5. Handed'
  BY <1>1 DEF BallsInv, Handed
<1> QED BY <1>2, <1>3, <1>4, <1>5 DEF BallsInv

LEMMA BallsInitInv ==
    ASSUME BallsInit
    PROVE  BallsInv
<1>1. /\ grid \in Grids /\ balls \in Seq(OnGrid) /\ output = <<>>
      /\ inbox = [r \in Procs |-> <<>>] /\ pos = [r \in Procs |-> <<>>]
      /\ shared = [r \in Procs |-> <<>>] /\ at = [r \in Procs |-> "start"]
  BY DEF BallsInit, BallsStart, OnGrid
<1>2. BallsTypeOK
  <2>1. <<>> \in Seq(OnGrid) /\ <<>> \in Seq(Tables)
    OBVIOUS
  <2>2. /\ pos \in [Procs -> Seq(OnGrid)] /\ shared \in [Procs -> Seq(Tables)]
        /\ inbox \in [Procs -> Boxes]
        /\ at \in [Procs -> {"start", "share", "move", "gather"}]
        /\ output \in Seq(OnGrid)
    BY <1>1, <2>1 DEF Boxes
  <2> QED BY <1>1, <2>2 DEF BallsTypeOK, OnGrid, Tables, Boxes
<1>3. ASSUME NEW r \in Procs PROVE ProcInv(r)
  <2>1. at[r] = "start" /\ shared[r] = <<>> /\ inbox[r] = <<>>
    BY <1>1
  <2>2. Len(shared[r]) = 0 /\ 0 <= Steps
    BY <2>1, BallsAssumption
  <2> QED BY <2>1, <2>2 DEF ProcInv, ProcAt
<1>4. Handed
  <2>1. at[0] = "start"
    BY <1>1, BallsAssumption DEF Procs
  <2> QED BY <2>1 DEF Handed
<1> QED BY <1>1, <1>2, <1>3, <1>4 DEF BallsInv

(* The run of the bouncing balls keeps its inductive invariant: every rank   *)
(* holds its chunk of a simulation without ranks, after as many steps as it  *)
(* has made itself, and has put in for each step the counts of that chunk    *)
(* before the step (main, findPos).                                          *)
THEOREM BallsInvariant == BallsSpec => []BallsInv
<1>1. BallsInit => BallsInv
  BY BallsInitInv
<1>2. BallsInv /\ [BallsNext]_ballVars => BallsInv'
  <2> SUFFICES ASSUME BallsInv, [BallsNext]_ballVars
               PROVE  BallsInv'
    OBVIOUS
  <2>1. CASE Distribute
    BY <2>1, DistributeKeeps
  <2>2. ASSUME NEW r \in Procs, Receive(r) PROVE BallsInv'
    BY <2>2, ReceiveKeeps
  <2>3. ASSUME NEW r \in Procs, Share(r) PROVE BallsInv'
    BY <2>3, ShareKeeps
  <2>4. ASSUME NEW r \in Procs, Move(r) PROVE BallsInv'
    BY <2>4, MoveKeeps
  <2>5. ASSUME NEW r \in Procs, Finish(r) PROVE BallsInv'
    BY <2>5, FinishKeeps
  <2>6. CASE Gather
    BY <2>6, GatherKeeps
  <2>7. CASE UNCHANGED ballVars
    BY <2>7, BallsStutter
  <2> QED BY <2>1, <2>2, <2>3, <2>4, <2>5, <2>6, <2>7 DEF BallsNext
<1> QED BY <1>1, <1>2, PTL DEF BallsSpec

(* No ball leaves the grid, on any torus, for any number of ranks, balls and *)
(* steps (findNextPos).                                                      *)
THEOREM BallsTypes == BallsSpec => []BallsTypeOK
<1>1. BallsInv => BallsTypeOK
  BY DEF BallsInv
<1> QED BY <1>1, BallsInvariant, PTL

(* What rank 0 writes is the sequence that a simulation without ranks ends   *)
(* with: every ball of the input once, in its order and at its place,        *)
(* whatever the number of ranks and however far some are ahead in the        *)
(* exchange (main: chunk_size, displs, the loop over the steps).             *)
THEOREM BallsOutput == BallsSpec => []OutputIsSequential
<1>1. BallsInv => OutputIsSequential
  BY DEF BallsInv, OutputIsSequential
<1> QED BY <1>1, BallsInvariant, PTL

(* When a rank looks for the balls on the neighbouring cells, those it finds *)
(* heading for a cell are as many as arrive there: the four neighbours are   *)
(* four entries even where they are fewer cells, on a torus of one or two    *)
(* rows, and the counts are all of the same step (findPos).                  *)
THEOREM BallsCollisions == BallsSpec => []CollisionsAreArrivals
<1>1. BallsInv => CollisionsAreArrivals
  <2> SUFFICES ASSUME BallsInv, NEW r \in Procs, CanMove(r),
                      NEW i \in DOMAIN pos[r]
               PROVE  cnt_collisions(Len(shared[r]), Target(pos[r][i])[1], Target(pos[r][i])[2])
                      = Arrivals(Simulated[Len(shared[r]) - 1], Target(pos[r][i]))
    BY DEF CollisionsAreArrivals
  <2> DEFINE t == Len(shared[r])
             s == Simulated[t - 1]
             to == Target(pos[r][i])
  <2>1. /\ grid \in Grids /\ balls \in Seq(OnGrid)
        /\ pos \in [Procs -> Seq(OnGrid)] /\ shared \in [Procs -> Seq(Tables)]
    BY TypesAre DEF BallsInv
  <2>2. t >= 1 /\ t <= Steps
    BY DEF BallsInv, ProcInv, ProcAt, CanMove
  <2>3. t \in Nat \ {0} /\ t - 1 \in 0 .. Steps
    <3>1. shared[r] \in Seq(Tables)
      BY <2>1
    <3>2. t \in Nat
      BY <3>1
    <3> HIDE DEF t
    <3> QED BY <2>2, <3>2, BallsAssumption
  <2>4. SharedOf(s, t) /\ s \in Seq(OnGrid) /\ Len(s) = Len(balls)
    <3>1. SharedOf(s, t)
      <4>1. \A q \in Procs : Len(shared[q]) >= t
        BY DEF CanMove
      <4> HIDE DEF t
      <4> QED BY <2>3, <4>1, AllShared
    <3> QED BY <2>1, <2>3, <3>1, SimulatedIs
  <2>5. pos[r][i] \in OnGrid
    <3>1. pos[r] \in Seq(OnGrid)
      BY <2>1
    <3> QED BY <3>1
  <2>6. to = <<to[1], to[2]>> /\ to[1] \in 0 .. grid[1] - 1 /\ to[2] \in 0 .. grid[2] - 1
    BY <2>1, <2>5, TargetIs
  <2> HIDE DEF to, s, t
  <2>7. cnt_collisions(t, to[1], to[2]) = Arrivals(s, <<to[1], to[2]>>)
    BY <2>1, <2>4, <2>6, CollisionsAre
  <2>8. cnt_collisions(t, to[1], to[2]) = Arrivals(s, to)
    BY <2>6, <2>7
  <2> QED BY <2>8 DEF to, s, t
<1> QED BY <1>1, BallsInvariant, PTL

(* A rank that has contributed the least and waits in an exchange can leave  *)
(* it: whoever has balls has contributed as much, and whoever waits for      *)
(* balls has been sent them, or will be (main, findPos).                     *)
THEOREM BallsGoOn == BallsSpec => []BallsNeverStuck
<1>1. BallsInv => BallsNeverStuck
  <2> SUFFICES ASSUME BallsInv, ~BallsNeverStuck PROVE FALSE
    OBVIOUS
  <2>1. /\ shared \in [Procs -> Seq(Tables)] /\ output \in Seq(OnGrid)
        /\ at \in [Procs -> {"start", "share", "move", "gather"}]
        /\ \A r \in Procs : Len(shared[r]) \in Nat
    <3>1. /\ shared \in [Procs -> Seq(Tables)] /\ output \in Seq(OnGrid)
          /\ at \in [Procs -> {"start", "share", "move", "gather"}]
      BY TypesAre DEF BallsInv
    <3>2. ASSUME NEW r \in Procs PROVE Len(shared[r]) \in Nat
      <4>1. shared[r] \in Seq(Tables)
        BY <3>1
      <4> QED BY <4>1
    <3> QED BY <3>1, <3>2
  <2>2. ASSUME NEW r \in Procs PROVE at[r] \in {"move", "gather"}
    <3>1. at[0] # "start"
      BY DEF BallsNeverStuck
    <3>2. r = 0 \/ at[r] # "start"
      BY <3>1 DEF BallsInv, Handed, BallsNeverStuck, CanReceive
    <3>3. at[r] # "share"
      BY DEF BallsInv, ProcInv, ProcAt, BallsNeverStuck
    <3> QED BY <2>1, <3>1, <3>2, <3>3
  <2>3. CASE \A r \in Procs : at[r] = "gather"
    BY <2>3 DEF BallsNeverStuck, CanGather, BallsDone
  <2>4. CASE \E r \in Procs : at[r] # "gather"
    <3> DEFINE waiting == {Len(shared[r]) : r \in {q \in Procs : at[q] = "move"}}
    <3>1. waiting \in SUBSET Nat /\ waiting # {}
      BY <2>1, <2>2, <2>4
    <3>2. PICK n \in waiting : \A m \in waiting : n <= m
      BY <3>1, LeastNatural
    <3>3. PICK r \in Procs : at[r] = "move" /\ Len(shared[r]) = n
      BY <3>2
    <3>4. ASSUME NEW q \in Procs PROVE Len(shared[q]) >= Len(shared[r])
      <4>1. CASE at[q] = "move"
        <5>1. Len(shared[q]) \in waiting
          BY <4>1
        <5>2. n <= Len(shared[q])
          BY <3>2, <5>1
        <5> QED BY <2>1, <3>3, <5>2
      <4>2. CASE at[q] = "gather"
        <5>1. Len(shared[q]) = Steps /\ Len(shared[r]) <= Steps
          BY <4>2 DEF BallsInv, ProcInv, ProcAt
        <5> QED BY <2>1, <5>1, BallsAssumption
      <4> QED BY <2>2, <4>1, <4>2
    <3>5. CanMove(r)
      BY <3>3, <3>4 DEF CanMove
    <3> QED BY <3>5 DEF BallsNeverStuck
  <2> QED BY <2>3, <2>4
<1> QED BY <1>1, BallsInvariant, PTL
=============================================================================
