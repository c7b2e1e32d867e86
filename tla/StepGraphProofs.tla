----------------------------- MODULE StepGraphProofs -----------------------------
(***************************************************************************)
(* Proofs about StepGraph, for any finite set of steps and any graph: the  *)
(* levels of graph.Niveis are what their definition says, respect every    *)
(* edge, and fail to cover the graph exactly when it has a cycle.          *)
(***************************************************************************)
EXTENDS StepGraph, LeastNatural

(***************************************************************************)
(* The levels                                                              *)
(***************************************************************************)

\* The steps whose counter is zero after one more level
Mais(g, S) == S \cup {n \in Nos : Antes(g, n) \subseteq S}

\* The number of steps is a number
LEMMA QuantosNos == Cardinality(Nos) \in Nat
BY NosFinitos, FS_CardinalityType

\* The levels can be counted as far as one likes
LEMMA NiveisExistem ==
  ASSUME NEW g, NEW N \in Nat
  PROVE  \E h : h = [k \in 0..N |-> IF k = 0 THEN {} ELSE Mais(g, h[k - 1])]
<1> DEFINE Segue(h, m) == h = [k \in 0..m |-> IF k = 0 THEN {} ELSE Mais(g, h[k - 1])]
           T == {m \in Nat : ~ \E h : Segue(h, m)}
<1>1. SUFFICES ASSUME T # {} PROVE FALSE
  OBVIOUS
<1>2. PICK n \in T : \A m \in T : n <= m
  BY <1>1, MenorNatural
<1>3. n \in Nat /\ ~ \E h : Segue(h, n)
  OBVIOUS
<1>4. n # 0
  <2>1. Segue([k \in 0..0 |-> {}], 0)
    OBVIOUS
  <2> QED
    BY <1>3, <2>1
<1>5. \E h : Segue(h, n - 1)
  <2>1. n - 1 \in Nat /\ ~(n <= n - 1)
    BY <1>3, <1>4
  <2> QED
    BY <1>2, <2>1
<1>6. PICK h : Segue(h, n - 1)
  BY <1>5
<1> DEFINE j == [k \in 0..n |-> IF k < n THEN h[k] ELSE Mais(g, h[n - 1])]
<1>7. Segue(j, n)
  <2>1. \A k \in 0..(n - 1) : h[k] = IF k = 0 THEN {} ELSE Mais(g, h[k - 1])
    BY <1>6
  <2>2. \A k \in 0..n : j[k] = IF k = 0 THEN {} ELSE Mais(g, j[k - 1])
    BY <1>3, <1>4, <2>1
  <2> QED
    BY <2>2
<1> QED
  BY <1>3, <1>7

\* Feitos is what its recursion says
LEMMA FeitosPorNivel ==
  ASSUME NEW g
  PROVE  /\ Feitos(g)[0] = {}
         /\ \A k \in 1..Cardinality(Nos) : Feitos(g)[k] = Mais(g, Feitos(g)[k - 1])
<1> DEFINE N == Cardinality(Nos)
<1>1. N \in Nat
  BY QuantosNos
<1>2. Feitos(g) = CHOOSE h : h = [k \in 0..N |-> IF k = 0 THEN {} ELSE Mais(g, h[k - 1])]
  BY DEF Feitos, Mais
<1>3. \E h : h = [k \in 0..N |-> IF k = 0 THEN {} ELSE Mais(g, h[k - 1])]
  BY <1>1, NiveisExistem
<1>4. Feitos(g) = [k \in 0..N |-> IF k = 0 THEN {} ELSE Mais(g, Feitos(g)[k - 1])]
  BY <1>2, <1>3
<1> DEFINE F == Feitos(g)
<1>5. \A k \in 0..N : F[k] = IF k = 0 THEN {} ELSE Mais(g, F[k - 1])
  BY <1>4
<1> HIDE DEF F, N
<1>6. F[0] = {} /\ \A k \in 1..N : F[k] = Mais(g, F[k - 1])
  BY <1>1, <1>5
<1> QED
  BY <1>6 DEF F, N

\* A level never gives up what the levels before it have
LEMMA FeitosCresce ==
  ASSUME NEW g
  PROVE  /\ \A k \in 0..Cardinality(Nos) : Feitos(g)[k] \subseteq Nos
         /\ \A i, k \in 0..Cardinality(Nos) : i <= k => Feitos(g)[i] \subseteq Feitos(g)[k]
<1> DEFINE N == Cardinality(Nos)
           F == Feitos(g)
<1>1. N \in Nat /\ F[0] = {} /\ \A k \in 1..N : F[k] = Mais(g, F[k - 1])
  BY QuantosNos, FeitosPorNivel
<1> HIDE DEF N, F
<1> DEFINE T == {k \in 0..N : ~(F[k] \subseteq Nos /\ \A i \in 0..k : F[i] \subseteq F[k])}
<1>2. SUFFICES T = {}
  BY <1>1 DEF N, F
<1>3. SUFFICES ASSUME T # {} PROVE FALSE
  OBVIOUS
<1>4. PICK k \in T : \A m \in T : k <= m
  <2>1. T \in SUBSET Nat
    BY <1>1
  <2> QED
    BY <2>1, <1>3, MenorNatural
<1>5. k \in 0..N /\ ~(F[k] \subseteq Nos /\ \A i \in 0..k : F[i] \subseteq F[k])
  OBVIOUS
<1>6. k # 0
  BY <1>1, <1>5
<1>7. k - 1 \in 0..N /\ k \in 1..N /\ k - 1 \notin T
  BY <1>1, <1>4, <1>5, <1>6
<1>8. F[k - 1] \subseteq Nos /\ \A i \in 0..(k - 1) : F[i] \subseteq F[k - 1]
  BY <1>7
<1>9. F[k] = Mais(g, F[k - 1])
  BY <1>1, <1>7
<1>10. F[k] \subseteq Nos /\ F[k - 1] \subseteq F[k]
  BY <1>8, <1>9 DEF Mais
<1>11. \A i \in 0..k : F[i] \subseteq F[k]
  <2> SUFFICES ASSUME NEW i \in 0..k PROVE F[i] \subseteq F[k]
    OBVIOUS
  <2>1. i = k \/ i \in 0..(k - 1)
    BY <1>5
  <2> QED
    BY <2>1, <1>8, <1>10
<1> QED
  BY <1>5, <1>10, <1>11

\* Every edge goes from an earlier level to a later one
LEMMA ArestaSobeNivel ==
  ASSUME NEW g, NEW k \in 1..Cardinality(Nos), NEW x \in Nivel(g, k), NEW y \in Nos,
         <<y, x>> \in g
  PROVE  y \in Feitos(g)[k - 1]
BY FeitosPorNivel DEF Nivel, Mais, Antes

(***************************************************************************)
(* Cycles                                                                  *)
(***************************************************************************)

\* After as many levels as there are steps, one more adds nothing
LEMMA FeitosAcaba ==
  ASSUME NEW g
  PROVE  Mais(g, Feitos(g)[Cardinality(Nos)]) = Feitos(g)[Cardinality(Nos)]
<1> DEFINE N == Cardinality(Nos)
           F == Feitos(g)
<1>1. N \in Nat /\ F[0] = {} /\ \A k \in 1..N : F[k] = Mais(g, F[k - 1])
  BY QuantosNos, FeitosPorNivel
<1>2. /\ \A k \in 0..N : F[k] \subseteq Nos
      /\ \A i, k \in 0..N : i <= k => F[i] \subseteq F[k]
  BY FeitosCresce
<1>3. \A k \in 0..N : IsFiniteSet(F[k]) /\ Cardinality(F[k]) \in Nat
  BY <1>2, NosFinitos, FS_Subset, FS_CardinalityType
<1>4. \A S \in SUBSET Nos : Cardinality(S) <= N /\ (Cardinality(S) = N => S = Nos)
  BY NosFinitos, FS_Subset
<1> HIDE DEF N, F
<1>5. CASE \A k \in 1..N : F[k] # F[k - 1]
  <2> DEFINE T == {k \in 0..N : ~(k <= Cardinality(F[k]))}
  <2>1. T = {}
    <3>1. SUFFICES ASSUME T # {} PROVE FALSE
      OBVIOUS
    <3>2. PICK k \in T : \A m \in T : k <= m
      <4>1. T \in SUBSET Nat
        BY <1>1
      <4> QED
        BY <4>1, <3>1, MenorNatural
    <3>3. k \in 0..N /\ ~(k <= Cardinality(F[k]))
      OBVIOUS
    <3>4. k # 0
      BY <1>3, <3>3
    <3>5. k \in 1..N /\ k - 1 \in 0..N /\ k - 1 \notin T
      BY <1>1, <3>2, <3>3, <3>4
    <3>6. k - 1 <= Cardinality(F[k - 1])
      BY <3>5
    <3>7. F[k - 1] \subseteq F[k] /\ F[k - 1] # F[k]
      BY <1>2, <1>5, <3>5
    <3>8. Cardinality(F[k - 1]) <= Cardinality(F[k]) /\ Cardinality(F[k - 1]) # Cardinality(F[k])
      BY <1>3, <3>3, <3>7, FS_Subset
    <3> QED
      BY <1>3, <3>3, <3>5, <3>6, <3>8
  <2>2. N \in 0..N /\ N \notin T
    BY <1>1, <2>1
  <2>3. N <= Cardinality(F[N])
    BY <2>2
  <2>4. F[N] = Nos
    BY <1>1, <1>2, <1>3, <1>4, <2>2, <2>3
  <2> QED
    BY <2>4 DEF N, F, Mais
<1>6. CASE ~ \A k \in 1..N : F[k] # F[k - 1]
  <2>1. PICK k \in 1..N : F[k] = F[k - 1]
    BY <1>6
  <2>2. Mais(g, F[k - 1]) = F[k - 1]
    BY <1>1, <2>1
  <2> DEFINE T == {j \in k..N : F[j] # F[k - 1]}
  <2>3. T = {}
    <3>1. SUFFICES ASSUME T # {} PROVE FALSE
      OBVIOUS
    <3>2. T \in SUBSET Nat
      BY <1>1
    <3>3. PICK j \in T : \A m \in T : j <= m
      BY <3>1, <3>2, MenorNatural
    <3>4. j \in k..N /\ F[j] # F[k - 1]
      OBVIOUS
    <3>5. j # k
      BY <2>1, <3>4
    <3>6. j \in 1..N /\ j - 1 \in k..N /\ j - 1 \notin T
      BY <1>1, <3>3, <3>4, <3>5
    <3>7. F[j - 1] = F[k - 1]
      BY <3>6
    <3> QED
      BY <1>1, <2>2, <3>4, <3>6, <3>7
  <2>4. N \in k..N /\ N \notin T
    BY <1>1, <2>3
  <2> QED
    BY <2>2, <2>4 DEF N, F
<1> QED
  BY <1>5, <1>6

\* Runner.Run refuses, for want of levels, exactly the graphs Validate refuses for a
\* cycle (graph.Niveis, src/internal/graph/order.go; encontrarCiclo,
\* src/internal/domain/workflow/workflow.go): the two walks are one rule.
THEOREM NiveisOuCiclo ==
  ASSUME NEW g
  PROVE  TemNiveis(g) <=> ~Ciclico(g)
<1> DEFINE N == Cardinality(Nos)
           F == Feitos(g)
<1>1. N \in Nat /\ F[0] = {} /\ \A k \in 1..N : F[k] = Mais(g, F[k - 1])
  BY QuantosNos, FeitosPorNivel
<1>2. Mais(g, F[N]) = F[N] /\ F[N] \subseteq Nos
  BY <1>1, FeitosAcaba, FeitosCresce
<1> HIDE DEF N, F
<1>3. ASSUME F[N] # Nos PROVE Ciclico(g)
  <2> DEFINE S == Nos \ F[N]
  <2>1. S \in (SUBSET Nos) \ {{}}
    BY <1>2, <1>3
  <2>2. ASSUME NEW n \in S PROVE Antes(g, n) \cap S # {}
    <3>1. n \in Nos /\ n \notin Mais(g, F[N])
      BY <1>2
    <3>2. ~(Antes(g, n) \subseteq F[N])
      BY <3>1 DEF Mais
    <3> QED
      BY <3>2 DEF Antes
  <2> QED
    BY <2>1, <2>2 DEF Ciclico
<1>4. ASSUME F[N] = Nos, Ciclico(g) PROVE FALSE
  <2>1. PICK S \in (SUBSET Nos) \ {{}} : \A n \in S : Antes(g, n) \cap S # {}
    BY <1>4 DEF Ciclico
  <2> DEFINE T == {k \in 0..N : F[k] \cap S # {}}
  <2>2. N \in T
    BY <1>1, <1>4, <2>1
  <2>3. PICK k \in T : \A m \in T : k <= m
    <3>1. T \in SUBSET Nat /\ T # {}
      BY <1>1, <2>2
    <3> QED
      BY <3>1, MenorNatural
  <2>4. k \in 0..N /\ F[k] \cap S # {}
    OBVIOUS
  <2>5. k # 0
    BY <1>1, <2>4
  <2>6. k \in 1..N /\ k - 1 \in 0..N /\ k - 1 \notin T
    BY <1>1, <2>3, <2>4, <2>5
  <2>7. F[k - 1] \cap S = {}
    BY <2>6
  <2>8. PICK n \in F[k] \cap S : TRUE
    BY <2>4
  <2>9. Antes(g, n) \subseteq F[k - 1]
    BY <1>1, <2>6, <2>7, <2>8 DEF Mais
  <2> QED
    BY <2>1, <2>7, <2>8, <2>9
<1> QED
  BY <1>3, <1>4 DEF TemNiveis, N, F
================================================================================
