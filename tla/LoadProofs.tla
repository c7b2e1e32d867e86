--------------------------------- MODULE LoadProofs ---------------------------------
(***************************************************************************)
(* Load, for any pipelines, any streams of records, any batches and        *)
(* blocks, any number of executions and of failing calls: types, what is   *)
(* in the table, what the result says of it, what is left behind, and the  *)
(* implementation of Landing.                                              *)
(***************************************************************************)
EXTENDS Load, LeastNatural, SequenceTheorems

--------------------------------------------------------------------------------
(* Recursion and induction up to a number                                      *)

\* what holds at 0, and at n when it holds before n, holds up to N
LEMMA AteN ==
  ASSUME NEW N \in Nat, NEW T \in SUBSET (0..N), 0 \in T, \A n \in 1..N : n - 1 \in T => n \in T
  PROVE  T = 0..N
<1> SUFFICES ASSUME (0..N) \ T # {} PROVE FALSE
  OBVIOUS
<1>1. PICK n \in (0..N) \ T : \A m \in (0..N) \ T : n <= m
  <2>1. (0..N) \ T \in SUBSET Nat
    OBVIOUS
  <2> QED BY <2>1, MenorNatural
<1>2. n \in 1..N /\ n - 1 \in 0..N /\ ~(n <= n - 1)
  BY <1>1
<1> QED BY <1>1, <1>2

\* the steps of a recursion stay in S; a function follows it up to n
Fecha(passo, N, S) == \A n \in 1..N : \A t \in S : passo[n][t] \in S
Segue(f, passo, base, n) == f[0] = base /\ \A k \in 1..n : f[k] = passo[k][f[k - 1]]

\* there is a function that follows a recursion whose steps stay in S
LEMMA Recursao ==
  ASSUME NEW N \in Nat, NEW S, NEW base \in S, NEW passo, Fecha(passo, N, S)
  PROVE  \E f \in [0..N -> S] : Segue(f, passo, base, N)
<1> DEFINE T == {n \in 0..N : \E f \in [0..N -> S] : Segue(f, passo, base, n)}
<1>1. 0 \in T
  <2>1. PICK f \in [0..N -> S] : f = [k \in 0..N |-> base]
    OBVIOUS
  <2>2. 0 \in 0..N /\ 1..0 = {}
    OBVIOUS
  <2>3. Segue(f, passo, base, 0)
    BY <2>1, <2>2 DEF Segue
  <2> QED BY <2>2, <2>3
<1>2. ASSUME NEW n \in 1..N, n - 1 \in T PROVE n \in T
  <2>1. PICK f \in [0..N -> S] : Segue(f, passo, base, n - 1)
    BY <1>2
  <2> DEFINE g == [f EXCEPT ![n] = passo[n][f[n - 1]]]
  <2>2. g \in [0..N -> S]
    BY <2>1 DEF Fecha
  <2>3. Segue(g, passo, base, n)
    <3>1. g[0] = base /\ n - 1 \in 0..N
      BY <2>1 DEF Segue
    <3>2. ASSUME NEW k \in 1..n PROVE g[k] = passo[k][g[k - 1]]
      <4>1. CASE k = n
        BY <4>1
      <4>2. CASE k # n
        <5>1. k \in 1..(n - 1) /\ k \in 0..N /\ k - 1 \in 0..N /\ k - 1 # n
          BY <4>2
        <5> QED BY <5>1, <4>2, <2>1 DEF Segue
      <4> QED BY <4>1, <4>2
    <3> QED BY <3>1, <3>2 DEF Segue
  <2> HIDE DEF g
  <2> QED BY <2>2, <2>3
<1> HIDE DEF T
<1>3. T = 0..N
  <2>1. T \in SUBSET (0..N)
    BY DEF T
  <2> QED BY <1>1, <1>2, <2>1, AteN
<1>4. N \in T
  BY <1>3
<1> QED BY <1>4 DEF T

\* a sequence with one element more
LEMMA ComMaisUm ==
  ASSUME NEW S, NEW s \in Seq(S), NEW x \in S
  PROVE  /\ Append(s, x) \in Seq(S) /\ Len(s) \in Nat /\ Len(Append(s, x)) = Len(s) + 1
         /\ DOMAIN Append(s, x) = 1..(Len(s) + 1) /\ DOMAIN s = 1..Len(s)
         /\ \A k \in 1..Len(s) : Append(s, x)[k] = s[k]
         /\ Append(s, x)[Len(s) + 1] = x
BY AppendProperties, LenProperties

\* a sequence after another
LEMMA UmaAposOutra ==
  ASSUME NEW S, NEW s \in Seq(S), NEW t \in Seq(S)
  PROVE  /\ s \o t \in Seq(S) /\ Len(s) \in Nat /\ Len(t) \in Nat /\ Len(s \o t) = Len(s) + Len(t)
         /\ DOMAIN (s \o t) = 1..(Len(s) + Len(t)) /\ DOMAIN s = 1..Len(s) /\ DOMAIN t = 1..Len(t)
         /\ \A k \in 1..Len(s) : (s \o t)[k] = s[k]
         /\ \A k \in 1..Len(t) : (s \o t)[Len(s) + k] = t[k]
<1>1. Len(s) \in Nat /\ Len(t) \in Nat /\ DOMAIN s = 1..Len(s) /\ DOMAIN t = 1..Len(t)
  BY LenProperties
<1>2. /\ s \o t \in Seq(S) /\ Len(s \o t) = Len(s) + Len(t)
      /\ \A k \in 1..(Len(s) + Len(t)) : (s \o t)[k] = IF k <= Len(s) THEN s[k] ELSE t[k - Len(s)]
  BY ConcatProperties
<1>3. DOMAIN (s \o t) = 1..(Len(s) + Len(t))
  BY <1>2, LenProperties
<1>4. ASSUME NEW k \in 1..Len(s) PROVE (s \o t)[k] = s[k]
  <2>1. k \in 1..(Len(s) + Len(t)) /\ k <= Len(s)
    BY <1>1
  <2> QED BY <2>1, <1>2
<1>5. ASSUME NEW k \in 1..Len(t) PROVE (s \o t)[Len(s) + k] = t[k]
  <2>1. Len(s) + k \in 1..(Len(s) + Len(t)) /\ ~(Len(s) + k <= Len(s)) /\ (Len(s) + k) - Len(s) = k
    BY <1>1
  <2> QED BY <2>1, <1>2
<1> QED BY <1>1, <1>2, <1>3, <1>4, <1>5

\* the ids of two sequences, and of one row more
LEMMA IdsDaSoma ==
  ASSUME NEW S, NEW s \in Seq(S), NEW t \in Seq(S)
  PROVE  Ids(s \o t) = Ids(s) \cup Ids(t)
<1>1. /\ DOMAIN (s \o t) = 1..(Len(s) + Len(t)) /\ DOMAIN s = 1..Len(s) /\ DOMAIN t = 1..Len(t)
      /\ \A k \in 1..Len(s) : (s \o t)[k] = s[k]
      /\ \A k \in 1..Len(t) : (s \o t)[Len(s) + k] = t[k]
      /\ Len(s) \in Nat /\ Len(t) \in Nat
  BY UmaAposOutra
<1>2. ASSUME NEW k \in DOMAIN (s \o t) PROVE (s \o t)[k].id \in Ids(s) \cup Ids(t)
  <2>1. CASE k \in 1..Len(s)
    BY <2>1, <1>1 DEF Ids
  <2>2. CASE k \notin 1..Len(s)
    <3>1. k - Len(s) \in 1..Len(t) /\ Len(s) + (k - Len(s)) = k
      BY <2>2, <1>1
    <3>2. (s \o t)[k] = t[k - Len(s)]
      BY <3>1, <1>1
    <3> QED BY <3>1, <3>2, <1>1 DEF Ids
  <2> QED BY <2>1, <2>2
<1>3. ASSUME NEW k \in DOMAIN s PROVE s[k].id \in Ids(s \o t)
  <2>1. k \in DOMAIN (s \o t) /\ (s \o t)[k] = s[k]
    BY <1>1
  <2> QED BY <2>1 DEF Ids
<1>4. ASSUME NEW k \in DOMAIN t PROVE t[k].id \in Ids(s \o t)
  <2>1. Len(s) + k \in DOMAIN (s \o t) /\ (s \o t)[Len(s) + k] = t[k]
    BY <1>1
  <2> QED BY <2>1 DEF Ids
<1> QED BY <1>2, <1>3, <1>4 DEF Ids

\* the ids of a sequence with one more row
LEMMA IdsComMaisUm ==
  ASSUME NEW S, NEW s \in Seq(S), NEW x \in S
  PROVE  Ids(Append(s, x)) = Ids(s) \cup {x.id}
<1>1. /\ DOMAIN Append(s, x) = 1..(Len(s) + 1) /\ DOMAIN s = 1..Len(s) /\ Len(s) \in Nat
      /\ (\A k \in 1..Len(s) : Append(s, x)[k] = s[k]) /\ Append(s, x)[Len(s) + 1] = x
  BY ComMaisUm
<1>2. \A k \in 1..(Len(s) + 1) : k \in 1..Len(s) \/ k = Len(s) + 1
  BY <1>1
<1>3. 1..Len(s) \subseteq 1..(Len(s) + 1) /\ Len(s) + 1 \in 1..(Len(s) + 1)
  BY <1>1
<1>4. \A k \in DOMAIN Append(s, x) : Append(s, x)[k].id \in Ids(s) \cup {x.id}
  BY <1>1, <1>2 DEF Ids
<1>5. \A k \in DOMAIN s : s[k].id \in Ids(Append(s, x))
  BY <1>1, <1>3 DEF Ids
<1>6. x.id \in Ids(Append(s, x))
  BY <1>1, <1>3 DEF Ids
<1> QED BY <1>4, <1>5, <1>6 DEF Ids
--------------------------------------------------------------------------------
(* Rows at some positions, and how a batch enters a table                      *)

\* Selecao is what its recursion says
LEMMA SelecaoPassoAPasso ==
  ASSUME NEW S, NEW lote \in Seq(S), NEW P
  PROVE  /\ Len(lote) \in Nat /\ DOMAIN lote = 1..Len(lote)
         /\ \A n \in 0..Len(lote) : Selecao(lote, P)[n] \in Seq(S)
         /\ Selecao(lote, P)[0] = <<>>
         /\ \A n \in 1..Len(lote) : Selecao(lote, P)[n] =
              IF n \in P THEN Append(Selecao(lote, P)[n - 1], lote[n]) ELSE Selecao(lote, P)[n - 1]
<1> DEFINE N == Len(lote)
           Corpo(f, n) == IF n = 0 THEN <<>> ELSE IF n \in P THEN Append(f[n - 1], lote[n]) ELSE f[n - 1]
<1>1. N \in Nat /\ DOMAIN lote = 1..N /\ \A n \in 1..N : lote[n] \in S
  BY LenProperties, ElementOfSeq
<1>2. Selecao(lote, P) = CHOOSE f : f = [n \in 0..N |-> Corpo(f, n)]
  BY DEF Selecao
<1> DEFINE passo == [n \in 1..N |-> [t \in Seq(S) |-> IF n \in P THEN Append(t, lote[n]) ELSE t]]
<1>3. \A n \in 1..N : \A t \in Seq(S) :
        /\ passo[n][t] = IF n \in P THEN Append(t, lote[n]) ELSE t
        /\ passo[n][t] \in Seq(S)
  <2>1. \A n \in 1..N : \A t \in Seq(S) : Append(t, lote[n]) \in Seq(S)
    BY <1>1, AppendProperties
  <2> HIDE DEF N
  <2> QED BY <2>1
<1>4. \E f : f = [n \in 0..N |-> Corpo(f, n)]
  <2>1. <<>> \in Seq(S)
    BY EmptySeq
  <2> HIDE DEF passo, N, Corpo
  <2>2. PICK f \in [0..N -> Seq(S)] : Segue(f, passo, <<>>, N)
    <3> PICK X : X = Seq(S)
      OBVIOUS
    <3> PICK M \in Nat : M = N
      BY <1>1
    <3> PICK p : p = passo
      OBVIOUS
    <3> PICK v : v = <<>>
      OBVIOUS
    <3>1. v \in X /\ Fecha(p, M, X)
      BY <1>3, <2>1 DEF Fecha
    <3>2. \E f \in [0..M -> X] : Segue(f, p, v, M)
      BY <3>1, Recursao
    <3> QED BY <3>2
  <2>3. ASSUME NEW n \in 0..N PROVE f[n] = Corpo(f, n)
    <3>1. CASE n = 0
      BY <2>2, <3>1 DEF Corpo, Segue
    <3>2. CASE n # 0
      <4>1. n \in 1..N /\ n - 1 \in 0..N
        BY <3>2, <1>1
      <4>2. passo[n][f[n - 1]] = IF n \in P THEN Append(f[n - 1], lote[n]) ELSE f[n - 1]
        BY <4>1, <2>2, <1>3
      <4> QED BY <4>1, <2>2, <3>2, <4>2 DEF Corpo, Segue
    <3> QED BY <3>1, <3>2
  <2>4. f = [n \in 0..N |-> Corpo(f, n)]
    BY <2>2, <2>3
  <2> QED BY <2>4
<1> PICK f : f = Selecao(lote, P)
  OBVIOUS
<1>5. f = [n \in 0..N |-> Corpo(f, n)]
  BY <1>2, <1>4
<1>6. f[0] = <<>> /\ \A n \in 1..N : f[n] = IF n \in P THEN Append(f[n - 1], lote[n]) ELSE f[n - 1]
  <2> HIDE DEF N
  <2>1. 0 \in 0..N /\ \A n \in 1..N : n \in 0..N /\ n # 0
    BY <1>1
  <2>2. \A n \in 0..N : f[n] = Corpo(f, n)
    BY <1>5
  <2> QED BY <2>1, <2>2
<1> HIDE DEF N
<1> DEFINE T == {n \in 0..N : f[n] \in Seq(S)}
<1>7. T = 0..N
  <2>1. 0 \in T
    <3>1. 0 \in 0..N /\ <<>> \in Seq(S)
      BY <1>1, EmptySeq
    <3> QED BY <3>1, <1>6
  <2>2. ASSUME NEW n \in 1..N, n - 1 \in T PROVE n \in T
    <3>1. f[n - 1] \in Seq(S) /\ lote[n] \in S /\ n \in 0..N
      BY <2>2, <1>1
    <3>2. Append(f[n - 1], lote[n]) \in Seq(S)
      BY <3>1, AppendProperties
    <3> QED BY <3>1, <3>2, <1>6
  <2>3. T \in SUBSET (0..N)
    OBVIOUS
  <2> HIDE DEF T
  <2> QED BY <1>1, <2>1, <2>2, <2>3, AteN
<1> QED BY <1>1, <1>6, <1>7 DEF N

\* what is selected comes from the positions, and all of them are there
Tiradas(lote, P, n) ==
  /\ Len(Selecao(lote, P)[n]) <= n
  /\ \A k \in DOMAIN Selecao(lote, P)[n] : \E m \in 1..n : m \in P /\ Selecao(lote, P)[n][k] = lote[m]
  /\ Ids(Selecao(lote, P)[n]) = {lote[m].id : m \in P \cap (1..n)}

\* the rows selected so far are rows of the batch at the positions selected, and have their ids
LEMMA SelecaoFiel ==
  ASSUME NEW S, NEW lote \in Seq(S), NEW P, NEW n \in 0..Len(lote)
  PROVE  Tiradas(lote, P, n)
<1> PICK f : f = Selecao(lote, P)
  OBVIOUS
<1> PICK N : N = Len(lote)
  OBVIOUS
<1>1. /\ N \in Nat /\ DOMAIN lote = 1..N /\ f[0] = <<>>
      /\ \A k \in 0..N : f[k] \in Seq(S)
      /\ \A k \in 1..N : f[k] = IF k \in P THEN Append(f[k - 1], lote[k]) ELSE f[k - 1]
      /\ \A k \in 1..N : lote[k] \in S
  BY SelecaoPassoAPasso, ElementOfSeq
<1> DEFINE Vale(k) == /\ Len(f[k]) <= k
                      /\ \A j \in DOMAIN f[k] : \E m \in 1..k : m \in P /\ f[k][j] = lote[m]
                      /\ Ids(f[k]) = {lote[m].id : m \in P \cap (1..k)}
           T == {k \in 0..N : Vale(k)}
<1>2. 0 \in T
  <2>1. Len(<<>>) = 0 /\ DOMAIN <<>> = {} /\ 1..0 = {}
    OBVIOUS
  <2>2. Ids(<<>>) = {} /\ {lote[m].id : m \in P \cap (1..0)} = {}
    BY <2>1 DEF Ids
  <2> QED BY <1>1, <2>1, <2>2
<1>3. ASSUME NEW k \in 1..N, k - 1 \in T PROVE k \in T
  <2>1. /\ k \in 0..N /\ k - 1 \in 0..N /\ Vale(k - 1) /\ f[k - 1] \in Seq(S) /\ lote[k] \in S /\ Len(f[k - 1]) \in Nat
        /\ 1..k = (1..(k - 1)) \cup {k} /\ k \in 1..k
    <3>1. k \in 0..N /\ k - 1 \in 0..N /\ Vale(k - 1) /\ 1..k = (1..(k - 1)) \cup {k} /\ k \in 1..k
      BY <1>3, <1>1
    <3>2. f[k - 1] \in Seq(S) /\ lote[k] \in S
      BY <3>1, <1>1
    <3> QED BY <3>1, <3>2, LenProperties
  <2>2. CASE k \in P
    <3>1. f[k] = Append(f[k - 1], lote[k])
      BY <2>2, <1>1
    <3>2. /\ Len(f[k]) = Len(f[k - 1]) + 1 /\ DOMAIN f[k] = 1..(Len(f[k - 1]) + 1)
          /\ DOMAIN f[k - 1] = 1..Len(f[k - 1])
          /\ \A j \in 1..Len(f[k - 1]) : f[k][j] = f[k - 1][j]
          /\ f[k][Len(f[k - 1]) + 1] = lote[k]
      BY <2>1, <3>1, ComMaisUm
    <3>3. Ids(f[k]) = Ids(f[k - 1]) \cup {lote[k].id}
      BY <2>1, <3>1, IdsComMaisUm
    <3>4. ASSUME NEW j \in DOMAIN f[k] PROVE \E m \in 1..k : m \in P /\ f[k][j] = lote[m]
      <4>1. CASE j \in DOMAIN f[k - 1]
        <5>1. PICK m \in 1..(k - 1) : m \in P /\ f[k - 1][j] = lote[m]
          BY <4>1, <2>1
        <5>2. f[k][j] = f[k - 1][j]
          BY <4>1, <3>2
        <5>3. m \in 1..k
          BY <2>1, <5>1
        <5> QED BY <5>1, <5>2, <5>3, Zenon
      <4>2. CASE j = Len(f[k - 1]) + 1
        BY <4>2, <2>1, <2>2, <3>2, Zenon
      <4>3. j \in 1..Len(f[k - 1]) \/ j = Len(f[k - 1]) + 1
        BY <2>1, <3>2
      <4> QED BY <4>1, <4>2, <4>3, <3>2
    <3>5. {lote[m].id : m \in P \cap (1..k)} = {lote[m].id : m \in P \cap (1..(k - 1))} \cup {lote[k].id}
      <4>1. P \cap (1..k) = (P \cap (1..(k - 1))) \cup {k}
        BY <2>1, <2>2
      <4> QED BY <4>1, Zenon
    <3>6. Len(f[k]) <= k
      BY <2>1, <3>2
    <3>7. Ids(f[k]) = {lote[m].id : m \in P \cap (1..k)}
      BY <2>1, <3>3, <3>5
    <3> QED BY <2>1, <3>4, <3>6, <3>7
  <2>3. CASE k \notin P
    <3>1. f[k] = f[k - 1] /\ P \cap (1..k) = P \cap (1..(k - 1)) /\ Len(f[k]) <= k
      <4>1. f[k] = f[k - 1]
        BY <2>3, <1>1
      <4>2. P \cap (1..k) = P \cap (1..(k - 1))
        BY <2>1, <2>3
      <4>3. Len(f[k - 1]) <= k - 1
        BY <2>1
      <4>4. Len(f[k]) <= k
        BY <2>1, <4>1, <4>3
      <4> QED BY <4>1, <4>2, <4>4
    <3>2. \A j \in DOMAIN f[k] : \E m \in 1..k : m \in P /\ f[k][j] = lote[m]
      <4>1. \A j \in DOMAIN f[k - 1] : \E m \in 1..(k - 1) : m \in P /\ f[k - 1][j] = lote[m]
        BY <2>1
      <4>2. 1..(k - 1) \subseteq 1..k
        BY <2>1
      <4> QED BY <3>1, <4>1, <4>2, Zenon
    <3>3. Ids(f[k]) = {lote[m].id : m \in P \cap (1..k)}
      <4>1. Ids(f[k - 1]) = {lote[m].id : m \in P \cap (1..(k - 1))}
        BY <2>1
      <4> QED BY <3>1, <4>1
    <3> QED BY <2>1, <3>1, <3>2, <3>3
  <2> QED BY <2>2, <2>3
<1>4. T = 0..N
  <2>1. T \in SUBSET (0..N)
    OBVIOUS
  <2> HIDE DEF T
  <2> QED BY <1>1, <1>2, <1>3, <2>1, AteN
<1>5. Vale(n)
  BY <1>4
<1> QED BY <1>5 DEF Tiradas

\* what is selected up to a point is the beginning of what is selected further on
LEMMA SelecaoPrefixo ==
  ASSUME NEW S, NEW lote \in Seq(S), NEW P, NEW n \in 0..Len(lote)
  PROVE  /\ Len(Selecao(lote, P)[n]) <= Len(Selecionadas(lote, P))
         /\ \A k \in 1..Len(Selecao(lote, P)[n]) : Selecionadas(lote, P)[k] = Selecao(lote, P)[n][k]
<1> PICK f : f = Selecao(lote, P)
  OBVIOUS
<1> PICK N : N = Len(lote)
  OBVIOUS
<1>1. /\ N \in Nat /\ n \in 0..N
      /\ \A k \in 0..N : f[k] \in Seq(S)
      /\ \A k \in 1..N : f[k] = IF k \in P THEN Append(f[k - 1], lote[k]) ELSE f[k - 1]
      /\ \A k \in 1..N : lote[k] \in S
  <2>1. \A k \in 1..Len(lote) : lote[k] \in S
    BY ElementOfSeq
  <2>2. N \in Nat /\ \A k \in 0..N : f[k] \in Seq(S)
    BY SelecaoPassoAPasso
  <2>3. \A k \in 1..N : f[k] = IF k \in P THEN Append(f[k - 1], lote[k]) ELSE f[k - 1]
    BY SelecaoPassoAPasso
  <2> QED BY <2>1, <2>2, <2>3
<1> PICK q \in Nat : q = Len(f[n])
  BY <1>1, LenProperties
<1> DEFINE Vale(k) == k >= n => (Len(f[k]) >= q /\ \A j \in 1..q : f[k][j] = f[n][j])
           T == {k \in 0..N : Vale(k)}
<1>2. 0 \in T
  BY <1>1
<1>3. ASSUME NEW k \in 1..N, k - 1 \in T PROVE k \in T
  <2>1. k \in 0..N /\ k - 1 \in 0..N /\ Vale(k - 1)
    BY <1>3, <1>1
  <2>2. CASE k <= n
    BY <2>1, <2>2, <1>1
  <2>3. CASE k > n
    <3>1. Len(f[k - 1]) >= q /\ \A j \in 1..q : f[k - 1][j] = f[n][j]
      BY <2>1, <2>3, <1>1
    <3>2. CASE k \in P
      <4>1. f[k] = Append(f[k - 1], lote[k]) /\ f[k - 1] \in Seq(S) /\ lote[k] \in S
        BY <3>2, <2>1, <1>1
      <4>2. /\ Len(f[k - 1]) \in Nat /\ Len(f[k]) = Len(f[k - 1]) + 1
            /\ \A j \in 1..Len(f[k - 1]) : f[k][j] = f[k - 1][j]
        BY <4>1, ComMaisUm
      <4>3. \A j \in 1..q : j \in 1..Len(f[k - 1])
        BY <3>1, <4>2
      <4>4. Len(f[k]) >= q
        BY <3>1, <4>2
      <4>5. \A j \in 1..q : f[k][j] = f[n][j]
        BY <3>1, <4>2, <4>3
      <4> QED BY <2>1, <4>4, <4>5
    <3>3. CASE k \notin P
      BY <3>1, <3>3, <2>1, <1>1
    <3> QED BY <3>2, <3>3
  <2> QED BY <2>2, <2>3, <2>1, <1>1
<1>4. T = 0..N
  <2>1. T \in SUBSET (0..N)
    OBVIOUS
  <2> HIDE DEF T
  <2> QED BY <1>1, <1>2, <1>3, <2>1, AteN
<1>5. Vale(N)
  BY <1>1, <1>4
<1> QED BY <1>1, <1>5 DEF Selecionadas
\* Insercao is what its recursion says
LEMMA InsercaoPassoAPasso ==
  ASSUME NEW S, NEW s \in Seq(S), NEW lote \in Seq(S)
  PROVE  /\ Insercao(s, lote)[0] = s
         /\ \A n \in 1..Len(lote) : Insercao(s, lote)[n] =
              IF lote[n].id \in Ids(Insercao(s, lote)[n - 1]) THEN Insercao(s, lote)[n - 1]
              ELSE Append(Insercao(s, lote)[n - 1], lote[n])
<1> DEFINE N == Len(lote)
           Corpo(f, n) == IF n = 0 THEN s
                          ELSE IF lote[n].id \in Ids(f[n - 1]) THEN f[n - 1] ELSE Append(f[n - 1], lote[n])
<1>1. N \in Nat /\ \A n \in 1..N : lote[n] \in S
  BY LenProperties, ElementOfSeq
<1>2. Insercao(s, lote) = CHOOSE f : f = [n \in 0..N |-> Corpo(f, n)]
  BY DEF Insercao
<1> DEFINE passo == [n \in 1..N |-> [t \in Seq(S) |-> IF lote[n].id \in Ids(t) THEN t ELSE Append(t, lote[n])]]
<1>3. \A n \in 1..N : \A t \in Seq(S) :
        /\ passo[n][t] = IF lote[n].id \in Ids(t) THEN t ELSE Append(t, lote[n])
        /\ passo[n][t] \in Seq(S)
  <2>1. \A n \in 1..N : \A t \in Seq(S) : Append(t, lote[n]) \in Seq(S)
    BY <1>1, AppendProperties
  <2> HIDE DEF N
  <2> QED BY <2>1
<1>4. \E f : f = [n \in 0..N |-> Corpo(f, n)]
  <2> HIDE DEF passo, N, Corpo
  <2>1. PICK f \in [0..N -> Seq(S)] : Segue(f, passo, s, N)
    <3> PICK X : X = Seq(S)
      OBVIOUS
    <3> PICK M \in Nat : M = N
      BY <1>1
    <3> PICK p : p = passo
      OBVIOUS
    <3>1. s \in X /\ Fecha(p, M, X)
      BY <1>3 DEF Fecha
    <3>2. \E f \in [0..M -> X] : Segue(f, p, s, M)
      BY <3>1, Recursao
    <3> QED BY <3>2
  <2>2. ASSUME NEW n \in 0..N PROVE f[n] = Corpo(f, n)
    <3>1. CASE n = 0
      BY <2>1, <3>1 DEF Corpo, Segue
    <3>2. CASE n # 0
      <4>1. n \in 1..N /\ n - 1 \in 0..N
        BY <3>2, <1>1
      <4>2. passo[n][f[n - 1]] = IF lote[n].id \in Ids(f[n - 1]) THEN f[n - 1] ELSE Append(f[n - 1], lote[n])
        BY <4>1, <2>1, <1>3
      <4> QED BY <4>1, <2>1, <3>2, <4>2 DEF Corpo, Segue
    <3> QED BY <3>1, <3>2
  <2>3. f = [n \in 0..N |-> Corpo(f, n)]
    BY <2>1, <2>2
  <2> QED BY <2>3
<1> PICK f : f = Insercao(s, lote)
  OBVIOUS
<1>5. f = [n \in 0..N |-> Corpo(f, n)]
  BY <1>2, <1>4
<1> HIDE DEF N
<1>6. 0 \in 0..N /\ \A n \in 1..N : n \in 0..N /\ n # 0
  BY <1>1
<1>7. \A n \in 0..N : f[n] = Corpo(f, n)
  BY <1>5
<1>8. f[0] = s /\ \A n \in 1..N : f[n] = IF lote[n].id \in Ids(f[n - 1]) THEN f[n - 1] ELSE Append(f[n - 1], lote[n])
  BY <1>6, <1>7
<1> QED BY <1>8 DEF N

\* the positions of the first row of each id that the table lacks
Primeiras(s, lote) ==
  {n \in DOMAIN lote : lote[n].id \notin Ids(s) /\ \A m \in 1..(n - 1) : lote[m].id # lote[n].id}
Ausentes(s, lote) == {n \in DOMAIN lote : lote[n].id \notin Ids(s)}

Diferentes(t) == \A n, m \in DOMAIN t : t[n].id = t[m].id => n = m

\* a row of another id at the end keeps the ids different
LEMMA OutroId ==
  ASSUME NEW S, NEW s \in Seq(S), NEW x \in S, Diferentes(s), x.id \notin Ids(s)
  PROVE  Diferentes(Append(s, x))
<1>1. /\ DOMAIN Append(s, x) = 1..(Len(s) + 1) /\ DOMAIN s = 1..Len(s) /\ Len(s) \in Nat
      /\ (\A k \in 1..Len(s) : Append(s, x)[k] = s[k]) /\ Append(s, x)[Len(s) + 1] = x
  BY ComMaisUm
<1>2. \A k \in 1..(Len(s) + 1) : k \in 1..Len(s) \/ k = Len(s) + 1
  BY <1>1
<1>3. \A k \in 1..Len(s) : s[k].id # x.id
  BY <1>1 DEF Ids
<1> SUFFICES ASSUME NEW n \in DOMAIN Append(s, x), NEW m \in DOMAIN Append(s, x),
                    Append(s, x)[n].id = Append(s, x)[m].id
             PROVE  n = m
  BY DEF Diferentes
<1>4. CASE n \in 1..Len(s) /\ m \in 1..Len(s)
  BY <1>1, <1>4 DEF Diferentes
<1>5. CASE n = Len(s) + 1 /\ m \in 1..Len(s)
  BY <1>1, <1>3, <1>5
<1>6. CASE n \in 1..Len(s) /\ m = Len(s) + 1
  BY <1>1, <1>3, <1>6
<1>7. CASE n = Len(s) + 1 /\ m = Len(s) + 1
  BY <1>7
<1> QED BY <1>1, <1>2, <1>4, <1>5, <1>6, <1>7

\* row by row against a unique index is: the first row of each id that is not there
Insere(s, lote, t) ==
  /\ t = s \o Selecionadas(lote, Primeiras(s, lote))
  /\ Ids(t) = Ids(s) \cup Ids(lote)
  /\ Diferentes(s) => Diferentes(t)

\* what the INSERT with ON CONFLICT DO NOTHING leaves (postgres.go InsertSQL)
LEMMA InsertSQLEscolhe ==
  ASSUME NEW S, NEW s \in Seq(S), NEW lote \in Seq(S)
  PROVE  Insere(s, lote, InsertSQL(s, lote))
<1>a. \A Q : \A n \in 1..Len(lote) : Selecao(lote, Q)[n] =
        IF n \in Q THEN Append(Selecao(lote, Q)[n - 1], lote[n]) ELSE Selecao(lote, Q)[n - 1]
  <2> TAKE Q
  <2> QED BY SelecaoPassoAPasso
<1>b. \A v, w \in Seq(S) : (s \o v) \o w = s \o (v \o w)
  BY ConcatAssociative
<1> PICK P : P = Primeiras(s, lote)
  OBVIOUS
<1> PICK N \in Nat : N = Len(lote)
  BY LenProperties
<1> PICK f : f = Insercao(s, lote)
  OBVIOUS
<1> PICK g : g = Selecao(lote, P)
  OBVIOUS
<1>1. f[0] = s /\ \A n \in 1..N : f[n] = IF lote[n].id \in Ids(f[n - 1]) THEN f[n - 1] ELSE Append(f[n - 1], lote[n])
  BY InsercaoPassoAPasso
<1>2. /\ DOMAIN lote = 1..N /\ g[0] = <<>> /\ \A n \in 0..N : g[n] \in Seq(S)
      /\ \A n \in 1..N : g[n] = IF n \in P THEN Append(g[n - 1], lote[n]) ELSE g[n - 1]
  <2>1. DOMAIN lote = 1..N /\ g[0] = <<>> /\ \A n \in 0..N : g[n] \in Seq(S)
    BY SelecaoPassoAPasso
  <2>2. \A n \in 1..N : g[n] = IF n \in P THEN Append(g[n - 1], lote[n]) ELSE g[n - 1]
    BY <1>a
  <2> QED BY <2>1, <2>2
<1>3. \A n \in 1..N : lote[n] \in S
  BY ElementOfSeq
<1> DEFINE Trazidos(n) == {lote[m].id : m \in 1..n}
           Vale(n) == /\ f[n] = s \o g[n] /\ Ids(f[n]) = Ids(s) \cup Trazidos(n)
                      /\ Diferentes(s) => Diferentes(f[n])
           T == {n \in 0..N : Vale(n)}
<1>4. 0 \in T
  <2>1. s \o <<>> = s
    BY ConcatEmptySeq
  <2>2. Trazidos(0) = {} /\ 0 \in 0..N
    OBVIOUS
  <2> HIDE DEF Trazidos
  <2> QED BY <1>1, <1>2, <2>1, <2>2
<1>5. ASSUME NEW n \in 1..N, n - 1 \in T PROVE n \in T
  <2>1. n \in 0..N /\ n - 1 \in 0..N /\ Vale(n - 1) /\ 1..n = (1..(n - 1)) \cup {n}
    BY <1>5
  <2>2. g[n - 1] \in Seq(S) /\ lote[n] \in S /\ n \in DOMAIN lote /\ f[n - 1] \in Seq(S)
    BY <2>1, <1>2, <1>3, ConcatProperties
  <2>3. Trazidos(n) = Trazidos(n - 1) \cup {lote[n].id}
    BY <2>1
  <2>4. n \in P <=> lote[n].id \notin Ids(f[n - 1])
    <3>1. n \in P <=> lote[n].id \notin Ids(s) /\ \A m \in 1..(n - 1) : lote[m].id # lote[n].id
      BY <2>2 DEF Primeiras
    <3> QED BY <3>1, <2>1
  <2> HIDE DEF Trazidos
  <2> PICK x \in S : x = lote[n]
    BY <2>2
  <2> PICK a \in Seq(S) : a = f[n - 1]
    BY <2>2
  <2> PICK c \in Seq(S) : c = g[n - 1]
    BY <2>2
  <2>5. CASE n \in P
    <3>1. f[n] = Append(a, x) /\ g[n] = Append(c, x) /\ a = s \o c
      BY <1>1, <1>2, <2>1, <2>4, <2>5
    <3>2. Append(a, x) = s \o Append(c, x)
      <4>a. <<x>> \in Seq(S)
        OBVIOUS
      <4> PICK u \in Seq(S) : u = <<x>>
        BY <4>a
      <4>1. Append(a, x) = a \o u /\ Append(c, x) = c \o u
        BY AppendIsConcat
      <4>2. (s \o c) \o u = s \o (c \o u)
        BY <1>b
      <4> QED BY <4>1, <4>2, <3>1
    <3>3. f[n] = s \o g[n]
      BY <3>1, <3>2
    <3>4. Ids(f[n]) = Ids(s) \cup Trazidos(n)
      <4>1. Ids(Append(a, x)) = Ids(a) \cup {x.id}
        BY IdsComMaisUm
      <4> QED BY <4>1, <3>1, <2>1, <2>3
    <3>5. Diferentes(s) => Diferentes(f[n])
      <4>1. x.id \notin Ids(a) /\ (Diferentes(s) => Diferentes(a))
        BY <2>1, <2>4, <2>5
      <4>2. Diferentes(a) => Diferentes(Append(a, x))
        BY <4>1, OutroId
      <4> QED BY <4>1, <4>2, <3>1
    <3> QED BY <3>3, <3>4, <3>5, <2>1
  <2>6. CASE n \notin P
    <3>1. f[n] = f[n - 1] /\ g[n] = g[n - 1] /\ lote[n].id \in Ids(f[n - 1])
      BY <1>1, <1>2, <2>4, <2>6
    <3>2. Ids(f[n]) = Ids(s) \cup Trazidos(n)
      BY <3>1, <2>1, <2>3
    <3> QED BY <3>1, <3>2, <2>1
  <2> QED BY <2>5, <2>6
<1>6. N \in T
  <2>1. T \in SUBSET (0..N)
    OBVIOUS
  <2> HIDE DEF T
  <2>2. T = 0..N
    BY <1>4, <1>5, <2>1, AteN
  <2> QED BY <2>2
<1>7. Vale(N)
  BY <1>6
<1>8. Trazidos(N) = Ids(lote)
  BY <1>2 DEF Ids
<1> HIDE DEF Trazidos
<1> QED BY <1>7, <1>8 DEF InsertSQL, Selecionadas, Insere

\* rows selected from a batch, after those of a table
Acrescentou(S, s, lote, t) ==
  /\ t \in Seq(S) /\ {Len(s), Len(t), Len(lote)} \subseteq Nat
  /\ Len(s) <= Len(t) /\ Len(t) <= Len(s) + Len(lote)
  /\ \A k \in DOMAIN t : (\E m \in DOMAIN s : t[k] = s[m]) \/ (\E m \in DOMAIN lote : t[k] = lote[m])
IdsEm(lote, P) == {lote[m].id : m \in P \cap DOMAIN lote}
Cresce(S, s, lote, P, t) ==
  /\ Acrescentou(S, s, lote, t)
  /\ Ids(t) = Ids(s) \cup IdsEm(lote, P)
  /\ P \cap DOMAIN lote = {} => t = s

\* selected rows after those of a table: nothing lost, no row from elsewhere
LEMMA Acrescimo ==
  ASSUME NEW S, NEW s \in Seq(S), NEW lote \in Seq(S), NEW P, NEW t, t = s \o Selecionadas(lote, P)
  PROVE  Cresce(S, s, lote, P, t)
<1>a. \A n \in 0..Len(lote) : Tiradas(lote, P, n)
  BY SelecaoFiel
<1> PICK q : q = Selecionadas(lote, P)
  OBVIOUS
<1>1. Len(lote) \in Nat /\ DOMAIN lote = 1..Len(lote) /\ Len(lote) \in 0..Len(lote)
  BY LenProperties
<1>2. q \in Seq(S)
  BY <1>1, SelecaoPassoAPasso DEF Selecionadas
<1>3. /\ Len(q) <= Len(lote) /\ \A k \in DOMAIN q : \E m \in DOMAIN lote : q[k] = lote[m]
      /\ Ids(q) = {lote[m].id : m \in P \cap DOMAIN lote}
  <2>1. /\ Len(q) <= Len(lote)
        /\ \A k \in DOMAIN q : \E m \in 1..Len(lote) : m \in P /\ q[k] = lote[m]
        /\ Ids(q) = {lote[m].id : m \in P \cap (1..Len(lote))}
    <3> PICK n \in 0..Len(lote) : n = Len(lote)
      BY <1>1
    <3>1. /\ Len(Selecao(lote, P)[n]) <= n
          /\ \A k \in DOMAIN Selecao(lote, P)[n] : \E m \in 1..n : m \in P /\ Selecao(lote, P)[n][k] = lote[m]
          /\ Ids(Selecao(lote, P)[n]) = {lote[m].id : m \in P \cap (1..n)}
      BY <1>a DEF Tiradas
    <3>2. q = Selecao(lote, P)[n]
      BY DEF Selecionadas
    <3> QED BY <3>1, <3>2, Zenon
  <2> QED BY <2>1, <1>1
<1>4. /\ t \in Seq(S) /\ Len(s) \in Nat /\ Len(q) \in Nat /\ Len(t) = Len(s) + Len(q)
      /\ DOMAIN t = 1..(Len(s) + Len(q)) /\ DOMAIN s = 1..Len(s) /\ DOMAIN q = 1..Len(q)
      /\ \A k \in 1..Len(s) : t[k] = s[k]
      /\ \A k \in 1..Len(q) : t[Len(s) + k] = q[k]
  BY <1>2, UmaAposOutra
<1>5. ASSUME NEW k \in DOMAIN t
      PROVE  (\E m \in DOMAIN s : t[k] = s[m]) \/ (\E m \in DOMAIN lote : t[k] = lote[m])
  <2>1. CASE k \in DOMAIN s
    BY <2>1, <1>4
  <2>2. CASE k \notin DOMAIN s
    <3>1. k - Len(s) \in DOMAIN q /\ Len(s) + (k - Len(s)) = k
      BY <2>2, <1>4
    <3>2. t[k] = q[k - Len(s)]
      BY <3>1, <1>4
    <3> QED BY <3>1, <3>2, <1>3
  <2> QED BY <2>1, <2>2
<1>6. Ids(t) = Ids(s) \cup {lote[m].id : m \in P \cap DOMAIN lote}
  BY <1>2, <1>3, IdsDaSoma
<1>7. P \cap DOMAIN lote = {} => t = s
  <2>1. SUFFICES ASSUME P \cap DOMAIN lote = {} PROVE t = s
    OBVIOUS
  <2>2. Ids(q) = {}
    BY <2>1, <1>3
  <2>3. DOMAIN q = {}
    BY <2>2 DEF Ids
  <2>4. Len(q) = 0
    BY <2>3, <1>4
  <2>5. q = <<>>
    BY <2>4, <1>2, EmptySeq
  <2>6. s \o <<>> = s
    BY ConcatEmptySeq
  <2> QED BY <2>5, <2>6
<1>8. {Len(s), Len(t), Len(lote)} \subseteq Nat /\ Len(s) <= Len(t) /\ Len(t) <= Len(s) + Len(lote)
  BY <1>1, <1>3, <1>4
<1> QED BY <1>4, <1>5, <1>6, <1>7, <1>8 DEF Acrescentou, IdsEm, Cresce
--------------------------------------------------------------------------------
(* The inductive invariant                                                     *)

Linha == [id : Nat, campos : SUBSET STRING]
Coisa == [tipo : {"objeto", "tabela"}, de : Nat, n : Nat]
UmResultado == [linhas : Nat, ignoradas : Nat, objetos : SUBSET Coisa]
UmPedido == [de : Nat, tipo : {"anexo", "mescla", "ignora"}, lote : Seq(Linha)]

Tipado ==
  /\ TypeOK
  /\ leva \in Seq(Linha) /\ tabela \in Seq(Linha)
  /\ lr \in UmResultado /\ res \in UmResultado
  /\ palco \in SUBSET Coisa
  /\ servidor \in SUBSET UmPedido /\ IsFiniteSet(servidor)

\* what the chain has let through of the records read
Lidas == Selecao(Registros(cfg), NoCaminho(cfg))[i]
\* where the batch in hand begins
Comeco == Len(Lidas) - Len(leva)

PorEscrever == {"verificar", "lendo", "escrever"}
PorEntrar == PorEscrever \cup
  {"bloco", "copiar", "anexar", "temporaria", "encher", "submeter", "esperando"}
NaEscrita == {"escrever", "bloco", "copiar", "anexar", "temporaria", "encher", "submeter", "esperando",
              "descartar", "limpar", "devolver"}

\* between two Writes nothing of the last one is left; nothing has failed before
\* the batch is in, or refused
Repouso ==
  /\ pc \in PorEscrever => lr = SemResultado /\ b = 0
  /\ pc = "verificar" => i = 0 /\ leva = <<>> /\ res = SemResultado /\ gravadas = 0
  /\ pc \in PorEntrar \cup {"descartar"} => ~erro
  /\ pc = "fim" => b = 0 /\ ~erro
  /\ pc = "fim" <=> desfecho # "nenhum"

\* the batch in hand is the last of what has been read, and begins where a batch begins
Leitura ==
  /\ \A m \in 1..i : cfg.fonte[m].tipo # "erro"
  /\ pc # "fim" =>
       /\ Len(leva) <= Len(Lidas)
       /\ \A m \in 1..Len(leva) : leva[m] = Lidas[Comeco + m]
       /\ cfg.flush = 0 => Comeco = 0 /\ res = SemResultado
       /\ cfg.flush > 0 => Len(leva) <= cfg.flush /\
            ((\E k \in 0..Len(Lidas) : Comeco = k * cfg.flush) \/ (leva = <<>> /\ i = Len(cfg.fonte)))
  /\ pc = "lendo" /\ cfg.flush > 0 => Len(leva) < cfg.flush
  /\ pc \in NaEscrita =>
       leva # <<>> /\ (i = Len(cfg.fonte) \/ (cfg.flush > 0 /\ Len(leva) = cfg.flush))

\* how a batch may enter
ModoVale(m) ==
  /\ m = "anexo" => ~Mesclar \/ cfg.destino = "bigquery"
  /\ m = "mescla" => Mesclar /\ cfg.destino \in {"bigquery", "redshift"}
  /\ m = "ignora" => Mesclar /\ cfg.destino \in {"postgres", "mysql"} /\ cfg.indice

Caminho ==
  /\ pc \in {"bloco", "copiar", "anexar", "temporaria", "encher", "submeter", "esperando"} => ModoVale(modo)
  /\ cfg.existe \/ pc \in {"bloco", "anexar", "temporaria", "encher", "submeter", "esperando"} => existe
  /\ pc = "bloco" => cfg.destino = "mysql" /\ (Mesclar <=> modo = "ignora") /\ lr.linhas <= b
  /\ pc = "copiar" => cfg.destino = "redshift" /\ (Mesclar <=> modo = "mescla")
  /\ pc = "anexar" => cfg.destino = "bigquery" /\ modo = "anexo"
  /\ pc \in {"temporaria", "encher"} => cfg.destino = "bigquery" /\ modo = "mescla"
  /\ pc = "descartar" => cfg.destino = "redshift" /\ Mesclar

\* what is on the server was sent by this execution and is waited for, or given up
Posse ==
  /\ servidor # {} \/ tabela # <<>> => existe
  /\ \A j \in servidor :
       /\ j.lote \in Gravaveis(cfg) /\ j.lote # <<>> /\ ModoVale(j.tipo) /\ j.de <= execucao
       /\ j.de = execucao =>
            \/ pc = "esperando" /\ j = Pedido(modo)
            \/ pc \in {"limpar", "devolver"} /\ erro
            \/ pc = "fim" /\ desfecho \in {"erro", "morto"}

\* the numbers so far are those of the table
Conta ==
  ContaLinhas =>
    /\ pc \in PorEntrar \cup {"descartar"} /\ cfg.destino # "mysql" => lr.linhas = 0 \/ pc = "descartar"
    /\ pc \in PorEntrar => res.linhas = gravadas /\ res.linhas + res.ignoradas = Comeco
    /\ pc \in {"descartar", "limpar", "devolver"} /\ ~erro =>
         /\ gravadas = res.linhas + lr.linhas
         /\ lr.linhas + lr.ignoradas = Len(leva) /\ res.linhas + res.ignoradas = Comeco
    /\ pc \in {"limpar", "devolver"} /\ erro /\ cfg.destino # "mysql" =>
         lr.linhas = 0 /\ res.linhas <= gravadas
    /\ ResultadoConfere

\* what has been read is in the table, or in hand
Inteira ==
  /\ pc # "fim" => Ids(Lidas) \subseteq Ids(tabela) \cup Ids(leva)
  /\ pc \in {"descartar", "limpar", "devolver"} /\ ~erro => Ids(leva) \subseteq Ids(tabela)
  /\ CargaInteira /\ NadaSumiu

\* an execution that has loaded everything leaves nothing for the next to bring
Completa ==
  completou =>
    /\ Ids(Passam(cfg)) \subseteq Ids(tabela)
    /\ existe \/ Passam(cfg) = <<>>
    /\ Mesclar =>
         /\ \A j \in servidor : j.de = execucao => j.tipo # "anexo"
         /\ pc \in {"anexar", "submeter", "esperando"} => modo # "anexo"

SemDobra == cfg.destino \in {"postgres", "mysql"} /\ Mesclar => Diferentes(tabela)

\* what this execution has staged is reported, or is in the hands of the Write
Sobra ==
  /\ \A o \in palco : o.de <= execucao
  /\ res.objetos \subseteq palco
  /\ \A o \in res.objetos :
       o.de = execucao /\ o.tipo = "objeto" /\ cfg.manter /\ (pc # "fim" => o.n <= i - Len(leva))
  /\ lr.objetos \subseteq palco \cap {Objeto}
  /\ lr.objetos # {} => cfg.manter /\ (cfg.destino = "redshift" \/ (pc \notin PorEntrar /\ ~erro))
  /\ ~sobrou /\ desfecho # "morto" =>
       \A o \in palco : o.de = execucao =>
         \/ o \in res.objetos \cup lr.objetos
         \/ pc \in NaEscrita \ {"escrever", "devolver"} /\ o \in {Objeto, Temporaria}
  /\ /\ pc \in NaEscrita /\ ~sobrou /\ cfg.manter /\ Objeto \in palco
     /\ cfg.destino = "redshift" \/ (pc \notin PorEntrar /\ ~erro)
     => Objeto \in lr.objetos
  /\ pc = "fim" => lr.objetos = {}

IInv ==
  Tipado /\ Repouso /\ Leitura /\ Caminho /\ Posse /\ Conta /\ Inteira /\ Completa /\ SemDobra /\ Sobra
--------------------------------------------------------------------------------
(* The pipeline, what is read and what is written                              *)

\* what is known of a pipeline, one option at a time
LEMMA DoPedido ==
  ASSUME cfg \in Pedidos
  PROVE  /\ cfg.destino \in {"files", "postgres", "mysql", "redshift", "bigquery"}
         /\ cfg.dedup \in {"none", "merge"} /\ cfg.criar \in {"nao", "schema", "sql"}
         /\ cfg.flush \in Nat /\ cfg.limite \in Nat /\ cfg.bloco \in Nat \ {0}
         /\ {cfg.existe, cfg.indice, cfg.manter, cfg.ensaio} \subseteq BOOLEAN
         /\ cfg.cluster \in SUBSET STRING /\ cfg.daTabela \in SUBSET STRING /\ cfg.colunas \in SUBSET STRING
         /\ cfg.destino = "files" => cfg.existe
         /\ cfg.indice => cfg.destino \in {"postgres", "mysql"}
BY PedidosValidos

\* the stream of a pipeline, and its records as rows
LEMMA DaFonte ==
  ASSUME cfg \in Pedidos
  PROVE  /\ Len(cfg.fonte) \in Nat /\ DOMAIN cfg.fonte = 1..Len(cfg.fonte)
         /\ \A n \in 1..Len(cfg.fonte) :
              /\ cfg.fonte[n].tipo \in {"linha", "salta", "erro"}
              /\ cfg.fonte[n].id \in Nat /\ cfg.fonte[n].campos \in SUBSET STRING
              /\ Registros(cfg)[n] \in Linha
              /\ Registros(cfg)[n] = [id |-> cfg.fonte[n].id, campos |-> cfg.fonte[n].campos]
         /\ Registros(cfg) \in Seq(Linha) /\ Len(Registros(cfg)) = Len(cfg.fonte)
         /\ DOMAIN Registros(cfg) = 1..Len(cfg.fonte)
<1> PICK R : R = [tipo : {"linha", "salta", "erro"}, id : Nat, campos : SUBSET STRING]
  OBVIOUS
<1>1. cfg.fonte \in Seq(R)
  BY PedidosValidos
<1>2. Len(cfg.fonte) \in Nat /\ DOMAIN cfg.fonte = 1..Len(cfg.fonte) /\ \A n \in 1..Len(cfg.fonte) : cfg.fonte[n] \in R
  BY <1>1, LenProperties, ElementOfSeq
<1>3. \A n \in 1..Len(cfg.fonte) :
        /\ cfg.fonte[n].tipo \in {"linha", "salta", "erro"}
        /\ cfg.fonte[n].id \in Nat /\ cfg.fonte[n].campos \in SUBSET STRING
  BY <1>2
<1> PICK N \in Nat : N = Len(cfg.fonte)
  BY <1>2
<1>4. Registros(cfg) = [n \in 1..N |-> [id |-> cfg.fonte[n].id, campos |-> cfg.fonte[n].campos]]
  BY <1>2 DEF Registros
<1>5. \A n \in 1..N : Registros(cfg)[n] = [id |-> cfg.fonte[n].id, campos |-> cfg.fonte[n].campos]
  BY <1>4
<1>6. ASSUME NEW n \in 1..N PROVE Registros(cfg)[n] \in Linha
  <2> PICK x \in Nat : x = cfg.fonte[n].id
    BY <1>3
  <2> PICK y \in SUBSET STRING : y = cfg.fonte[n].campos
    BY <1>3
  <2>1. Registros(cfg)[n] = [id |-> x, campos |-> y]
    BY <1>5
  <2> QED BY <2>1 DEF Linha
<1>7. Registros(cfg) \in [1..N -> Linha]
  BY <1>4, <1>6
<1>8. Registros(cfg) \in Seq(Linha) /\ Len(Registros(cfg)) = N /\ DOMAIN Registros(cfg) = 1..N
  <2>1. Registros(cfg) \in Seq(Linha)
    BY <1>7, SeqDef
  <2>2. DOMAIN Registros(cfg) = 1..Len(Registros(cfg)) /\ Len(Registros(cfg)) \in Nat
    BY <2>1, LenProperties
  <2>3. DOMAIN Registros(cfg) = 1..N
    BY <1>4
  <2> QED BY <2>1, <2>2, <2>3
<1> QED BY <1>2, <1>3, <1>5, <1>6, <1>8

\* what has been read and let through is the beginning of what there is to let through
LEMMA DasLidas ==
  ASSUME cfg \in Pedidos, i \in 0..Len(cfg.fonte)
  PROVE  /\ Lidas \in Seq(Linha) /\ Passam(cfg) \in Seq(Linha)
         /\ Len(Lidas) \in Nat /\ Len(Passam(cfg)) \in Nat /\ Len(Lidas) <= i /\ Len(Lidas) <= Len(Passam(cfg))
         /\ \A k \in 1..Len(Lidas) : Passam(cfg)[k] = Lidas[k]
         /\ i = Len(cfg.fonte) => Lidas = Passam(cfg)
         /\ i = 0 => Lidas = <<>>
         /\ DOMAIN Passam(cfg) = 1..Len(Passam(cfg))
         /\ \A k \in 1..Len(Passam(cfg)) :
              \E m \in 1..Len(cfg.fonte) : Passam(cfg)[k] = Registros(cfg)[m]
<1> PICK R \in Seq(Linha) : R = Registros(cfg)
  BY DaFonte
<1> PICK P : P = NoCaminho(cfg)
  OBVIOUS
<1>1. Len(R) = Len(cfg.fonte) /\ Len(R) \in Nat /\ i \in 0..Len(R) /\ Len(R) \in 0..Len(R)
  BY DaFonte
<1>2. \A n \in 0..Len(R) : Selecao(R, P)[n] \in Seq(Linha) /\ Tiradas(R, P, n)
  BY SelecaoPassoAPasso, SelecaoFiel
<1>3. Selecao(R, P)[0] = <<>>
  BY SelecaoPassoAPasso
<1>4. /\ Len(Selecao(R, P)[i]) <= Len(Selecionadas(R, P))
      /\ \A k \in 1..Len(Selecao(R, P)[i]) : Selecionadas(R, P)[k] = Selecao(R, P)[i][k]
  BY <1>1, SelecaoPrefixo
<1>5. Lidas = Selecao(R, P)[i] /\ Passam(cfg) = Selecionadas(R, P) /\ Selecionadas(R, P) = Selecao(R, P)[Len(R)]
  BY DEF Lidas, Passam, Selecionadas
<1>6. Lidas \in Seq(Linha) /\ Passam(cfg) \in Seq(Linha)
  BY <1>1, <1>2, <1>5
<1>7. Len(Lidas) \in Nat /\ Len(Passam(cfg)) \in Nat /\ DOMAIN Passam(cfg) = 1..Len(Passam(cfg))
  BY <1>6, LenProperties
<1>8. Len(Lidas) <= i
  BY <1>1, <1>2, <1>5 DEF Tiradas
<1>9. \A k \in DOMAIN Passam(cfg) : \E m \in 1..Len(R) : Passam(cfg)[k] = R[m]
  BY <1>1, <1>2, <1>5 DEF Tiradas
<1>10. Len(Lidas) <= Len(Passam(cfg)) /\ \A k \in 1..Len(Lidas) : Passam(cfg)[k] = Lidas[k]
  BY <1>4, <1>5
<1>11. (i = Len(cfg.fonte) => Lidas = Passam(cfg)) /\ (i = 0 => Lidas = <<>>)
  BY <1>1, <1>3, <1>5
<1>12. \A k \in 1..Len(Passam(cfg)) : \E m \in 1..Len(cfg.fonte) : Passam(cfg)[k] = Registros(cfg)[m]
  BY <1>1, <1>7, <1>9
<1> QED BY <1>6, <1>7, <1>8, <1>10, <1>11, <1>12

\* a record read goes through the chain
LEMMA LidasCrescem ==
  ASSUME cfg \in Pedidos, i \in 0..Len(cfg.fonte), i < Len(cfg.fonte), cfg' = cfg, i' = i + 1,
         \A m \in 1..(i + 1) : cfg.fonte[m].tipo # "erro"
  PROVE  Lidas' = Lidas \o Cadeia(cfg.fonte[i + 1])
<1> PICK R \in Seq(Linha) : R = Registros(cfg)
  BY DaFonte
<1> PICK P : P = NoCaminho(cfg)
  OBVIOUS
<1>1. /\ Len(R) = Len(cfg.fonte) /\ i + 1 \in 1..Len(R) /\ (i + 1) - 1 = i /\ DOMAIN cfg.fonte = 1..Len(R)
      /\ cfg.fonte[i + 1].tipo \in {"linha", "salta", "erro"} /\ R[i + 1] \in Linha
      /\ R[i + 1] = [id |-> cfg.fonte[i + 1].id, campos |-> cfg.fonte[i + 1].campos]
  <2>1. Len(R) = Len(cfg.fonte) /\ i + 1 \in 1..Len(R) /\ (i + 1) - 1 = i /\ DOMAIN cfg.fonte = 1..Len(R)
    BY DaFonte
  <2> QED BY <2>1, DaFonte
<1>2. \A n \in 1..Len(R) : Selecao(R, P)[n] =
        IF n \in P THEN Append(Selecao(R, P)[n - 1], R[n]) ELSE Selecao(R, P)[n - 1]
  BY SelecaoPassoAPasso
<1>3. Selecao(R, P)[i + 1] = IF i + 1 \in P THEN Append(Selecao(R, P)[i], R[i + 1]) ELSE Selecao(R, P)[i]
  BY <1>1, <1>2
<1>4. Lidas = Selecao(R, P)[i] /\ Lidas' = Selecao(R, P)[i + 1]
  BY DEF Lidas
<1>5. i + 1 \in P <=> cfg.fonte[i + 1].tipo = "linha"
  BY <1>1 DEF NoCaminho
<1>6. Lidas \in Seq(Linha)
  BY DasLidas
<1>7. Append(Lidas, R[i + 1]) = Lidas \o <<R[i + 1]>>
  BY <1>1, <1>6, AppendIsConcat
<1>8. Lidas \o <<>> = Lidas
  BY <1>6, ConcatEmptySeq
<1>9. Cadeia(cfg.fonte[i + 1]) = IF i + 1 \in P THEN <<R[i + 1]>> ELSE <<>>
  BY <1>1, <1>5 DEF Cadeia
<1> QED BY <1>3, <1>4, <1>7, <1>8, <1>9

\* one batch more
LEMMA Vezes == \A a, l \in Int : (a + 1) * l = a * l + l
OBVIOUS

\* a stretch of a sequence
LEMMA DoTrecho ==
  ASSUME NEW S, NEW s \in Seq(S), NEW a \in Nat, NEW z \in Nat, z <= Len(s)
  PROVE  /\ SubSeq(s, a + 1, z) \in Seq(S) /\ Len(SubSeq(s, a + 1, z)) = IF a < z THEN z - a ELSE 0
         /\ \A n \in 1..(z - a) : SubSeq(s, a + 1, z)[n] = s[a + n] /\ a + n \in DOMAIN s
<1>1. Len(s) \in Nat /\ DOMAIN s = 1..Len(s) /\ \A n \in 1..Len(s) : s[n] \in S
  BY LenProperties, ElementOfSeq
<1> PICK c \in Int : c = a + 1
  OBVIOUS
<1>2. z \in Int /\ \A n \in c..z : s[n] \in S
  BY <1>1
<1>3. /\ SubSeq(s, c, z) \in Seq(S) /\ Len(SubSeq(s, c, z)) = (IF c <= z THEN z - c + 1 ELSE 0)
      /\ \A n \in 1..(z - c + 1) : SubSeq(s, c, z)[n] = s[c + n - 1]
  BY <1>2, SubSeqProperties
<1>4. ASSUME NEW n \in 1..(z - a) PROVE SubSeq(s, c, z)[n] = s[a + n] /\ a + n \in DOMAIN s
  <2>1. n \in 1..(z - c + 1) /\ c + n - 1 = a + n /\ a + n \in 1..Len(s)
    BY <1>1
  <2> QED BY <2>1, <1>1, <1>3
<1>5. Len(SubSeq(s, c, z)) = IF a < z THEN z - a ELSE 0
  BY <1>3
<1> QED BY <1>3, <1>4, <1>5

\* a sequence with the rows of a stretch of another is that stretch
LEMMA EhTrecho ==
  ASSUME NEW S, NEW s \in Seq(S), NEW l \in Seq(S), NEW a \in Nat, NEW z \in Nat, z <= Len(s), a <= z,
         Len(l) = z - a, \A m \in 1..(z - a) : l[m] = s[a + m]
  PROVE  l = SubSeq(s, a + 1, z)
<1> PICK t : t = SubSeq(s, a + 1, z)
  OBVIOUS
<1>1. t \in Seq(S) /\ Len(t) = z - a /\ \A n \in 1..(z - a) : t[n] = s[a + n]
  BY DoTrecho
<1>2. \A n \in 1..Len(l) : l[n] = t[n]
  BY <1>1
<1> QED BY <1>1, <1>2, SeqEqual

\* the rows of a batch that may be written are rows that pass
LEMMA DasLevas ==
  ASSUME cfg \in Pedidos, i \in 0..Len(cfg.fonte), NEW l \in LevasDe(cfg)
  PROVE  /\ l \in Seq(Linha) /\ Len(l) \in Nat /\ DOMAIN l = 1..Len(l)
         /\ \A k \in DOMAIN l : \E m \in DOMAIN Passam(cfg) : l[k] = Passam(cfg)[m]
<1> PICK s \in Seq(Linha) : s = Passam(cfg)
  BY DasLidas
<1>1. Len(s) \in Nat /\ DOMAIN s = 1..Len(s) /\ \A n \in 1..Len(s) : s[n] \in Linha
  BY LenProperties, ElementOfSeq
<1>2. CASE cfg.flush = 0
  <2>1. l = s
    BY <1>2 DEF LevasDe
  <2> QED BY <2>1, <1>1
<1>3. CASE cfg.flush # 0
  <2> PICK f \in Nat : f = cfg.flush
    BY DoPedido
  <2>1. PICK k \in 0..Len(s) :
          /\ k * f < Len(s)
          /\ l = SubSeq(s, k * f + 1, IF (k + 1) * f < Len(s) THEN (k + 1) * f ELSE Len(s))
    BY <1>3 DEF LevasDe
  <2>2. k * f \in Nat /\ (k + 1) * f \in Nat
    OBVIOUS
  <2>a. PICK a \in Nat : a = k * f
    BY <2>2
  <2>b. PICK c \in Nat : c = (k + 1) * f
    BY <2>2
  <2>c. PICK z \in Nat : z = IF c < Len(s) THEN c ELSE Len(s)
    BY <1>1
  <2>3. l = SubSeq(s, a + 1, z)
    BY <2>1, <2>a, <2>b, <2>c, Zenon
  <2>d. c \in Nat /\ a \in Nat
    BY <2>a, <2>b
  <2>e. PICK w \in Nat : w = Len(s)
    BY <1>1
  <2>4. z <= Len(s)
    <3>1. w \in Nat /\ z \in Nat /\ z = IF c < w THEN c ELSE w
      BY <2>c, <2>e
    <3>2. z <= w
      BY <3>1, <2>d
    <3> QED BY <3>2, <2>e
  <2>5. /\ l \in Seq(Linha) /\ Len(l) = (IF a < z THEN z - a ELSE 0)
        /\ \A n \in 1..(z - a) : l[n] = s[a + n] /\ a + n \in DOMAIN s
    <3>1. /\ SubSeq(s, a + 1, z) \in Seq(Linha) /\ Len(SubSeq(s, a + 1, z)) = (IF a < z THEN z - a ELSE 0)
          /\ \A n \in 1..(z - a) : SubSeq(s, a + 1, z)[n] = s[a + n] /\ a + n \in DOMAIN s
      BY <2>4, DoTrecho
    <3> QED BY <2>3, <3>1, Zenon
  <2>6. Len(l) \in Nat /\ DOMAIN l = 1..Len(l)
    BY <2>5, LenProperties
  <2>7. \A n \in 1..Len(l) : n \in 1..(z - a)
    BY <2>5
  <2> QED BY <2>5, <2>6, <2>7
<1> QED BY <1>2, <1>3

\* the file for Redshift has the rows of the batch, with fewer fields
LEMMA DoArquivo ==
  ASSUME NEW l \in Seq(Linha), NEW c \in SUBSET STRING
  PROVE  /\ EncodeNDJSON(l, c) \in Seq(Linha) /\ Len(EncodeNDJSON(l, c)) = Len(l) /\ Len(l) \in Nat
         /\ DOMAIN EncodeNDJSON(l, c) = DOMAIN l /\ Ids(EncodeNDJSON(l, c)) = Ids(l)
<1> PICK e : e = EncodeNDJSON(l, c)
  OBVIOUS
<1>1. Len(l) \in Nat /\ DOMAIN l = 1..Len(l) /\ \A n \in 1..Len(l) : l[n] \in Linha
  BY LenProperties, ElementOfSeq
<1>2. DOMAIN e = DOMAIN l /\ \A n \in DOMAIN l : e[n] = [l[n] EXCEPT !.campos = IF c = {} THEN @ ELSE @ \cap c]
  BY DEF EncodeNDJSON
<1>3. ASSUME NEW n \in DOMAIN l PROVE e[n] \in Linha /\ e[n].id = l[n].id
  BY <1>1, <1>2 DEF Linha
<1>4. e = [n \in 1..Len(l) |-> [l[n] EXCEPT !.campos = IF c = {} THEN @ ELSE @ \cap c]]
  BY <1>1 DEF EncodeNDJSON
<1>5. e \in [1..Len(l) -> Linha]
  BY <1>1, <1>2, <1>3, <1>4
<1>6. e \in Seq(Linha)
  BY <1>1, <1>5, SeqDef
<1>7. Len(e) = Len(l)
  BY <1>1, <1>2, <1>6, LenProperties
<1>8. Ids(e) = Ids(l)
  BY <1>2, <1>3 DEF Ids
<1> QED BY <1>1, <1>2, <1>6, <1>7, <1>8

\* a row that comes from a record of the source, whole
Inteiro(l) == \E m \in DOMAIN cfg.fonte : cfg.fonte[m].id = l.id /\ cfg.fonte[m].campos = l.campos

\* what may be written: rows that pass, whole but for Redshift
LEMMA DosGravaveis ==
  ASSUME cfg \in Pedidos, i \in 0..Len(cfg.fonte), NEW l \in Gravaveis(cfg)
  PROVE  /\ l \in Seq(Linha) /\ Len(l) \in Nat /\ Ids(l) \subseteq Ids(Passam(cfg))
         /\ cfg.destino # "redshift" => \A k \in DOMAIN l : Inteiro(l[k])
<1>1. PICK o \in LevasDe(cfg) : l = IF cfg.destino = "redshift" THEN EncodeNDJSON(o, cfg.colunas) ELSE o
  BY DEF Gravaveis
<1>2. /\ o \in Seq(Linha) /\ Len(o) \in Nat /\ DOMAIN o = 1..Len(o)
      /\ \A k \in DOMAIN o : \E m \in DOMAIN Passam(cfg) : o[k] = Passam(cfg)[m]
  BY DasLevas
<1>3. Ids(o) \subseteq Ids(Passam(cfg))
  BY <1>2 DEF Ids
<1>4. ASSUME NEW k \in DOMAIN o PROVE Inteiro(o[k])
  <2>1. PICK m \in DOMAIN Passam(cfg) : o[k] = Passam(cfg)[m]
    BY <1>2
  <2>2. m \in 1..Len(Passam(cfg))
    BY <2>1, DasLidas
  <2>3. PICK r \in 1..Len(cfg.fonte) : o[k] = Registros(cfg)[r]
    BY <2>1, <2>2, DasLidas
  <2>4. r \in DOMAIN cfg.fonte /\ o[k] = [id |-> cfg.fonte[r].id, campos |-> cfg.fonte[r].campos]
    BY <2>3, DaFonte
  <2> QED BY <2>4 DEF Inteiro
<1>5. CASE cfg.destino = "redshift"
  <2>1. cfg.colunas \in SUBSET STRING
    BY DoPedido
  <2> QED BY <1>1, <1>2, <1>3, <1>5, <2>1, DoArquivo
<1>6. CASE cfg.destino # "redshift"
  BY <1>1, <1>2, <1>3, <1>4, <1>6
<1> QED BY <1>5, <1>6

\* the batch in hand, when a Write begins, is one of those the reading makes
LEMMA LevaCerta ==
  ASSUME Tipado, Leitura, pc \in NaEscrita
  PROVE  leva \in LevasDe(cfg)
<1>1. cfg \in Pedidos /\ i \in 0..Len(cfg.fonte) /\ leva \in Seq(Linha)
  BY DEF Tipado, TypeOK
<1> PICK s \in Seq(Linha) : s = Passam(cfg)
  BY <1>1, DasLidas
<1> PICK f \in Nat : f = cfg.flush
  BY <1>1, DoPedido
<1> PICK x \in Nat : x = Len(leva)
  BY <1>1, LenProperties
<1> PICK y \in Nat : y = Len(Lidas)
  BY <1>1, DasLidas
<1>2. /\ pc # "fim" /\ leva # <<>>
      /\ x <= y /\ \A m \in 1..x : leva[m] = Lidas[(y - x) + m]
      /\ f = 0 => y - x = 0
      /\ (f > 0 => x <= f) /\ (i = Len(cfg.fonte) \/ (f > 0 /\ x = f))
  BY DEF Leitura, NaEscrita, Comeco
<1>a. f > 0 => \E k \in 0..y : y - x = k * f
  BY DEF Leitura, NaEscrita, Comeco
<1>3. /\ y <= Len(s) /\ (\A k \in 1..y : s[k] = Lidas[k]) /\ (i = Len(cfg.fonte) => Lidas = s)
      /\ Len(s) \in Nat /\ DOMAIN s = 1..Len(s) /\ \A n \in 1..Len(s) : s[n] \in Linha
  <2>1. Len(s) \in Nat /\ DOMAIN s = 1..Len(s) /\ \A n \in 1..Len(s) : s[n] \in Linha
    BY LenProperties, ElementOfSeq
  <2>2. y <= Len(s) /\ (\A k \in 1..y : s[k] = Lidas[k]) /\ (i = Len(cfg.fonte) => Lidas = s)
    BY <1>1, DasLidas
  <2> QED BY <2>1, <2>2
<1>4. x # 0
  BY <1>1, <1>2, EmptySeq
<1>5. \A m \in 1..x : leva[m] = s[(y - x) + m]
  <2>1. \A m \in 1..x : (y - x) + m \in 1..y
    BY <1>2
  <2> QED BY <2>1, <1>2, <1>3
<1>6. CASE f = 0
  <2>1. i = Len(cfg.fonte) /\ y = x /\ y = Len(s)
    <3>1. i = Len(cfg.fonte)
      BY <1>2, <1>6
    <3>2. Lidas = s
      BY <3>1, <1>3
    <3>3. y = x
      BY <1>2, <1>6
    <3> QED BY <3>1, <3>2, <3>3
  <2>2. \A m \in 1..x : leva[m] = s[m]
    BY <1>5, <2>1
  <2>3. leva = s
    BY <1>1, <2>1, <2>2, SeqEqual
  <2> QED BY <2>3, <1>6 DEF LevasDe
<1>7. CASE f > 0
  <2>1. PICK k \in 0..y : y - x = k * f
    BY <1>a, <1>7
  <2>2. k * f \in Nat /\ (k + 1) * f = k * f + f
    <3>1. k \in Int /\ f \in Int
      OBVIOUS
    <3>2. (k + 1) * f = k * f + f
      BY <3>1, Vezes, Zenon
    <3>3. y - x \in Nat
      BY <1>2
    <3> QED BY <2>1, <3>2, <3>3, Zenon
  <2>3. PICK a \in Nat : a = k * f /\ a = y - x /\ (k + 1) * f = a + f
    BY <2>1, <2>2
  <2>4. /\ y = IF a + f < Len(s) THEN a + f ELSE Len(s)
        /\ k \in 0..Len(s) /\ a < Len(s) /\ a <= y /\ y <= Len(s) /\ x = y - a
    <3>1. a = y - x /\ x <= f /\ x > 0 /\ y <= Len(s) /\ Len(s) \in Nat /\ x <= y
          /\ (i = Len(cfg.fonte) => y = Len(s)) /\ (i = Len(cfg.fonte) \/ x = f)
      <4>1. i = Len(cfg.fonte) => y = Len(s)
        BY <1>3
      <4>a. a = y - x
        BY <2>3, Zenon
      <4>b. x <= f
        BY <1>2, <1>7, Zenon
      <4>c. x > 0
        BY <1>4
      <4>d. x <= y
        BY <1>2, Zenon
      <4>2. a = y - x /\ x <= f /\ x > 0 /\ x <= y
        BY <4>a, <4>b, <4>c, <4>d, Zenon
      <4>3. i = Len(cfg.fonte) \/ x = f
        BY <1>2
      <4>4. y <= Len(s) /\ Len(s) \in Nat
        BY <1>3
      <4> QED BY <4>1, <4>2, <4>3, <4>4, Zenon
    <3>2. k \in 0..Len(s)
      <4>1. y \in 0..Len(s)
        BY <3>1
      <4> QED BY <4>1
    <3>3. a < Len(s) /\ a <= y /\ x = y - a
      BY <3>1
    <3>4. y = IF a + f < Len(s) THEN a + f ELSE Len(s)
      BY <3>1
    <3> QED BY <3>1, <3>2, <3>3, <3>4, Zenon
  <2>5. leva = SubSeq(s, a + 1, y)
    <3>1. Len(leva) = y - a /\ \A m \in 1..(y - a) : leva[m] = s[a + m]
      <4>1. y - a = x /\ (y - x) = a
        BY <2>3, <2>4
      <4> QED BY <4>1, <1>5, Zenon
    <3>2. a \in Nat /\ y \in Nat /\ y <= Len(s) /\ a <= y
      BY <2>4
    <3> QED BY <3>1, <3>2, <1>1, EhTrecho
  <2>6. leva \in {SubSeq(s, m * f + 1, IF (m + 1) * f < Len(s) THEN (m + 1) * f ELSE Len(s)) :
                    m \in {n \in 0..Len(s) : n * f < Len(s)}}
    BY <2>3, <2>4, <2>5, Zenon
  <2>7. cfg.flush # 0
    BY <1>7
  <2>8. LevasDe(cfg) = {SubSeq(s, m * f + 1, IF (m + 1) * f < Len(s) THEN (m + 1) * f ELSE Len(s)) :
                          m \in {n \in 0..Len(s) : n * f < Len(s)}}
    BY <2>7, Zenon DEF LevasDe
  <2> QED BY <2>6, <2>8, Zenon
<1> QED BY <1>6, <1>7

\* what is sent is the batch in hand, as the destination takes it
LEMMA DoLote ==
  ASSUME Tipado, Leitura, pc \in NaEscrita
  PROVE  /\ LoteAGravar \in Gravaveis(cfg) /\ LoteAGravar \in Seq(Linha) /\ LoteAGravar # <<>>
         /\ Len(LoteAGravar) = Len(leva) /\ Len(leva) \in Nat \ {0} /\ Ids(LoteAGravar) = Ids(leva)
<1>1. cfg \in Pedidos /\ leva \in Seq(Linha) /\ leva # <<>> /\ leva \in LevasDe(cfg) /\ cfg.colunas \in SUBSET STRING
  BY LevaCerta, DoPedido DEF Tipado, TypeOK, Leitura
<1>2. Len(leva) \in Nat \ {0}
  BY <1>1, EmptySeq
<1>3. LoteAGravar = IF cfg.destino = "redshift" THEN EncodeNDJSON(leva, cfg.colunas) ELSE leva
  BY DEF LoteAGravar
<1>4. LoteAGravar \in Gravaveis(cfg)
  BY <1>1, <1>3 DEF Gravaveis
<1>5. /\ EncodeNDJSON(leva, cfg.colunas) \in Seq(Linha) /\ Len(EncodeNDJSON(leva, cfg.colunas)) = Len(leva)
      /\ Ids(EncodeNDJSON(leva, cfg.colunas)) = Ids(leva)
  BY <1>1, DoArquivo
<1>6. LoteAGravar \in Seq(Linha) /\ Len(LoteAGravar) = Len(leva) /\ Ids(LoteAGravar) = Ids(leva)
  BY <1>1, <1>3, <1>5
<1>7. LoteAGravar # <<>>
  BY <1>2, <1>6
<1> QED BY <1>2, <1>4, <1>6, <1>7

\* the rows selected from a batch enter: they bring what the table lacks
Escolhe(s, l, P) ==
  /\ IdsEm(l, P) \cup Ids(s) = Ids(s) \cup Ids(l)
  /\ Ids(l) \subseteq Ids(s) => P \cap DOMAIN l = {}
Entra(s, l, t) ==
  /\ Acrescentou(Linha, s, l, t) /\ Ids(t) = Ids(s) \cup Ids(l)
  /\ Ids(l) \subseteq Ids(s) => t = s

\* a MERGE enters a batch: what is selected is what was not there (merge_sql.go)
LEMMA EntraEscolhida ==
  ASSUME NEW s \in Seq(Linha), NEW l \in Seq(Linha), NEW P, Escolhe(s, l, P), NEW t, t = s \o Selecionadas(l, P)
  PROVE  Entra(s, l, t)
<1>1. Cresce(Linha, s, l, P, t)
  BY Acrescimo
<1> QED BY <1>1 DEF Entra, Escolhe, Cresce

\* an INSERT against a unique index enters a batch
LEMMA EntraInserida ==
  ASSUME NEW s \in Seq(Linha), NEW l \in Seq(Linha), NEW t, Insere(s, l, t)
  PROVE  Entra(s, l, t)
<1> PICK P : P = Primeiras(s, l)
  OBVIOUS
<1>1. t = s \o Selecionadas(l, P) /\ Ids(t) = Ids(s) \cup Ids(l)
  BY DEF Insere
<1>2. Cresce(Linha, s, l, P, t)
  BY <1>1, Acrescimo
<1>3. Ids(l) \subseteq Ids(s) => P \cap DOMAIN l = {}
  BY DEF Primeiras, Ids
<1> QED BY <1>1, <1>2, <1>3 DEF Entra, Cresce

\* a batch enters: the table keeps its rows and has every id of the batch
LEMMA DoEfeito ==
  ASSUME Tipado, NEW j \in servidor, ModoVale(j.tipo), NEW t, t = Efeito(j)
  PROVE  /\ Acrescentou(Linha, tabela, j.lote, t)
         /\ Ids(t) = Ids(tabela) \cup Ids(j.lote)
         /\ j.tipo = "anexo" => Len(t) = Len(tabela) + Len(j.lote) /\ t = tabela \o j.lote
         /\ j.tipo = "mescla" => t = tabela \o Selecionadas(j.lote, Ausentes(tabela, j.lote))
         /\ j.tipo = "ignora" => t = tabela \o Selecionadas(j.lote, Primeiras(tabela, j.lote))
         /\ j.tipo # "anexo" /\ Ids(j.lote) \subseteq Ids(tabela) => t = tabela
         /\ j.tipo = "ignora" /\ Diferentes(tabela) => Diferentes(t)
<1> PICK s \in Seq(Linha) : s = tabela
  BY DEF Tipado
<1> PICK l \in Seq(Linha) : l = j.lote
  BY DEF Tipado, UmPedido
<1>1. j.tipo \in {"anexo", "mescla", "ignora"}
  BY DEF Tipado, UmPedido
<1>2. DOMAIN l = 1..Len(l) /\ Len(l) \in Nat /\ Len(s) \in Nat
  BY LenProperties
<1>3. CASE j.tipo = "anexo"
  <2>1. t = s \o l
    BY <1>3 DEF Efeito
  <2>2. /\ t \in Seq(Linha) /\ Len(t) = Len(s) + Len(l)
        /\ DOMAIN t = 1..(Len(s) + Len(l)) /\ DOMAIN s = 1..Len(s)
        /\ \A k \in 1..Len(s) : t[k] = s[k]
        /\ \A k \in 1..Len(l) : t[Len(s) + k] = l[k]
    BY <2>1, UmaAposOutra
  <2>3. ASSUME NEW k \in DOMAIN t PROVE (\E m \in DOMAIN s : t[k] = s[m]) \/ (\E m \in DOMAIN l : t[k] = l[m])
    <3>1. CASE k \in DOMAIN s
      BY <3>1, <2>2
    <3>2. CASE k \notin DOMAIN s
      <4>1. k - Len(s) \in DOMAIN l /\ Len(s) + (k - Len(s)) = k
        BY <3>2, <2>2, <1>2
      <4> QED BY <4>1, <2>2, <1>2
    <3> QED BY <3>1, <3>2
  <2>4. Ids(t) = Ids(s) \cup Ids(l)
    BY <2>1, IdsDaSoma
  <2>5. {Len(t), Len(s), Len(l)} \subseteq Nat /\ Len(s) <= Len(t) /\ Len(t) <= Len(s) + Len(l)
    BY <2>2, <1>2
  <2> QED BY <1>3, <2>1, <2>2, <2>3, <2>4, <2>5 DEF Acrescentou
<1>5. CASE j.tipo = "mescla"
  <2>1. t = s \o Selecionadas(l, Ausentes(s, l))
    BY <1>5 DEF Efeito, MergeSQL, Ausentes
  <2>2. Escolhe(s, l, Ausentes(s, l))
    BY DEF Ausentes, Ids, IdsEm, Escolhe
  <2>3. Entra(s, l, t)
    BY <2>1, <2>2, EntraEscolhida
  <2> QED BY <1>5, <2>1, <2>3 DEF Entra
<1>6. CASE j.tipo = "ignora"
  <2>1. t = InsertSQL(s, l)
    BY <1>6 DEF Efeito, ModoVale
  <2>2. Insere(s, l, t)
    BY <2>1, InsertSQLEscolhe
  <2>3. Entra(s, l, t)
    BY <2>2, EntraInserida
  <2> QED BY <1>6, <2>2, <2>3 DEF Entra, Insere
<1> QED BY <1>1, <1>3, <1>5, <1>6

\* a block of the batch in hand, before it is committed
LEMMA DoBloco ==
  ASSUME Tipado, pc \in NaEscrita, NEW ate \in 0..Len(leva)
  PROVE  LET n == Len(InsertSQL(tabela, SubSeq(leva, 1, ate))) - Len(tabela)
         IN  n \in Nat /\ n <= ate
<1> PICK s \in Seq(Linha) : s = tabela
  BY DEF Tipado
<1>1. leva \in Seq(Linha) /\ Len(leva) \in Nat /\ ate <= Len(leva)
  BY LenProperties DEF Tipado
<1> PICK l : l = SubSeq(leva, 1, ate)
  OBVIOUS
<1>2. l \in Seq(Linha) /\ Len(l) = ate
  <2>1. /\ SubSeq(leva, 0 + 1, ate) \in Seq(Linha)
        /\ Len(SubSeq(leva, 0 + 1, ate)) = IF 0 < ate THEN ate - 0 ELSE 0
    BY <1>1, DoTrecho
  <2>2. 0 + 1 = 1
    OBVIOUS
  <2> QED BY <2>1, <2>2
<1>3. Insere(s, l, InsertSQL(s, l))
  BY <1>2, InsertSQLEscolhe
<1>4. Entra(s, l, InsertSQL(s, l))
  BY <1>2, <1>3, EntraInserida
<1> QED BY <1>2, <1>4 DEF Acrescentou, Entra
--------------------------------------------------------------------------------
(* What the steps of a Write have in common, up to the submission              *)

Preparo == {"escrever", "bloco", "copiar", "anexar", "temporaria", "encher", "esperando"}

\* the Write goes on, or fails: the table, the numbers of the execution and what it
\* has read stay; nothing is added to the server, and nothing staged goes away
Prepara ==
  /\ pc \in Preparo
  /\ UNCHANGED <<cfg, i, leva, res, tabela, execucao, desfecho, gravadas, completou>>
  /\ servidor' \subseteq servidor
  /\ \/ pc # "esperando" /\ pc' \in {"bloco", "copiar", "anexar", "temporaria", "encher", "submeter"} /\ ~erro'
     \/ pc' = "limpar" /\ erro'
  /\ erro' \in BOOLEAN /\ existe' \in BOOLEAN /\ sobrou' \in BOOLEAN
  /\ (existe => existe') /\ (sobrou => sobrou')
  /\ b' \in 0..Len(leva) /\ falhas' \in 0..MaxFalhas /\ modo' \in {"anexo", "mescla", "ignora"}
  /\ lr' \in UmResultado /\ (cfg.destino # "mysql" => lr'.linhas = lr.linhas)
  /\ palco' \in SUBSET Coisa /\ palco \subseteq palco'
  /\ completou /\ Mesclar /\ pc' \in {"anexar", "submeter"} => modo' # "anexo"

\* what is staged by it is its object or its temporary table
Encena ==
  /\ lr'.objetos = lr.objetos /\ palco' \subseteq palco \cup {Objeto, Temporaria}
  /\ cfg.destino = "redshift" => palco' = palco

\* the types and the mode, where a step starts
LEMMA NoPreparo ==
  ASSUME Tipado, Repouso, Caminho, Leitura, Completa, pc \in Preparo
  PROVE  /\ cfg \in Pedidos /\ leva \in Seq(Linha) /\ leva # <<>> /\ Len(leva) \in Nat \ {0}
         /\ b \in 0..Len(leva) /\ erro = FALSE
         /\ falhas \in 0..MaxFalhas /\ MaxFalhas \in Nat
         /\ modo \in {"anexo", "mescla", "ignora"} /\ existe \in BOOLEAN /\ sobrou \in BOOLEAN
         /\ lr \in UmResultado /\ palco \in SUBSET Coisa
         /\ Objeto \in Coisa /\ Temporaria \in Coisa
         /\ cfg.dedup \in {"none", "merge"} /\ cfg.bloco \in Nat \ {0} /\ cfg.indice \in BOOLEAN
         /\ cfg.destino = "files" => cfg.existe
         /\ completou /\ Mesclar => existe
<1>1. /\ cfg \in Pedidos /\ leva \in Seq(Linha)
      /\ b \in 0..Len(leva) /\ erro \in BOOLEAN
      /\ falhas \in 0..MaxFalhas
      /\ modo \in {"anexo", "mescla", "ignora"} /\ existe \in BOOLEAN /\ sobrou \in BOOLEAN
      /\ lr \in UmResultado /\ palco \in SUBSET Coisa /\ i \in 0..Len(cfg.fonte) /\ execucao \in 1..MaxExecucoes
  BY DEF Tipado, TypeOK
<1>2. leva # <<>> /\ ~erro
  BY DEF Leitura, Repouso, Preparo, NaEscrita, PorEntrar, PorEscrever
<1>3. Len(leva) \in Nat \ {0}
  BY <1>1, <1>2, EmptySeq
<1>4. MaxFalhas \in Nat /\ MaxExecucoes \in Nat
  BY LimitesNaturais
<1>5. Objeto \in Coisa /\ Temporaria \in Coisa
  <2>1. Len(cfg.fonte) \in Nat
    BY <1>1, DaFonte
  <2> QED BY <1>1, <1>4, <2>1 DEF Coisa, Objeto, Temporaria
<1>6. /\ cfg.dedup \in {"none", "merge"} /\ cfg.bloco \in Nat \ {0} /\ cfg.indice \in BOOLEAN
      /\ cfg.destino = "files" => cfg.existe
  BY <1>1, DoPedido
<1>7. completou => existe
  <2>1. Len(Lidas) >= Len(leva) /\ Len(Lidas) <= Len(Passam(cfg)) /\ Len(Lidas) \in Nat /\ Len(Passam(cfg)) \in Nat
    BY <1>1, DasLidas DEF Leitura, Preparo
  <2>2. Passam(cfg) # <<>>
    <3>1. Len(Passam(cfg)) # 0 /\ Len(<<>>) = 0
      BY <2>1, <1>3
    <3> QED BY <3>1
  <2> QED BY <2>2 DEF Completa
<1> QED BY <1>1, <1>2, <1>3, <1>4, <1>5, <1>6, <1>7

\* the checks of postgres.go Write
LEMMA PreparaPostgres ==
  ASSUME Tipado, Repouso, Caminho, Leitura, Completa, EscreverPostgres
  PROVE  Prepara /\ Encena /\ Caminho'
<1>1. pc = "escrever" /\ cfg.destino = "postgres" /\ pc \in Preparo
  BY DEF EscreverPostgres, Preparo
<1>2. /\ UNCHANGED <<cfg, i, leva, b, res, remotas, historia, sobrou>>
      /\ \/ AceitaSQL /\ UNCHANGED falhas /\ Seguir("submeter", IF Mesclar THEN "ignora" ELSE "anexo")
         \/ UNCHANGED falhas /\ Parar
         \/ Falha /\ Parar
  BY DEF EscreverPostgres
<1>3. /\ leva \in Seq(Linha) /\ Len(leva) \in Nat \ {0} /\ b \in 0..Len(leva) /\ erro = FALSE
      /\ falhas \in 0..MaxFalhas /\ MaxFalhas \in Nat
      /\ modo \in {"anexo", "mescla", "ignora"} /\ existe \in BOOLEAN /\ sobrou \in BOOLEAN
      /\ lr \in UmResultado /\ palco \in SUBSET Coisa
  BY <1>1, NoPreparo
<1>4. falhas' \in 0..MaxFalhas
  BY <1>2, <1>3 DEF Falha
<1>5. /\ UNCHANGED <<cfg, i, leva, b, res, existe, tabela, servidor, palco, execucao, desfecho, gravadas, completou, sobrou, lr>>
      /\ \/ existe /\ (Mesclar => cfg.indice) /\ pc' = "submeter" /\ modo' = (IF Mesclar THEN "ignora" ELSE "anexo") /\ UNCHANGED erro
         \/ pc' = "limpar" /\ erro' = TRUE /\ UNCHANGED modo
  BY <1>2 DEF remotas, historia, AceitaSQL, Seguir, Ir, Parar, Recusar, Sair
<1>6. Prepara
  BY <1>1, <1>3, <1>4, <1>5 DEF Prepara
<1>7. Encena
  BY <1>5 DEF Encena
<1>8. Caminho'
  BY <1>1, <1>5 DEF Caminho, ModoVale, Mesclar
<1> QED BY <1>6, <1>7, <1>8

\* the checks of mysql.go Write
LEMMA PreparaMySQL ==
  ASSUME Tipado, Repouso, Caminho, Leitura, Completa, EscreverMySQL
  PROVE  Prepara /\ Encena /\ Caminho'
<1>1. pc = "escrever" /\ cfg.destino = "mysql" /\ pc \in Preparo
  BY DEF EscreverMySQL, Preparo
<1>2. /\ UNCHANGED <<cfg, i, leva, b, res, remotas, historia, sobrou>>
      /\ \/ AceitaSQL /\ UNCHANGED falhas /\ Seguir("bloco", IF Mesclar THEN "ignora" ELSE "anexo")
         \/ UNCHANGED falhas /\ Parar
         \/ Falha /\ Parar
  BY DEF EscreverMySQL
<1>3. /\ leva \in Seq(Linha) /\ Len(leva) \in Nat \ {0} /\ b \in 0..Len(leva) /\ erro = FALSE
      /\ falhas \in 0..MaxFalhas /\ MaxFalhas \in Nat
      /\ modo \in {"anexo", "mescla", "ignora"} /\ existe \in BOOLEAN /\ sobrou \in BOOLEAN
      /\ lr \in UmResultado /\ palco \in SUBSET Coisa /\ Objeto \in Coisa /\ Temporaria \in Coisa
      /\ (completou /\ Mesclar => existe) /\ (cfg.destino = "files" => cfg.existe)
  BY <1>1, NoPreparo
<1>4. falhas' \in 0..MaxFalhas
  BY <1>2, <1>3 DEF Falha
<1>5. /\ UNCHANGED <<cfg, i, leva, b, res, existe, tabela, servidor, palco, execucao, desfecho, gravadas, completou, sobrou, lr>>
      /\ lr.linhas = 0 /\ b = 0
      /\ \/ existe /\ (Mesclar => cfg.indice) /\ pc' = "bloco" /\ modo' = (IF Mesclar THEN "ignora" ELSE "anexo") /\ UNCHANGED erro
         \/ pc' = "limpar" /\ erro' = TRUE /\ UNCHANGED modo
  BY <1>1, <1>2, <1>3 DEF remotas, historia, AceitaSQL, Seguir, Ir, Parar, Recusar, Sair, Repouso, PorEscrever, SemResultado
<1>6. Prepara
  BY <1>1, <1>3, <1>4, <1>5 DEF Prepara
<1>7. Encena
  BY <1>1, <1>5 DEF Encena
<1>8. Caminho'
  BY <1>1, <1>5 DEF Caminho, ModoVale, Mesclar
<1> QED BY <1>6, <1>7, <1>8

\* the checks of files.go Write
LEMMA PreparaArquivo ==
  ASSUME Tipado, Repouso, Caminho, Leitura, Completa, EscreverArquivo
  PROVE  Prepara /\ Encena /\ Caminho'
<1>1. pc = "escrever" /\ cfg.destino = "files" /\ pc \in Preparo
  BY DEF EscreverArquivo, Preparo
<1>2. /\ UNCHANGED <<cfg, i, leva, b, res, remotas, historia, sobrou>>
      /\ \/ ~Mesclar /\ UNCHANGED falhas /\ Seguir("submeter", "anexo")
         \/ UNCHANGED falhas /\ Parar
         \/ Falha /\ Parar
  BY DEF EscreverArquivo
<1>3. /\ leva \in Seq(Linha) /\ Len(leva) \in Nat \ {0} /\ b \in 0..Len(leva) /\ erro = FALSE
      /\ falhas \in 0..MaxFalhas /\ MaxFalhas \in Nat
      /\ modo \in {"anexo", "mescla", "ignora"} /\ existe \in BOOLEAN /\ sobrou \in BOOLEAN
      /\ lr \in UmResultado /\ palco \in SUBSET Coisa /\ Objeto \in Coisa /\ Temporaria \in Coisa
      /\ (completou /\ Mesclar => existe) /\ (cfg.destino = "files" => cfg.existe)
  BY <1>1, NoPreparo
<1>4. falhas' \in 0..MaxFalhas
  BY <1>2, <1>3 DEF Falha
<1>5. /\ UNCHANGED <<cfg, i, leva, b, res, existe, tabela, servidor, palco, execucao, desfecho, gravadas, completou, sobrou, lr>>
      /\ \/ ~Mesclar /\ existe /\ pc' = "submeter" /\ modo' = "anexo" /\ UNCHANGED erro
         \/ pc' = "limpar" /\ erro' = TRUE /\ UNCHANGED modo
  BY <1>1, <1>2, <1>3 DEF remotas, historia, Seguir, Ir, Parar, Recusar, Sair, Caminho
<1>6. Prepara
  BY <1>1, <1>3, <1>4, <1>5 DEF Prepara
<1>7. Encena
  BY <1>1, <1>5 DEF Encena
<1>8. Caminho'
  BY <1>1, <1>5 DEF Caminho, ModoVale, Mesclar
<1> QED BY <1>6, <1>7, <1>8

\* the connection and the COPY of redshift.go
LEMMA PreparaCopia ==
  ASSUME Tipado, Repouso, Caminho, Leitura, Completa, CopiarRedshift
  PROVE  Prepara /\ Encena /\ Caminho'
<1>1. pc = "copiar" /\ cfg.destino = "redshift" /\ pc \in Preparo
  BY DEF CopiarRedshift, Preparo, Caminho
<1>2. /\ UNCHANGED <<cfg, i, leva, b, res, modo, remotas, historia, sobrou>>
      /\ \/ existe /\ Ir("submeter") /\ UNCHANGED <<erro, lr, falhas>>
         \/ Recusar /\ UNCHANGED falhas
         \/ Falha /\ Recusar
  BY DEF CopiarRedshift
<1>3. /\ leva \in Seq(Linha) /\ Len(leva) \in Nat \ {0} /\ b \in 0..Len(leva) /\ erro = FALSE
      /\ falhas \in 0..MaxFalhas /\ MaxFalhas \in Nat
      /\ modo \in {"anexo", "mescla", "ignora"} /\ existe \in BOOLEAN /\ sobrou \in BOOLEAN
      /\ lr \in UmResultado /\ palco \in SUBSET Coisa /\ Objeto \in Coisa /\ Temporaria \in Coisa
      /\ (completou /\ Mesclar => existe) /\ (cfg.destino = "files" => cfg.existe)
  BY <1>1, NoPreparo
<1>4. falhas' \in 0..MaxFalhas
  BY <1>2, <1>3 DEF Falha
<1>5. /\ UNCHANGED <<cfg, i, leva, b, res, existe, tabela, servidor, palco, execucao, desfecho, gravadas, completou, sobrou, lr>>
      /\ UNCHANGED modo /\ (Mesclar <=> modo = "mescla")
      /\ \/ existe /\ pc' = "submeter" /\ UNCHANGED erro
         \/ pc' = "limpar" /\ erro' = TRUE
  BY <1>1, <1>2, <1>3 DEF remotas, historia, Ir, Recusar, Sair, Caminho
<1>6. Prepara
  BY <1>1, <1>3, <1>4, <1>5 DEF Prepara
<1>7. Encena
  BY <1>1, <1>5 DEF Encena
<1>8. Caminho'
  BY <1>1, <1>5 DEF Caminho, ModoVale, Mesclar
<1> QED BY <1>6, <1>7, <1>8

\* the temporary table of BigQuery is filled (dedup.go)
LEMMA PreparaEnchendo ==
  ASSUME Tipado, Repouso, Caminho, Leitura, Completa, EncherTemporaria
  PROVE  Prepara /\ Encena /\ Caminho'
<1>1. pc = "encher" /\ cfg.destino = "bigquery" /\ pc \in Preparo
  BY DEF EncherTemporaria, Preparo, Caminho
<1>2. /\ UNCHANGED <<cfg, i, leva, b, res, modo, remotas, historia, sobrou>>
      /\ \/ Ir("submeter") /\ UNCHANGED <<erro, lr, falhas>>
         \/ Recusar /\ UNCHANGED falhas
         \/ Falha /\ Recusar
  BY DEF EncherTemporaria
<1>3. /\ leva \in Seq(Linha) /\ Len(leva) \in Nat \ {0} /\ b \in 0..Len(leva) /\ erro = FALSE
      /\ falhas \in 0..MaxFalhas /\ MaxFalhas \in Nat
      /\ modo \in {"anexo", "mescla", "ignora"} /\ existe \in BOOLEAN /\ sobrou \in BOOLEAN
      /\ lr \in UmResultado /\ palco \in SUBSET Coisa /\ Objeto \in Coisa /\ Temporaria \in Coisa
      /\ (completou /\ Mesclar => existe) /\ (cfg.destino = "files" => cfg.existe)
  BY <1>1, NoPreparo
<1>4. falhas' \in 0..MaxFalhas
  BY <1>2, <1>3 DEF Falha
<1>5. /\ UNCHANGED <<cfg, i, leva, b, res, existe, tabela, servidor, palco, execucao, desfecho, gravadas, completou, sobrou, lr>>
      /\ UNCHANGED modo /\ modo = "mescla"
      /\ \/ pc' = "submeter" /\ UNCHANGED erro
         \/ pc' = "limpar" /\ erro' = TRUE
  BY <1>1, <1>2, <1>3 DEF remotas, historia, Ir, Recusar, Sair, Caminho
<1>6. Prepara
  BY <1>1, <1>3, <1>4, <1>5 DEF Prepara
<1>7. Encena
  BY <1>1, <1>5 DEF Encena
<1>8. Caminho'
  BY <1>1, <1>5 DEF Caminho, ModoVale, Mesclar
<1> QED BY <1>6, <1>7, <1>8

\* the temporary table of BigQuery is created (dedup.go)
LEMMA PreparaTemporaria ==
  ASSUME Tipado, Repouso, Caminho, Leitura, Completa, CriarTemporaria
  PROVE  Prepara /\ Encena /\ Caminho'
<1>1. pc = "temporaria" /\ cfg.destino = "bigquery" /\ pc \in Preparo
  BY DEF CriarTemporaria, Preparo, Caminho
<1>2. /\ UNCHANGED <<cfg, i, leva, b, res, modo, existe, tabela, servidor, historia>>
      /\ \/ palco' = palco \cup {Temporaria} /\ Ir("encher") /\ UNCHANGED <<erro, lr, falhas, sobrou>>
         \/ /\ Falha /\ Recusar
            /\ \/ UNCHANGED <<palco, sobrou>>
               \/ palco' = palco \cup {Temporaria} /\ sobrou' = TRUE
  BY DEF CriarTemporaria
<1>3. /\ leva \in Seq(Linha) /\ Len(leva) \in Nat \ {0} /\ b \in 0..Len(leva) /\ erro = FALSE
      /\ falhas \in 0..MaxFalhas /\ MaxFalhas \in Nat
      /\ modo \in {"anexo", "mescla", "ignora"} /\ existe \in BOOLEAN /\ sobrou \in BOOLEAN
      /\ lr \in UmResultado /\ palco \in SUBSET Coisa /\ Objeto \in Coisa /\ Temporaria \in Coisa
      /\ (completou /\ Mesclar => existe) /\ (cfg.destino = "files" => cfg.existe)
  BY <1>1, NoPreparo
<1>4. falhas' \in 0..MaxFalhas
  BY <1>2, <1>3 DEF Falha
<1>5. /\ UNCHANGED <<cfg, i, leva, b, res, existe, tabela, servidor, execucao, desfecho, gravadas, completou, lr>>
      /\ UNCHANGED modo /\ modo = "mescla"
      /\ (UNCHANGED sobrou \/ sobrou' = TRUE) /\ palco' \in {palco, palco \cup {Temporaria}}
      /\ \/ pc' = "encher" /\ UNCHANGED erro
         \/ pc' = "limpar" /\ erro' = TRUE
  BY <1>1, <1>2, <1>3 DEF historia, Ir, Recusar, Sair, Caminho
<1>9. palco' \in SUBSET Coisa /\ palco \subseteq palco'
  <2>1. palco' = palco \/ \E o \in Coisa : palco' = palco \cup {o}
    BY <1>3, <1>5
  <2> QED BY <2>1, <1>3
<1>10. sobrou' \in BOOLEAN /\ (sobrou => sobrou')
  <2>1. sobrou \in BOOLEAN
    BY <1>3
  <2>2. UNCHANGED sobrou \/ sobrou' = TRUE
    BY <1>5
  <2> QED BY <2>1, <2>2
<1>6. Prepara
  BY <1>1, <1>3, <1>4, <1>5, <1>9, <1>10 DEF Prepara
<1>7. Encena
  BY <1>1, <1>5 DEF Encena
<1>8. Caminho'
  BY <1>1, <1>5 DEF Caminho, ModoVale, Mesclar
<1> QED BY <1>6, <1>7, <1>8

\* a batch for BigQuery goes inline or through GCS (load.go)
LEMMA PreparaAnexo ==
  ASSUME Tipado, Repouso, Caminho, Leitura, Completa, AnexarBigQuery
  PROVE  Prepara /\ Encena /\ Caminho'
<1>1. pc = "anexar" /\ cfg.destino = "bigquery" /\ pc \in Preparo
  BY DEF AnexarBigQuery, Preparo, Caminho
<1>2. /\ UNCHANGED <<cfg, i, leva, b, res, modo, existe, tabela, servidor, historia>>
      /\ \/ Ir("submeter") /\ UNCHANGED <<palco, erro, lr, falhas, sobrou>>
         \/ Ir("submeter") /\ palco' = palco \cup {Objeto} /\ UNCHANGED <<erro, lr, falhas, sobrou>>
         \/ /\ Falha /\ Recusar
            /\ \/ UNCHANGED <<palco, sobrou>>
               \/ palco' = palco \cup {Objeto} /\ sobrou' = TRUE
  BY DEF AnexarBigQuery
<1>3. /\ leva \in Seq(Linha) /\ Len(leva) \in Nat \ {0} /\ b \in 0..Len(leva) /\ erro = FALSE
      /\ falhas \in 0..MaxFalhas /\ MaxFalhas \in Nat
      /\ modo \in {"anexo", "mescla", "ignora"} /\ existe \in BOOLEAN /\ sobrou \in BOOLEAN
      /\ lr \in UmResultado /\ palco \in SUBSET Coisa /\ Objeto \in Coisa /\ Temporaria \in Coisa
      /\ (completou /\ Mesclar => existe) /\ (cfg.destino = "files" => cfg.existe)
  BY <1>1, NoPreparo
<1>4. falhas' \in 0..MaxFalhas
  BY <1>2, <1>3 DEF Falha
<1>5. /\ UNCHANGED <<cfg, i, leva, b, res, existe, tabela, servidor, execucao, desfecho, gravadas, completou, lr>>
      /\ UNCHANGED modo /\ ~(completou /\ Mesclar)
      /\ (UNCHANGED sobrou \/ sobrou' = TRUE) /\ palco' \in {palco, palco \cup {Objeto}}
      /\ \/ pc' = "submeter" /\ UNCHANGED erro
         \/ pc' = "limpar" /\ erro' = TRUE
  BY <1>1, <1>2, <1>3 DEF historia, Ir, Recusar, Sair, Caminho, Completa
<1>9. palco' \in SUBSET Coisa /\ palco \subseteq palco'
  <2>1. palco' = palco \/ \E o \in Coisa : palco' = palco \cup {o}
    BY <1>3, <1>5
  <2> QED BY <2>1, <1>3
<1>10. sobrou' \in BOOLEAN /\ (sobrou => sobrou')
  <2>1. sobrou \in BOOLEAN
    BY <1>3
  <2>2. UNCHANGED sobrou \/ sobrou' = TRUE
    BY <1>5
  <2> QED BY <2>1, <2>2
<1>6. Prepara
  BY <1>1, <1>3, <1>4, <1>5, <1>9, <1>10 DEF Prepara
<1>7. Encena
  BY <1>1, <1>5 DEF Encena
<1>8. Caminho'
  BY <1>1, <1>5 DEF Caminho, ModoVale, Mesclar
<1> QED BY <1>6, <1>7, <1>8

\* a result with another count of rows skipped
LEMMA OutrasIgnoradas ==
  ASSUME NEW r \in UmResultado, NEW y \in Nat
  PROVE  /\ [r EXCEPT !.ignoradas = y] \in UmResultado
         /\ [r EXCEPT !.ignoradas = y].linhas = r.linhas
         /\ [r EXCEPT !.ignoradas = y].objetos = r.objetos
BY DEF UmResultado

\* where a block of the batch ends
FimDoBloco == IF b + cfg.bloco < Len(leva) THEN b + cfg.bloco ELSE Len(leva)
\* the rows the transaction has put in with it
NoBloco == IF modo = "ignora" THEN Len(InsertSQL(tabela, SubSeq(leva, 1, FimDoBloco))) - Len(tabela)
           ELSE FimDoBloco
ForaDoBloco(n) == IF Mesclar THEN Len(leva) - n ELSE 0

\* a block of rows inside the transaction of MySQL (mysql.go inserir)
LEMMA PreparaBloco ==
  ASSUME Tipado, Repouso, Caminho, Leitura, Completa, InserirBloco
  PROVE  Prepara /\ Encena /\ Caminho'
<1>1. pc = "bloco" /\ cfg.destino = "mysql" /\ pc \in Preparo /\ pc \in NaEscrita /\ (Mesclar <=> modo = "ignora")
      /\ lr.linhas <= b /\ existe
  BY DEF InserirBloco, Preparo, NaEscrita, Caminho
<1>2. /\ UNCHANGED <<cfg, i, leva, res, modo, remotas, historia, sobrou>>
      /\ \/ /\ b' = FimDoBloco
            /\ lr' = [lr EXCEPT !.linhas = NoBloco, !.ignoradas = ForaDoBloco(NoBloco)]
            /\ Ir(IF FimDoBloco = Len(leva) THEN "submeter" ELSE "bloco")
            /\ UNCHANGED <<erro, falhas>>
         \/ /\ UNCHANGED falhas \/ Falha
            /\ Sair(TRUE, [lr EXCEPT !.ignoradas = ForaDoBloco(lr.linhas)])
            /\ UNCHANGED b
  BY DEF InserirBloco, FimDoBloco, NoBloco, ForaDoBloco
<1>3. /\ leva \in Seq(Linha) /\ Len(leva) \in Nat \ {0} /\ b \in 0..Len(leva) /\ erro = FALSE
      /\ falhas \in 0..MaxFalhas /\ MaxFalhas \in Nat
      /\ modo \in {"anexo", "mescla", "ignora"} /\ existe \in BOOLEAN /\ sobrou \in BOOLEAN
      /\ lr \in UmResultado /\ palco \in SUBSET Coisa /\ cfg.bloco \in Nat \ {0}
  BY <1>1, NoPreparo
<1>4. falhas' \in 0..MaxFalhas
  <2>1. UNCHANGED falhas \/ Falha
    BY <1>2
  <2> QED BY <2>1, <1>3 DEF Falha
<1>5. FimDoBloco \in 0..Len(leva)
  BY <1>3 DEF FimDoBloco
<1>6. NoBloco \in Nat /\ NoBloco <= FimDoBloco
  <2>1. /\ Len(InsertSQL(tabela, SubSeq(leva, 1, FimDoBloco))) - Len(tabela) \in Nat
        /\ Len(InsertSQL(tabela, SubSeq(leva, 1, FimDoBloco))) - Len(tabela) <= FimDoBloco
    BY <1>1, <1>5, DoBloco
  <2> QED BY <2>1, <1>5 DEF NoBloco
<1>7. lr.linhas \in Nat
  BY <1>3 DEF UmResultado
<1>8. ForaDoBloco(NoBloco) \in Nat /\ ForaDoBloco(lr.linhas) \in Nat
  BY <1>1, <1>3, <1>5, <1>6, <1>7 DEF ForaDoBloco
<1>9. /\ UNCHANGED <<cfg, i, leva, res, modo, existe, tabela, servidor, palco, execucao, desfecho, gravadas, completou, sobrou>>
      /\ lr' \in UmResultado /\ lr'.objetos = lr.objetos /\ b' \in 0..Len(leva)
      /\ \/ (pc' = "bloco" \/ pc' = "submeter") /\ UNCHANGED erro /\ lr'.linhas <= b'
         \/ pc' = "limpar" /\ erro' = TRUE
  <2>1. UNCHANGED <<cfg, i, leva, res, modo, existe, tabela, servidor, palco, execucao, desfecho, gravadas, completou, sobrou>>
    BY <1>2 DEF remotas, historia
  <2>2. CASE /\ b' = FimDoBloco
             /\ lr' = [lr EXCEPT !.linhas = NoBloco, !.ignoradas = ForaDoBloco(NoBloco)]
             /\ Ir(IF FimDoBloco = Len(leva) THEN "submeter" ELSE "bloco")
             /\ UNCHANGED <<erro, falhas>>
    <3>1. lr' \in UmResultado /\ lr'.objetos = lr.objetos /\ lr'.linhas = NoBloco
      <4> PICK x \in Nat : x = NoBloco
        BY <1>6
      <4> PICK y \in Nat : y = ForaDoBloco(NoBloco)
        BY <1>8
      <4>1. lr' = [lr EXCEPT !.linhas = x, !.ignoradas = y]
        BY <2>2
      <4> QED BY <4>1, <1>3 DEF UmResultado
    <3> QED BY <3>1, <2>1, <2>2, <1>5, <1>6 DEF Ir
  <2>3. CASE Sair(TRUE, [lr EXCEPT !.ignoradas = ForaDoBloco(lr.linhas)]) /\ UNCHANGED b
    <3>1. lr' \in UmResultado /\ lr'.objetos = lr.objetos
      BY <2>3, <1>3, <1>7, <1>8, OutrasIgnoradas DEF Sair
    <3> QED BY <3>1, <2>1, <2>3, <1>3 DEF Sair
  <2> QED BY <1>2, <2>2, <2>3
<1>10. Prepara
  BY <1>1, <1>3, <1>4, <1>9 DEF Prepara
<1>11. Encena
  BY <1>1, <1>9 DEF Encena
<1>12. Caminho'
  BY <1>1, <1>9 DEF Caminho, ModoVale, Mesclar
<1> QED BY <1>10, <1>11, <1>12

\* the wait given up, or what was sent refused
LEMMA PreparaDesistencia ==
  ASSUME Tipado, Repouso, Caminho, Leitura, Completa, pc = "esperando", Recusar,
         UNCHANGED falhas \/ Falha,
         UNCHANGED <<cfg, i, leva, b, res, modo, existe, tabela, palco, historia, sobrou>>,
         servidor' \subseteq servidor
  PROVE  Prepara /\ Encena /\ Caminho'
<1>1. pc = "esperando" /\ pc \in Preparo
  BY DEF Preparo
<1>3. /\ leva \in Seq(Linha) /\ Len(leva) \in Nat \ {0} /\ b \in 0..Len(leva)
      /\ falhas \in 0..MaxFalhas /\ MaxFalhas \in Nat
      /\ modo \in {"anexo", "mescla", "ignora"} /\ existe \in BOOLEAN /\ sobrou \in BOOLEAN
      /\ lr \in UmResultado /\ palco \in SUBSET Coisa
  BY <1>1, NoPreparo
<1>4. falhas' \in 0..MaxFalhas
  BY <1>3 DEF Falha
<1>5. /\ UNCHANGED <<cfg, i, leva, b, res, modo, existe, tabela, palco, execucao, desfecho, gravadas, completou, sobrou, lr>>
      /\ pc' = "limpar" /\ erro' = TRUE
  BY DEF historia, Recusar, Sair
<1>6. Prepara
  BY <1>1, <1>3, <1>4, <1>5 DEF Prepara
<1>7. Encena
  BY <1>1, <1>5 DEF Encena
<1>8. Caminho'
  BY <1>1, <1>5 DEF Caminho, ModoVale, Mesclar
<1> QED BY <1>6, <1>7, <1>8

\* the upload to S3: what it stages it reports if it is to be kept
LEMMA PreparaRedshift ==
  ASSUME Tipado, Repouso, Caminho, Leitura, Completa, EscreverRedshift
  PROVE  /\ Prepara /\ Caminho'
         /\ \/ /\ pc' = "copiar" /\ palco' = palco \cup {Objeto} /\ UNCHANGED sobrou
               /\ lr'.objetos = IF cfg.manter THEN {Objeto} ELSE {}
            \/ /\ pc' = "limpar" /\ lr' = lr /\ erro' = TRUE
               /\ UNCHANGED <<palco, sobrou>> \/ (palco' = palco \cup {Objeto} /\ sobrou' = TRUE)
<1>1. pc = "escrever" /\ cfg.destino = "redshift" /\ pc \in Preparo
  BY DEF EscreverRedshift, Preparo
<1>2. /\ leva \in Seq(Linha) /\ Len(leva) \in Nat \ {0} /\ b \in 0..Len(leva) /\ erro = FALSE
      /\ falhas \in 0..MaxFalhas /\ MaxFalhas \in Nat
      /\ modo \in {"anexo", "mescla", "ignora"} /\ existe \in BOOLEAN /\ sobrou \in BOOLEAN
      /\ lr \in UmResultado /\ palco \in SUBSET Coisa /\ Objeto \in Coisa
  BY <1>1, NoPreparo
<1>3. UNCHANGED <<cfg, i, leva, b, res, existe, tabela, servidor, execucao, desfecho, gravadas, completou>>
  BY DEF EscreverRedshift, historia
<1>4. CASE /\ Ir("copiar")
           /\ modo' = IF Mesclar THEN "mescla" ELSE "anexo"
           /\ palco' = palco \cup {Objeto}
           /\ lr' = [lr EXCEPT !.objetos = IF cfg.manter THEN {Objeto} ELSE {}]
           /\ UNCHANGED <<erro, falhas, sobrou>>
  <2>1. lr' \in UmResultado /\ lr'.linhas = lr.linhas /\ lr'.objetos = IF cfg.manter THEN {Objeto} ELSE {}
    <3> PICK O \in SUBSET Coisa : O = IF cfg.manter THEN {Objeto} ELSE {}
      BY <1>2
    <3>1. lr' = [lr EXCEPT !.objetos = O]
      BY <1>4
    <3> QED BY <3>1, <1>2 DEF UmResultado
  <2>2. palco' \in SUBSET Coisa /\ palco \subseteq palco'
    BY <1>2, <1>4
  <2>3. /\ pc' = "copiar" /\ UNCHANGED <<erro, falhas, sobrou>> /\ modo' \in {"anexo", "mescla", "ignora"}
        /\ modo' = IF Mesclar THEN "mescla" ELSE "anexo"
    BY <1>4 DEF Ir
  <2>4. Prepara
    BY <1>1, <1>2, <1>3, <2>1, <2>2, <2>3 DEF Prepara
  <2>5. Caminho'
    BY <1>1, <1>3, <2>3 DEF Caminho, ModoVale, Mesclar
  <2> QED BY <2>1, <2>3, <2>4, <2>5, <1>4
<1>5. CASE Parar /\ UNCHANGED <<palco, falhas, sobrou>>
  <2>1. UNCHANGED <<palco, falhas, sobrou, modo, lr>> /\ pc' = "limpar" /\ erro' = TRUE
    BY <1>5 DEF Parar, Recusar, Sair
  <2>2. Prepara
    BY <1>1, <1>2, <1>3, <2>1 DEF Prepara
  <2>3. Caminho'
    BY <1>1, <1>3, <2>1 DEF Caminho, ModoVale, Mesclar
  <2> QED BY <2>1, <2>2, <2>3
<1>6. CASE /\ Falha /\ Parar
           /\ UNCHANGED <<palco, sobrou>> \/ (palco' = palco \cup {Objeto} /\ sobrou' = TRUE)
  <2>1. UNCHANGED <<modo, lr>> /\ pc' = "limpar" /\ erro' = TRUE
    BY <1>6 DEF Parar, Recusar, Sair
  <2>2. falhas' \in 0..MaxFalhas
    BY <1>2, <1>6 DEF Falha
  <2>3. sobrou' \in BOOLEAN /\ (sobrou => sobrou')
    <3>1. sobrou \in BOOLEAN
      BY <1>2
    <3>2. UNCHANGED sobrou \/ sobrou' = TRUE
      BY <1>6
    <3> QED BY <3>1, <3>2
  <2>4. palco' \in SUBSET Coisa /\ palco \subseteq palco'
    BY <1>2, <1>6
  <2>5. Prepara
    BY <1>1, <1>2, <1>3, <2>1, <2>2, <2>3, <2>4 DEF Prepara
  <2>6. Caminho'
    BY <1>1, <1>3, <2>1 DEF Caminho, ModoVale, Mesclar
  <2> QED BY <1>6, <2>1, <2>5, <2>6
<1> QED BY <1>4, <1>5, <1>6 DEF EscreverRedshift

\* BigQuery's table made ready
LEMMA PreparaBigQuery ==
  ASSUME Tipado, Repouso, Caminho, Leitura, Completa, PrepararBigQuery
  PROVE  Prepara /\ Encena /\ Caminho' /\ (~existe /\ pc' \in {"anexar", "submeter"} => existe')
         /\ (existe => existe' /\ ~(Mesclar /\ modo' = "anexo" /\ pc' \in {"anexar", "submeter"}))
<1>1. pc = "escrever" /\ cfg.destino = "bigquery" /\ pc \in Preparo
  BY DEF PrepararBigQuery, Preparo
<1>2. /\ leva \in Seq(Linha) /\ Len(leva) \in Nat \ {0} /\ b \in 0..Len(leva) /\ erro = FALSE
      /\ falhas \in 0..MaxFalhas /\ MaxFalhas \in Nat
      /\ modo \in {"anexo", "mescla", "ignora"} /\ existe \in BOOLEAN /\ sobrou \in BOOLEAN
      /\ lr \in UmResultado /\ palco \in SUBSET Coisa
      /\ completou /\ Mesclar => existe
  BY <1>1, NoPreparo
<1>3. UNCHANGED <<cfg, i, leva, b, res, tabela, servidor, palco, execucao, desfecho, gravadas, completou, sobrou>>
  BY DEF PrepararBigQuery, historia
<1>4. CASE existe /\ Seguir(IF ModoNaExistente = "mescla" THEN "temporaria" ELSE "anexar", ModoNaExistente)
           /\ UNCHANGED <<existe, falhas>>
  <2>1. /\ UNCHANGED <<existe, falhas, lr, erro>> /\ existe
        /\ \/ Mesclar /\ pc' = "temporaria" /\ modo' = "mescla"
           \/ ~Mesclar /\ pc' = "anexar" /\ modo' = "anexo"
    BY <1>4 DEF Seguir, Ir, ModoNaExistente
  <2>2. Prepara
    BY <1>1, <1>2, <1>3, <2>1 DEF Prepara
  <2>3. Caminho'
    BY <1>1, <1>3, <2>1 DEF Caminho, ModoVale, Mesclar
  <2>4. Encena
    BY <1>1, <1>3, <2>1 DEF Encena
  <2> QED BY <2>1, <2>2, <2>3, <2>4
<1>5. CASE Parar /\ (UNCHANGED falhas \/ Falha) /\ (UNCHANGED existe \/ existe' = TRUE)
  <2>1. UNCHANGED <<lr, modo>> /\ pc' = "limpar" /\ erro' = TRUE
    BY <1>5 DEF Parar, Recusar, Sair
  <2>2. falhas' \in 0..MaxFalhas
    <3>1. UNCHANGED falhas \/ Falha
      BY <1>5
    <3> QED BY <1>2, <3>1 DEF Falha
  <2>3. existe' \in BOOLEAN /\ (existe => existe')
    <3>1. existe \in BOOLEAN
      BY <1>2
    <3>2. UNCHANGED existe \/ existe' = TRUE
      BY <1>5
    <3> QED BY <3>1, <3>2
  <2>4. Prepara
    BY <1>1, <1>2, <1>3, <2>1, <2>2, <2>3 DEF Prepara
  <2>5. Caminho'
    BY <1>1, <1>3, <2>1, <2>3 DEF Caminho, ModoVale, Mesclar
  <2>6. Encena
    BY <1>1, <1>3, <2>1 DEF Encena
  <2> QED BY <2>1, <2>3, <2>4, <2>5, <2>6
<1>6. CASE ~existe /\ existe' = TRUE /\ Seguir("anexar", "anexo") /\ UNCHANGED falhas
  <2>1. UNCHANGED <<falhas, lr, erro>> /\ ~existe /\ existe' = TRUE /\ pc' = "anexar" /\ modo' = "anexo"
    BY <1>6 DEF Seguir, Ir
  <2>2. Prepara
    BY <1>1, <1>2, <1>3, <2>1 DEF Prepara
  <2>3. Caminho'
    BY <1>1, <1>3, <2>1 DEF Caminho, ModoVale, Mesclar
  <2>4. Encena
    BY <1>1, <1>3, <2>1 DEF Encena
  <2> QED BY <2>1, <2>2, <2>3, <2>4
<1>7. \/ existe /\ Seguir(IF ModoNaExistente = "mescla" THEN "temporaria" ELSE "anexar", ModoNaExistente)
         /\ UNCHANGED <<existe, falhas>>
      \/ Parar /\ (UNCHANGED falhas \/ Falha) /\ (UNCHANGED existe \/ existe' = TRUE)
      \/ ~existe /\ existe' = TRUE /\ Seguir("anexar", "anexo") /\ UNCHANGED falhas
  BY DEF PrepararBigQuery
<1> QED BY <1>4, <1>5, <1>6, <1>7

--------------------------------------------------------------------------------
(* A Write up to the submission keeps the invariant                            *)

\* what these steps have in common keeps the invariant, when the path and the stage are in order
LEMMA PreparaMantem ==
  ASSUME IInv, Prepara, Caminho', Sobra'
  PROVE  IInv'
<1> USE DEF Preparo
<1>1. Tipado'
  <2>1. TypeOK'
    <3>1. /\ cfg' \in Pedidos /\ i' \in 0..Len(cfg'.fonte) /\ Len(leva') <= i'
          /\ execucao' \in 1..MaxExecucoes /\ completou' \in BOOLEAN
          /\ desfecho' \in {"nenhum", "ok", "erro", "ensaio", "morto"}
          /\ {res'.linhas, res'.ignoradas, gravadas'} \subseteq Nat
          /\ b' \in 0..Len(leva')
      BY DEF IInv, Tipado, TypeOK, Prepara
    <3>2. {lr'.linhas, lr'.ignoradas} \subseteq Nat
      BY DEF Prepara, UmResultado
    <3>3. \A j \in servidor' : j.de \in 1..execucao'
      BY DEF IInv, Tipado, TypeOK, Prepara
    <3>4. pc' \in {"verificar", "lendo", "escrever", "bloco", "copiar", "anexar", "temporaria", "encher",
            "submeter", "esperando", "descartar", "limpar", "devolver", "fim"}
      BY DEF Prepara
    <3>5. erro' \in BOOLEAN /\ existe' \in BOOLEAN /\ sobrou' \in BOOLEAN /\ modo' \in {"anexo", "mescla", "ignora"}
          /\ falhas' \in 0..MaxFalhas
      BY DEF Prepara
    <3> QED BY <3>1, <3>2, <3>3, <3>4, <3>5 DEF TypeOK
  <2>2. /\ leva' \in Seq(Linha) /\ tabela' \in Seq(Linha) /\ lr' \in UmResultado /\ res' \in UmResultado
        /\ palco' \in SUBSET Coisa /\ servidor' \in SUBSET UmPedido
    BY DEF IInv, Tipado, Prepara
  <2>3. IsFiniteSet(servidor')
    BY FS_Subset DEF IInv, Tipado, Prepara
  <2> QED BY <2>1, <2>2, <2>3 DEF Tipado
<1>2. Repouso'
  BY DEF IInv, Repouso, Prepara, PorEscrever, PorEntrar
<1>3. Lidas' = Lidas /\ Comeco' = Comeco
  BY DEF Prepara, Lidas, Comeco
<1>4. Leitura'
  BY <1>3 DEF IInv, Leitura, Prepara, NaEscrita
<1>5. Posse'
  <2>1. servidor' # {} \/ tabela' # <<>> => existe'
    BY DEF IInv, Posse, Prepara
  <2>2. ASSUME NEW j \in servidor'
        PROVE  /\ j.lote \in Gravaveis(cfg)' /\ j.lote # <<>> /\ ModoVale(j.tipo)' /\ j.de <= execucao'
               /\ j.de = execucao' => pc' = "limpar" /\ erro'
    <3>1. /\ j \in servidor /\ cfg' = cfg /\ execucao' = execucao
          /\ pc # "fim" /\ pc \notin {"limpar", "devolver"} /\ (pc = "esperando" => pc' = "limpar" /\ erro')
      BY DEF Prepara
    <3>2. /\ j.lote \in Gravaveis(cfg) /\ j.lote # <<>> /\ ModoVale(j.tipo) /\ j.de <= execucao
          /\ j.de = execucao => pc = "esperando" \/ pc \in {"limpar", "devolver"} \/ pc = "fim"
      BY <3>1 DEF IInv, Posse
    <3>3. Gravaveis(cfg)' = Gravaveis(cfg) /\ (ModoVale(j.tipo)' <=> ModoVale(j.tipo))
      BY <3>1 DEF Gravaveis, ModoVale, Mesclar
    <3> QED BY <3>1, <3>2, <3>3
  <2> QED BY <2>1, <2>2 DEF Posse
<1>6. Conta'
  <2>1. /\ cfg' = cfg /\ gravadas' = gravadas /\ res' = res /\ Comeco' = Comeco /\ desfecho' = "nenhum"
        /\ cfg.destino # "mysql" => lr'.linhas = lr.linhas
        /\ pc \in PorEntrar /\ pc' \notin {"descartar", "devolver"} /\ (pc' = "limpar" => erro')
        /\ {res.linhas, gravadas} \subseteq Nat
        /\ pc # "descartar"
    BY <1>3 DEF IInv, Repouso, Prepara, PorEntrar, PorEscrever, Tipado, TypeOK
  <2>2. ContaLinhas' <=> ContaLinhas
    BY <2>1 DEF ContaLinhas
  <2>3. ResultadoConfere'
    BY <2>1 DEF ResultadoConfere
  <2> QED BY <2>1, <2>2, <2>3 DEF IInv, Conta
<1>7. Inteira'
  <2>1. CargaInteira'
    BY DEF IInv, Repouso, Prepara, CargaInteira
  <2>2. NadaSumiu'
    BY DEF IInv, Inteira, Prepara, NadaSumiu, NadaSumiuEm
  <2> QED BY <1>3, <2>1, <2>2 DEF IInv, Inteira, Prepara
<1>8. Completa'
  BY DEF IInv, Completa, Prepara, Mesclar
<1>9. SemDobra'
  BY DEF IInv, SemDobra, Prepara, Mesclar
<1> QED BY <1>1, <1>2, <1>4, <1>5, <1>6, <1>7, <1>8, <1>9 DEF IInv

\* what a Write stages on the way is in its hands
LEMMA EncenaMantem ==
  ASSUME IInv, Prepara, Encena
  PROVE  Sobra'
<1> USE DEF Preparo
<1>1. /\ UNCHANGED <<cfg, i, leva, res, execucao, desfecho>> /\ Objeto' = Objeto /\ Temporaria' = Temporaria
      /\ lr'.objetos = lr.objetos /\ palco \subseteq palco' /\ palco' \subseteq palco \cup {Objeto, Temporaria}
      /\ (sobrou => sobrou') /\ (cfg.destino = "redshift" => palco' = palco)
      /\ Objeto.de = execucao /\ Temporaria.de = execucao /\ execucao \in Nat /\ erro = FALSE
      /\ pc \in NaEscrita \ {"devolver", "limpar", "descartar"} /\ pc \in PorEntrar
      /\ pc' \in NaEscrita \ {"escrever", "devolver"} /\ pc' # "fim" /\ (pc' \notin PorEntrar => erro' = TRUE)
  <2>1. execucao \in Nat /\ erro = FALSE
    BY LimitesNaturais DEF IInv, Tipado, TypeOK, Repouso, Prepara, PorEntrar, PorEscrever
  <2> QED BY <2>1 DEF Prepara, Encena, Objeto, Temporaria, NaEscrita, PorEntrar, PorEscrever
<1>2. \A o \in palco' : o.de <= execucao'
  BY <1>1 DEF IInv, Sobra
<1>3. /\ res'.objetos \subseteq palco'
      /\ \A o \in res'.objetos :
           o.de = execucao' /\ o.tipo = "objeto" /\ cfg'.manter /\ (pc' # "fim" => o.n <= i' - Len(leva'))
  BY <1>1 DEF IInv, Sobra, NaEscrita
<1>4. lr'.objetos \subseteq palco' \cap {Objeto'}
  BY <1>1 DEF IInv, Sobra
<1>5. lr'.objetos # {} => cfg'.manter /\ cfg'.destino = "redshift"
  BY <1>1 DEF IInv, Sobra
<1>6. ~sobrou' /\ desfecho' # "morto" =>
        \A o \in palco' : o.de = execucao' => o \in res'.objetos \cup lr'.objetos \/ o \in {Objeto', Temporaria'}
  BY <1>1 DEF IInv, Sobra
<1>7. /\ pc' \in NaEscrita /\ ~sobrou' /\ cfg'.manter /\ Objeto' \in palco'
      /\ cfg'.destino = "redshift" \/ (pc' \notin PorEntrar /\ ~erro')
      => Objeto' \in lr'.objetos
  BY <1>1 DEF IInv, Sobra
<1> QED BY <1>1, <1>2, <1>3, <1>4, <1>5, <1>6, <1>7 DEF Sobra

\* nothing staged for this batch is reported as another's
LEMMA ObjetoNovo ==
  ASSUME IInv, pc \in NaEscrita
  PROVE  Objeto \notin res.objetos /\ Temporaria \notin res.objetos
<1>1. i \in Nat /\ Len(leva) \in Nat /\ leva # <<>> /\ leva \in Seq(Linha)
  BY DaFonte, LenProperties DEF IInv, Tipado, TypeOK, Leitura
<1>2. Len(leva) # 0
  BY <1>1, EmptySeq
<1>3. \A o \in res.objetos : o.tipo = "objeto" /\ o.n <= i - Len(leva)
  BY DEF IInv, Sobra, NaEscrita
<1>4. ~(i <= i - Len(leva))
  BY <1>1, <1>2
<1> QED BY <1>3, <1>4 DEF Objeto, Temporaria

\* the object of Redshift is staged before the batch is sent (redshift.go Write)
LEMMA RedshiftEncena ==
  ASSUME IInv, EscreverRedshift
  PROVE  Sobra'
<1> USE DEF Preparo
<1>1. Prepara /\ pc = "escrever" /\ cfg.destino = "redshift"
  BY PreparaRedshift DEF IInv, EscreverRedshift
<1>2. /\ UNCHANGED <<cfg, i, leva, res, execucao, desfecho>> /\ Objeto' = Objeto /\ Temporaria' = Temporaria
      /\ Objeto.de = execucao /\ execucao \in Nat /\ lr.objetos = {} /\ desfecho = "nenhum" /\ Objeto \notin res.objetos
      /\ Objeto.tipo = "objeto"
  <2>1. execucao \in Nat
    BY LimitesNaturais DEF IInv, Tipado, TypeOK
  <2>2. Objeto \notin res.objetos
    BY <1>1, ObjetoNovo DEF NaEscrita
  <2>3. lr.objetos = {} /\ desfecho = "nenhum"
    BY <1>1 DEF IInv, Repouso, PorEscrever, SemResultado
  <2> QED BY <2>1, <2>2, <2>3, <1>1 DEF Prepara, Objeto, Temporaria
<1>3. /\ \A o \in palco : o.de <= execucao
      /\ res.objetos \subseteq palco
      /\ \A o \in res.objetos : o.de = execucao /\ o.tipo = "objeto" /\ cfg.manter /\ o.n <= i - Len(leva)
      /\ ~sobrou => \A o \in palco : o.de = execucao => o \in res.objetos
  BY <1>1, <1>2 DEF IInv, Sobra
<1>4. CASE /\ pc' = "copiar" /\ palco' = palco \cup {Objeto} /\ UNCHANGED sobrou
           /\ lr'.objetos = IF cfg.manter THEN {Objeto} ELSE {}
  <2>1. \A o \in palco' : o.de <= execucao'
    BY <1>2, <1>3, <1>4
  <2>2. /\ res'.objetos \subseteq palco'
        /\ \A o \in res'.objetos : o.de = execucao' /\ o.tipo = "objeto" /\ cfg'.manter /\ o.n <= i' - Len(leva')
    BY <1>2, <1>3, <1>4
  <2>3. lr'.objetos \subseteq palco' \cap {Objeto'} /\ (lr'.objetos # {} => cfg'.manter) /\ cfg'.destino = "redshift"
    BY <1>1, <1>2, <1>4
  <2>4. ~sobrou' => \A o \in palco' : o.de = execucao' => o \in res'.objetos \/ o = Objeto'
    BY <1>2, <1>3, <1>4
  <2>5. cfg'.manter => Objeto' \in lr'.objetos
    BY <1>2, <1>4
  <2> QED BY <1>4, <2>1, <2>2, <2>3, <2>4, <2>5 DEF Sobra, NaEscrita
<1>5. CASE /\ pc' = "limpar" /\ lr' = lr /\ erro' = TRUE
           /\ UNCHANGED <<palco, sobrou>> \/ (palco' = palco \cup {Objeto} /\ sobrou' = TRUE)
  <2>1. \A o \in palco' : o.de <= execucao'
    BY <1>2, <1>3, <1>5
  <2>2. /\ res'.objetos \subseteq palco'
        /\ \A o \in res'.objetos : o.de = execucao' /\ o.tipo = "objeto" /\ cfg'.manter /\ o.n <= i' - Len(leva')
    BY <1>2, <1>3, <1>5
  <2>3. lr'.objetos = {}
    BY <1>2, <1>5
  <2>4. ~sobrou' => palco' = palco /\ ~sobrou
    BY <1>5
  <2>5. ~sobrou' => \A o \in palco' : o.de = execucao' => o \in res'.objetos
    BY <1>2, <1>3, <2>4
  <2>6. ~sobrou' => Objeto' \notin palco'
    BY <1>2, <2>5
  <2> QED BY <1>5, <2>1, <2>2, <2>3, <2>5, <2>6 DEF Sobra
<1> QED BY <1>4, <1>5, PreparaRedshift DEF IInv

\* what was sent is refused, or the wait is given up, and the Write goes on to its end
LEMMA PreparaTudo ==
  ASSUME IInv,
         \/ EscreverPostgres \/ EscreverMySQL \/ InserirBloco \/ EscreverArquivo
         \/ EscreverRedshift \/ CopiarRedshift \/ PrepararBigQuery \/ AnexarBigQuery
         \/ CriarTemporaria \/ EncherTemporaria \/ DesistirDeEsperar
  PROVE  IInv'
<1>1. Tipado /\ Repouso /\ Caminho /\ Leitura /\ Completa
  BY DEF IInv
<1>2. CASE EscreverRedshift
  BY <1>1, <1>2, PreparaRedshift, RedshiftEncena, PreparaMantem
<1>3. CASE \/ EscreverPostgres \/ EscreverMySQL \/ InserirBloco \/ EscreverArquivo \/ CopiarRedshift
           \/ PrepararBigQuery \/ AnexarBigQuery \/ CriarTemporaria \/ EncherTemporaria \/ DesistirDeEsperar
  <2>1. Prepara /\ Encena /\ Caminho'
    <3>1. CASE DesistirDeEsperar
      <4>1. /\ pc = "esperando" /\ Recusar /\ Falha
            /\ UNCHANGED <<cfg, i, leva, b, res, modo, existe, tabela, palco, historia, sobrou>>
            /\ servidor' \subseteq servidor
        BY <3>1 DEF DesistirDeEsperar, remotas
      <4> QED BY <4>1, <1>1, PreparaDesistencia
    <3> QED BY <1>1, <1>3, <3>1, PreparaPostgres, PreparaMySQL, PreparaBloco, PreparaArquivo, PreparaCopia,
            PreparaBigQuery, PreparaAnexo, PreparaTemporaria, PreparaEnchendo
  <2>2. Sobra'
    BY <2>1, EncenaMantem
  <2> QED BY <2>1, <2>2, PreparaMantem
<1> QED BY <1>2, <1>3

\* the server drops what nobody here waits for, or refuses what is waited for
LEMMA RejeitarMantem ==
  ASSUME IInv, Rejeitar
  PROVE  IInv'
<1>1. PICK j \in servidor :
        /\ servidor' = servidor \ {j}
        /\ IF MeuPedido(j) THEN Recusar ELSE UNCHANGED <<pc, erro, lr>>
        /\ UNCHANGED <<cfg, i, leva, b, res, modo, existe, tabela, palco, historia, falhas, sobrou>>
  BY DEF Rejeitar
<1>2. CASE MeuPedido(j)
  <2>1. /\ pc = "esperando" /\ Recusar /\ UNCHANGED falhas /\ servidor' \subseteq servidor
        /\ UNCHANGED <<cfg, i, leva, b, res, modo, existe, tabela, palco, historia, sobrou>>
    BY <1>1, <1>2 DEF MeuPedido
  <2>2. Prepara /\ Encena /\ Caminho'
    BY <2>1, PreparaDesistencia DEF IInv
  <2> QED BY <2>2, EncenaMantem, PreparaMantem
<1>3. CASE ~MeuPedido(j)
  <2>1. /\ UNCHANGED <<pc, erro, lr, cfg, i, leva, b, res, modo, existe, tabela, palco, execucao, desfecho,
                       gravadas, completou, falhas, sobrou>>
        /\ servidor' \subseteq servidor
    BY <1>1, <1>3 DEF historia
  <2>2. Tipado'
    <3>1. IsFiniteSet(servidor')
      BY <2>1, FS_Subset DEF IInv, Tipado
    <3> QED BY <2>1, <3>1 DEF IInv, Tipado, TypeOK
  <2>3. Repouso'
    BY <2>1 DEF IInv, Repouso
  <2>4. Leitura'
    BY <2>1 DEF IInv, Leitura, Lidas, Comeco
  <2>5. Caminho'
    BY <2>1 DEF IInv, Caminho, ModoVale, Mesclar
  <2>6. Posse'
    BY <2>1 DEF IInv, Posse, ModoVale, Mesclar, Pedido, LoteAGravar, Gravaveis
  <2>7. Conta'
    BY <2>1 DEF IInv, Conta, ContaLinhas, ResultadoConfere, Comeco, Lidas
  <2>8. Inteira'
    BY <2>1 DEF IInv, Inteira, Lidas, CargaInteira, NadaSumiu, NadaSumiuEm
  <2>9. Completa'
    BY <2>1 DEF IInv, Completa, Mesclar
  <2>10. SemDobra'
    BY <2>1 DEF IInv, SemDobra, Mesclar
  <2>11. Sobra'
    BY <2>1 DEF IInv, Sobra, Objeto, Temporaria
  <2> QED BY <2>2, <2>3, <2>4, <2>5, <2>6, <2>7, <2>8, <2>9, <2>10, <2>11 DEF IInv
<1> QED BY <1>2, <1>3

--------------------------------------------------------------------------------
(* The submission, the way out of a Write, and what the server does            *)

\* the statement or job is on the server, and is waited for
LEMMA SubmeterMantem ==
  ASSUME IInv, Submeter
  PROVE  IInv'
<1> PICK p : p = Pedido(modo)
  OBVIOUS
<1>1. /\ pc = "submeter" /\ pc' = "esperando" /\ servidor' = servidor \cup {p}
      /\ UNCHANGED <<cfg, i, leva, lr, erro, b, res, modo, existe, tabela, palco, execucao, desfecho,
                     gravadas, completou, falhas, sobrou>>
  BY DEF Submeter, Ir, historia
<1>2. /\ p.de = execucao /\ p.tipo = modo /\ p.lote = LoteAGravar
      /\ p.lote \in Gravaveis(cfg) /\ p.lote # <<>> /\ p.lote \in Seq(Linha)
  <2>1. p.de = execucao /\ p.tipo = modo /\ p.lote = LoteAGravar
    BY DEF Pedido
  <2>2. pc \in NaEscrita
    BY <1>1 DEF NaEscrita
  <2>3. LoteAGravar \in Gravaveis(cfg) /\ LoteAGravar # <<>> /\ LoteAGravar \in Seq(Linha)
    BY <2>2, DoLote DEF IInv
  <2> QED BY <2>1, <2>3
<1>3. execucao \in 1..MaxExecucoes /\ MaxExecucoes \in Nat /\ execucao \in Nat
  BY LimitesNaturais DEF IInv, Tipado, TypeOK
<1>4. p \in UmPedido
  <2>1. modo \in {"anexo", "mescla", "ignora"}
    BY DEF IInv, Tipado, TypeOK
  <2> PICK l \in Seq(Linha) : l = LoteAGravar
    BY <1>2
  <2>2. p = [de |-> execucao, tipo |-> modo, lote |-> l]
    BY DEF Pedido
  <2> QED BY <1>3, <2>1, <2>2 DEF UmPedido
<1>5. Tipado'
  <2>1. IsFiniteSet(servidor')
    BY <1>1, FS_AddElement DEF IInv, Tipado
  <2>2. servidor' \in SUBSET UmPedido /\ \A j \in servidor' : j.de \in 1..execucao
    <3>1. servidor \in SUBSET UmPedido /\ \A j \in servidor : j.de \in 1..execucao
      BY DEF IInv, Tipado, TypeOK
    <3>2. p.de \in 1..execucao
      BY <1>2, <1>3
    <3> QED BY <3>1, <3>2, <1>1, <1>4, Zenon
  <2> QED BY <1>1, <2>1, <2>2 DEF IInv, Tipado, TypeOK
<1>6. Repouso'
  BY <1>1 DEF IInv, Repouso, PorEscrever, PorEntrar
<1>7. Leitura'
  BY <1>1 DEF IInv, Leitura, Lidas, Comeco, NaEscrita
<1>8. Caminho'
  BY <1>1 DEF IInv, Caminho, ModoVale, Mesclar
<1>9. Posse'
  <2>1. ASSUME NEW j \in servidor'
        PROVE  /\ j.lote \in Gravaveis(cfg)' /\ j.lote # <<>> /\ ModoVale(j.tipo)' /\ j.de <= execucao'
               /\ j.de = execucao' => j = Pedido(modo)'
    <3>1. Gravaveis(cfg)' = Gravaveis(cfg) /\ (ModoVale(j.tipo)' <=> ModoVale(j.tipo)) /\ Pedido(modo)' = p
      BY <1>1 DEF Gravaveis, ModoVale, Mesclar, Pedido, LoteAGravar
    <3>2. CASE j = p
      <4>1. ModoVale(modo)
        BY <1>1 DEF IInv, Caminho
      <4> QED BY <3>1, <3>2, <4>1, <1>1, <1>2, <1>3
    <3>3. CASE j \in servidor
      <4>1. /\ j.lote \in Gravaveis(cfg) /\ j.lote # <<>> /\ ModoVale(j.tipo) /\ j.de <= execucao
            /\ j.de # execucao
        BY <3>3, <1>1 DEF IInv, Posse
      <4> QED BY <3>1, <4>1, <1>1
    <3> QED BY <3>2, <3>3, <1>1
  <2>2. existe'
    BY <1>1 DEF IInv, Caminho
  <2> QED BY <2>1, <2>2, <1>1 DEF Posse
<1>10. Conta'
  BY <1>1 DEF IInv, Conta, ContaLinhas, ResultadoConfere, Comeco, Lidas, PorEntrar, PorEscrever
<1>11. Inteira'
  BY <1>1 DEF IInv, Inteira, Lidas, CargaInteira, NadaSumiu, NadaSumiuEm
<1>12. Completa'
  BY <1>1, <1>2 DEF IInv, Completa, Mesclar
<1>13. SemDobra'
  BY <1>1 DEF IInv, SemDobra, Mesclar
<1>14. Sobra'
  BY <1>1 DEF IInv, Sobra, Objeto, Temporaria, NaEscrita, PorEntrar
<1> QED BY <1>5, <1>6, <1>7, <1>8, <1>9, <1>10, <1>11, <1>12, <1>13, <1>14 DEF IInv

\* the rows are in, and the temporary table of Redshift is dropped, or not
LEMMA DescartarMantem ==
  ASSUME IInv, DescartarRedshift
  PROVE  IInv'
<1>1. /\ pc = "descartar" /\ pc' = "limpar" /\ erro' \in BOOLEAN /\ falhas' \in 0..MaxFalhas
      /\ lr' \in UmResultado /\ lr'.objetos = lr.objetos
      /\ UNCHANGED <<cfg, i, leva, b, res, modo, existe, tabela, servidor, palco, execucao, desfecho,
                     gravadas, completou, sobrou>>
  <2>1. lr \in UmResultado /\ falhas \in 0..MaxFalhas /\ MaxFalhas \in Nat
    BY LimitesNaturais DEF IInv, Tipado, TypeOK
  <2>2. /\ pc = "descartar"
        /\ UNCHANGED <<cfg, i, leva, b, res, modo, existe, tabela, servidor, palco, execucao, desfecho,
                       gravadas, completou, sobrou>>
    BY DEF DescartarRedshift, remotas, historia
  <2>3. CASE Sair(FALSE, lr) /\ UNCHANGED falhas
    BY <2>1, <2>2, <2>3 DEF Sair
  <2>4. CASE Falha /\ Sair(TRUE, [lr EXCEPT !.linhas = 0])
    <3>1. [lr EXCEPT !.linhas = 0] \in UmResultado /\ [lr EXCEPT !.linhas = 0].objetos = lr.objetos
      BY <2>1 DEF UmResultado
    <3> QED BY <2>1, <2>2, <2>4, <3>1 DEF Sair, Falha
  <2> QED BY <2>3, <2>4 DEF DescartarRedshift
<1>2. cfg.destino = "redshift" /\ Mesclar /\ ~erro
  BY <1>1 DEF IInv, Caminho, Repouso
<1>3. Tipado'
  <2>1. {lr'.linhas, lr'.ignoradas} \subseteq Nat
    BY <1>1 DEF UmResultado
  <2> QED BY <1>1, <2>1 DEF IInv, Tipado, TypeOK
<1>4. Repouso'
  BY <1>1 DEF IInv, Repouso, PorEscrever, PorEntrar
<1>5. Leitura'
  BY <1>1 DEF IInv, Leitura, Lidas, Comeco, NaEscrita
<1>6. Caminho'
  BY <1>1 DEF IInv, Caminho, ModoVale, Mesclar
<1>7. Posse'
  BY <1>1 DEF IInv, Posse, ModoVale, Mesclar, Gravaveis
<1>8. Conta'
  BY <1>1, <1>2 DEF Conta, ContaLinhas, Mesclar
<1>9. Inteira'
  BY <1>1, <1>2 DEF IInv, Inteira, Lidas, CargaInteira, NadaSumiu, NadaSumiuEm
<1>10. Completa'
  BY <1>1 DEF IInv, Completa, Mesclar
<1>11. SemDobra'
  BY <1>1 DEF IInv, SemDobra, Mesclar
<1>12. Sobra'
  BY <1>1, <1>2 DEF IInv, Sobra, Objeto, Temporaria, NaEscrita, PorEntrar
<1> QED BY <1>3, <1>4, <1>5, <1>6, <1>7, <1>8, <1>9, <1>10, <1>11, <1>12 DEF IInv

\* the deferred removals of a Write
LEMMA LimparMantem ==
  ASSUME IInv, Limpar
  PROVE  IInv'
<1>1. /\ pc = "limpar" /\ pc' = "devolver"
      /\ UNCHANGED <<cfg, i, leva, lr, erro, b, res, modo, existe, tabela, servidor, execucao, desfecho,
                     gravadas, completou>>
  BY DEF Limpar, Ir, historia
<1>2. /\ palco' \subseteq palco /\ palco \ ARemover \subseteq palco'
      /\ sobrou' \in BOOLEAN /\ (sobrou => sobrou') /\ (~sobrou' => palco' = palco \ ARemover)
      /\ falhas' \in 0..MaxFalhas
  <2>1. sobrou \in BOOLEAN /\ falhas \in 0..MaxFalhas /\ MaxFalhas \in Nat
    BY LimitesNaturais DEF IInv, Tipado, TypeOK
  <2>2. CASE palco' = palco \ ARemover /\ UNCHANGED <<falhas, sobrou>>
    BY <2>1, <2>2
  <2>3. CASE Falha /\ sobrou' = TRUE /\ UNCHANGED palco
    BY <2>1, <2>3 DEF Falha
  <2> QED BY <2>2, <2>3 DEF Limpar
<1>3. Tipado'
  BY <1>1, <1>2 DEF IInv, Tipado, TypeOK
<1>4. Repouso'
  BY <1>1 DEF IInv, Repouso, PorEscrever, PorEntrar
<1>5. Leitura'
  BY <1>1 DEF IInv, Leitura, Lidas, Comeco, NaEscrita
<1>6. Caminho'
  BY <1>1 DEF IInv, Caminho, ModoVale, Mesclar
<1>7. Posse'
  BY <1>1 DEF IInv, Posse, ModoVale, Mesclar, Gravaveis
<1>8. Conta'
  BY <1>1 DEF IInv, Conta, ContaLinhas, ResultadoConfere, Comeco, Lidas, PorEntrar, PorEscrever
<1>9. Inteira'
  BY <1>1 DEF IInv, Inteira, Lidas, CargaInteira, NadaSumiu, NadaSumiuEm
<1>10. Completa'
  BY <1>1 DEF IInv, Completa, Mesclar
<1>11. SemDobra'
  BY <1>1 DEF IInv, SemDobra, Mesclar
<1>12. Sobra'
  <2>1. /\ Objeto' = Objeto /\ Temporaria' = Temporaria /\ Objeto # Temporaria /\ Temporaria.tipo = "tabela"
        /\ Objeto \notin res.objetos /\ Temporaria \notin res.objetos
    <3>1. pc \in NaEscrita
      BY <1>1 DEF NaEscrita
    <3>2. Objeto' = Objeto /\ Temporaria' = Temporaria /\ Objeto # Temporaria /\ Temporaria.tipo = "tabela"
      BY <1>1 DEF Objeto, Temporaria
    <3> QED BY <3>1, <3>2, ObjetoNovo
  <2>2. /\ ARemover \subseteq {Objeto, Temporaria} /\ palco \cap {Temporaria} \subseteq ARemover
        /\ Objeto \in ARemover => ~(cfg.manter /\ (cfg.destino = "redshift" \/ ~erro))
        /\ Objeto \in palco \ ARemover => cfg.manter /\ (cfg.destino = "redshift" \/ ~erro)
    BY <2>1 DEF ARemover
  <2>3. \A o \in palco' : o.de <= execucao'
    BY <1>1, <1>2 DEF IInv, Sobra
  <2>4. /\ res'.objetos \subseteq palco'
        /\ \A o \in res'.objetos :
             o.de = execucao' /\ o.tipo = "objeto" /\ cfg'.manter /\ o.n <= i' - Len(leva')
    <3>1. /\ res.objetos \subseteq palco
          /\ \A o \in res.objetos : o.de = execucao /\ o.tipo = "objeto" /\ cfg.manter /\ o.n <= i - Len(leva)
      BY <1>1 DEF IInv, Sobra
    <3> QED BY <3>1, <2>1, <2>2, <1>1, <1>2
  <2>5. /\ lr'.objetos \subseteq palco' \cap {Objeto'}
        /\ lr'.objetos # {} => cfg'.manter /\ (cfg'.destino = "redshift" \/ (pc' \notin PorEntrar /\ ~erro'))
    <3>1. /\ lr.objetos \subseteq palco \cap {Objeto}
          /\ lr.objetos # {} => cfg.manter /\ (cfg.destino = "redshift" \/ ~erro)
      BY <1>1 DEF IInv, Sobra
    <3>2. pc' \notin PorEntrar
      BY <1>1 DEF PorEntrar, PorEscrever
    <3> QED BY <3>1, <3>2, <2>1, <2>2, <1>1, <1>2
  <2>6. /\ ~sobrou /\ cfg.manter /\ Objeto \in palco /\ (cfg.destino = "redshift" \/ ~erro)
        => Objeto \in lr.objetos
    BY <1>1 DEF IInv, Sobra, NaEscrita, PorEntrar, PorEscrever
  <2>7. ~sobrou' /\ desfecho' # "morto" => \A o \in palco' : o.de = execucao' => o \in res'.objetos \cup lr'.objetos
    <3>1. SUFFICES ASSUME ~sobrou', desfecho' # "morto", NEW o \in palco', o.de = execucao'
                   PROVE  o \in res'.objetos \cup lr'.objetos
      OBVIOUS
    <3>2. ~sobrou /\ palco' = palco \ ARemover /\ o \in palco /\ o \notin ARemover /\ desfecho # "morto"
      BY <3>1, <1>1, <1>2
    <3>3. o \in res.objetos \cup lr.objetos \/ o \in {Objeto, Temporaria}
      BY <3>1, <3>2, <1>1 DEF IInv, Sobra
    <3>4. CASE o = Objeto
      BY <3>2, <3>4, <2>2, <2>6, <1>1
    <3>5. CASE o = Temporaria
      BY <3>2, <3>5, <2>2
    <3> QED BY <3>3, <3>4, <3>5, <1>1
  <2>8. ~sobrou' /\ cfg'.manter /\ Objeto' \in palco' /\ (cfg'.destino = "redshift" \/ ~erro')
        => Objeto' \in lr'.objetos
    BY <2>1, <2>6, <1>1, <1>2
  <2> QED BY <1>1, <2>3, <2>4, <2>5, <2>7, <2>8 DEF Sobra
<1> QED BY <1>3, <1>4, <1>5, <1>6, <1>7, <1>8, <1>9, <1>10, <1>11, <1>12 DEF IInv

\* what landing does to the table, and to the Write that waits for it
LEMMA DoPouso ==
  ASSUME IInv, NEW j \in servidor, NEW d, d = Len(Efeito(j)) - Len(tabela), tabela' = Efeito(j)
  PROVE  /\ tabela' \in Seq(Linha) /\ d \in Nat /\ d <= Len(j.lote) /\ Len(j.lote) \in Nat
         /\ Ids(tabela') = Ids(tabela) \cup Ids(j.lote)
         /\ j.tipo = "anexo" => d = Len(j.lote)
         /\ Ids(j.lote) \subseteq Ids(Passam(cfg))
         /\ cfg.destino # "redshift" => \A k \in DOMAIN j.lote : Inteiro(j.lote[k])
         /\ \A k \in DOMAIN tabela' :
              (\E m \in DOMAIN tabela : tabela'[k] = tabela[m]) \/ (\E m \in DOMAIN j.lote : tabela'[k] = j.lote[m])
         /\ (cfg.destino \in {"postgres", "mysql"} /\ Mesclar) /\ Diferentes(tabela) => Diferentes(tabela')
         /\ j.tipo # "anexo" /\ Ids(j.lote) \subseteq Ids(tabela) => tabela' = tabela
<1>1. Tipado /\ ModoVale(j.tipo) /\ j.lote \in Gravaveis(cfg) /\ cfg \in Pedidos /\ i \in 0..Len(cfg.fonte)
  BY DEF IInv, Posse, Tipado, TypeOK
<1> PICK t : t = Efeito(j)
  OBVIOUS
<1>2. /\ Acrescentou(Linha, tabela, j.lote, t)
      /\ Ids(t) = Ids(tabela) \cup Ids(j.lote)
      /\ j.tipo = "anexo" => Len(t) = Len(tabela) + Len(j.lote)
      /\ j.tipo # "anexo" /\ Ids(j.lote) \subseteq Ids(tabela) => t = tabela
      /\ j.tipo = "ignora" /\ Diferentes(tabela) => Diferentes(t)
  BY <1>1, DoEfeito
<1>3. /\ t \in Seq(Linha) /\ {Len(tabela), Len(t), Len(j.lote)} \subseteq Nat
      /\ Len(tabela) <= Len(t) /\ Len(t) <= Len(tabela) + Len(j.lote)
      /\ \A k \in DOMAIN t : (\E m \in DOMAIN tabela : t[k] = tabela[m]) \/ (\E m \in DOMAIN j.lote : t[k] = j.lote[m])
  BY <1>2 DEF Acrescentou
<1>4. d \in Nat /\ d <= Len(j.lote) /\ (j.tipo = "anexo" => d = Len(j.lote))
  <2>1. d = Len(t) - Len(tabela)
    OBVIOUS
  <2> QED BY <2>1, <1>2, <1>3
<1>5. /\ Ids(j.lote) \subseteq Ids(Passam(cfg))
      /\ cfg.destino # "redshift" => \A k \in DOMAIN j.lote : Inteiro(j.lote[k])
  BY <1>1, DosGravaveis
<1>6. cfg.destino \in {"postgres", "mysql"} /\ Mesclar => j.tipo = "ignora"
  <2>1. j.tipo \in {"anexo", "mescla", "ignora"}
    BY <1>1 DEF Tipado, UmPedido
  <2> QED BY <2>1, <1>1 DEF ModoVale
<1> QED BY <1>2, <1>3, <1>4, <1>5, <1>6

\* the numbers reported for a batch that put d rows in
LEMMA DaContagem ==
  ASSUME IInv, pc = "esperando", NEW d \in Nat, d <= Len(leva)
  PROVE  /\ Contagem(d) \in UmResultado
         /\ Contagem(d).objetos = IF cfg.manter THEN palco \cap {Objeto} ELSE {}
         /\ cfg.destino # "redshift" \/ d = Len(leva) => Contagem(d).linhas = d
         /\ (modo = "anexo" => Contagem(d).linhas = Len(leva)) => Contagem(d).linhas + Contagem(d).ignoradas = Len(leva)
<1>1. Len(leva) \in Nat /\ palco \in SUBSET Coisa
  BY LenProperties DEF IInv, Tipado
<1>n. PICK n \in Nat : n = IF cfg.destino = "redshift" THEN Len(leva) ELSE d
  BY <1>1
<1>2. n <= Len(leva) /\ Len(leva) - n \in Nat
  BY <1>1, <1>n
<1>g. PICK g \in Nat : g = IF modo = "anexo" THEN 0 ELSE Len(leva) - n
  BY <1>2
<1> PICK O \in SUBSET Coisa : O = IF cfg.manter THEN palco \cap {Objeto} ELSE {}
  BY <1>1
<1>3. Contagem(d) = [linhas |-> n, ignoradas |-> g, objetos |-> O]
  BY <1>n, <1>g DEF Contagem
<1>4. Contagem(d) \in UmResultado /\ Contagem(d).linhas = n /\ Contagem(d).ignoradas = g /\ Contagem(d).objetos = O
  BY <1>3 DEF UmResultado
<1>5. cfg.destino # "redshift" \/ d = Len(leva) => n = d
  BY <1>n
<1>6. (modo = "anexo" => n = Len(leva)) => n + g = Len(leva)
  BY <1>1, <1>2, <1>g
<1> QED BY <1>4, <1>5, <1>6

\* the table keeps what it had, and has what landed
LEMMA AterrissarMantem ==
  ASSUME IInv, Aterrissar
  PROVE  IInv'
<1>1. PICK j \in servidor :
        /\ servidor' = servidor \ {j} /\ tabela' = Efeito(j)
        /\ IF MeuPedido(j)
           THEN /\ lr' = Contagem(Len(Efeito(j)) - Len(tabela))
                /\ gravadas' = gravadas + Len(Efeito(j)) - Len(tabela)
                /\ Ir(IF cfg.destino = "redshift" /\ modo = "mescla" THEN "descartar" ELSE "limpar")
           ELSE UNCHANGED <<lr, gravadas, pc>>
        /\ UNCHANGED <<cfg, i, leva, erro, b, res, modo, existe, palco, execucao, desfecho, completou, falhas, sobrou>>
  BY DEF Aterrissar
<1> PICK d : d = Len(Efeito(j)) - Len(tabela)
  OBVIOUS
<1>2. /\ tabela' \in Seq(Linha) /\ d \in Nat /\ d <= Len(j.lote) /\ Len(j.lote) \in Nat
      /\ Ids(tabela') = Ids(tabela) \cup Ids(j.lote)
      /\ j.tipo = "anexo" => d = Len(j.lote)
      /\ cfg.destino # "redshift" => \A k \in DOMAIN j.lote : Inteiro(j.lote[k])
      /\ \A k \in DOMAIN tabela' :
           (\E m \in DOMAIN tabela : tabela'[k] = tabela[m]) \/ (\E m \in DOMAIN j.lote : tabela'[k] = j.lote[m])
      /\ (cfg.destino \in {"postgres", "mysql"} /\ Mesclar) /\ Diferentes(tabela) => Diferentes(tabela')
  BY <1>1, DoPouso
<1>3. Ids(tabela) \subseteq Ids(tabela)' /\ Ids(tabela)' = Ids(tabela')
  BY <1>2 DEF Ids
<1>4. /\ UNCHANGED <<cfg, i, leva, erro, b, res, modo, existe, palco, execucao, desfecho, completou, falhas, sobrou>>
      /\ servidor' = servidor \ {j} /\ Lidas' = Lidas /\ Comeco' = Comeco /\ Passam(cfg)' = Passam(cfg)
      /\ Quebra(cfg)' = Quebra(cfg) /\ Objeto' = Objeto /\ Temporaria' = Temporaria
  BY <1>1 DEF Lidas, Comeco, Passam, Registros, NoCaminho, Quebra, Objeto, Temporaria
<1> DEFINE Minha ==
             /\ pc = "esperando" /\ j = Pedido(modo) /\ ~erro
             /\ pc' = (IF cfg.destino = "redshift" /\ modo = "mescla" THEN "descartar" ELSE "limpar")
             /\ lr' = Contagem(d) /\ gravadas' = gravadas + d /\ Ids(leva) \subseteq Ids(tabela)'
             /\ Len(j.lote) = Len(leva) /\ Len(leva) \in Nat /\ j.de = execucao /\ j.tipo = modo
           Alheia == UNCHANGED <<lr, gravadas, pc>> /\ (pc = "esperando" => j.de # execucao)
<1>5. Minha \/ Alheia
  <2>1. CASE MeuPedido(j)
    <3>1. pc = "esperando" /\ j.de = execucao
      BY <2>1 DEF MeuPedido
    <3>2. j = Pedido(modo) /\ ~erro
      BY <3>1 DEF IInv, Posse, Repouso, PorEntrar, PorEscrever
    <3>3. j.lote = LoteAGravar /\ j.tipo = modo
      BY <3>2 DEF Pedido
    <3>4. Len(LoteAGravar) = Len(leva) /\ Ids(LoteAGravar) = Ids(leva) /\ Len(leva) \in Nat
      <4>1. pc \in NaEscrita
        BY <3>1 DEF NaEscrita
      <4> QED BY <4>1, DoLote DEF IInv
    <3>5. Ids(leva) \subseteq Ids(tabela)'
      BY <3>3, <3>4, <1>2, <1>3
    <3>6. gravadas' = gravadas + d
      <4>1. gravadas \in Nat /\ Len(Efeito(j)) \in Nat /\ Len(tabela) \in Nat
        BY <1>1, <1>2, LenProperties DEF IInv, Tipado, TypeOK
      <4> QED BY <4>1, <1>1, <2>1
    <3>7. lr' = Contagem(d)
      BY <1>1, <2>1
    <3>8. pc' = (IF cfg.destino = "redshift" /\ modo = "mescla" THEN "descartar" ELSE "limpar")
      BY <1>1, <2>1 DEF Ir
    <3> QED BY <3>1, <3>2, <3>3, <3>4, <3>5, <3>6, <3>7, <3>8
  <2>2. CASE ~MeuPedido(j)
    BY <2>2, <1>1 DEF MeuPedido
  <2> QED BY <2>1, <2>2
<1>6. Minha =>
        /\ lr' \in UmResultado
        /\ lr'.objetos = IF cfg.manter THEN palco \cap {Objeto} ELSE {}
        /\ cfg.destino # "redshift" \/ d = Len(leva) => lr'.linhas = d
        /\ (modo = "anexo" => lr'.linhas = Len(leva)) => lr'.linhas + lr'.ignoradas = Len(leva)
        /\ modo = "anexo" => d = Len(leva)
        /\ pc' \in {"descartar", "limpar"} /\ (pc' = "descartar" => cfg.destino = "redshift" /\ modo = "mescla")
  BY <1>2, DaContagem
<1>7. lr' \in UmResultado /\ gravadas' \in Nat
  <2>1. lr \in UmResultado /\ gravadas \in Nat
    BY DEF IInv, Tipado, TypeOK
  <2> QED BY <2>1, <1>2, <1>5, <1>6
<1> HIDE DEF Minha, Alheia
<1>8. Tipado'
  <2>1. IsFiniteSet(servidor')
    BY <1>4, FS_Subset DEF IInv, Tipado
  <2>2. {lr'.linhas, lr'.ignoradas} \subseteq Nat
    BY <1>7 DEF UmResultado
  <2>3. pc' \in {"descartar", "limpar"} \/ pc' = pc
    BY <1>5, <1>6 DEF Alheia
  <2>4. tabela' \in Seq(Linha)
    BY <1>2
  <2>5. /\ UNCHANGED <<cfg, i, leva, erro, b, res, modo, existe, palco, execucao, desfecho, completou, falhas, sobrou>>
        /\ servidor' \subseteq servidor
    BY <1>4
  <2>6. pc' \in {"verificar", "lendo", "escrever", "bloco", "copiar", "anexar", "temporaria", "encher",
                 "submeter", "esperando", "descartar", "limpar", "devolver", "fim"}
    BY <2>3 DEF IInv, Tipado, TypeOK
  <2>7. TypeOK'
    BY <1>7, <2>2, <2>5, <2>6 DEF IInv, Tipado, TypeOK
  <2> QED BY <1>7, <2>1, <2>4, <2>5, <2>7 DEF IInv, Tipado
<1>9. Repouso'
  BY <1>4, <1>5, <1>6 DEF Minha, Alheia, IInv, Repouso, PorEscrever, PorEntrar
<1>10. Leitura'
  BY <1>4, <1>5, <1>6 DEF Minha, Alheia, IInv, Leitura, NaEscrita
<1>11. Caminho'
  <2>1. CASE Minha
    <3>1. existe /\ ModoVale(modo) /\ (cfg.existe => existe)
      BY <2>1 DEF Minha, IInv, Caminho
    <3> QED BY <2>1, <3>1, <1>4, <1>6 DEF Caminho, ModoVale, Mesclar
  <2>2. CASE Alheia
    BY <2>2, <1>4 DEF Alheia, IInv, Caminho, ModoVale, Mesclar
  <2> QED BY <1>5, <2>1, <2>2
<1>12. Posse'
  <2>1. existe'
    BY <1>4 DEF IInv, Posse
  <2>2. ASSUME NEW k \in servidor'
        PROVE  /\ k.lote \in Gravaveis(cfg)' /\ k.lote # <<>> /\ ModoVale(k.tipo)' /\ k.de <= execucao'
               /\ k.de = execucao' =>
                    \/ pc' = "esperando" /\ k = Pedido(modo)'
                    \/ pc' \in {"limpar", "devolver"} /\ erro'
                    \/ pc' = "fim" /\ desfecho' \in {"erro", "morto"}
    <3>1. k \in servidor /\ k # j
      BY <1>4
    <3>2. /\ Gravaveis(cfg)' = Gravaveis(cfg) /\ (ModoVale(k.tipo)' <=> ModoVale(k.tipo)) /\ Pedido(modo)' = Pedido(modo)
          /\ cfg' = cfg /\ execucao' = execucao /\ erro' = erro /\ desfecho' = desfecho
      BY <1>4 DEF Gravaveis, ModoVale, Mesclar, Pedido, LoteAGravar
    <3>3. /\ k.lote \in Gravaveis(cfg) /\ k.lote # <<>> /\ ModoVale(k.tipo) /\ k.de <= execucao
          /\ k.de = execucao =>
               \/ pc = "esperando" /\ k = Pedido(modo)
               \/ pc \in {"limpar", "devolver"} /\ erro
               \/ pc = "fim" /\ desfecho \in {"erro", "morto"}
      BY <3>1 DEF IInv, Posse
    <3>4. CASE Minha
      BY <3>1, <3>2, <3>3, <3>4 DEF Minha
    <3>5. CASE Alheia
      BY <3>2, <3>3, <3>5 DEF Alheia
    <3> QED BY <1>5, <3>4, <3>5
  <2> QED BY <2>1, <2>2 DEF Posse
<1>13. Conta'
  <2>1. CASE Minha
    <3>1. desfecho' = "nenhum" /\ ContaLinhas' = ContaLinhas
      BY <2>1, <1>4 DEF Minha, IInv, Repouso, ContaLinhas
    <3>2. ResultadoConfere'
      BY <3>1 DEF ResultadoConfere
    <3>3. ContaLinhas => (cfg.destino = "redshift" => modo = "anexo")
      <4>1. ModoVale(modo) /\ modo \in {"anexo", "mescla", "ignora"}
        BY <2>1 DEF Minha, IInv, Caminho, Tipado, TypeOK
      <4> QED BY <4>1 DEF ContaLinhas, ModoVale, Mesclar
    <3>4. ContaLinhas => lr'.linhas = d /\ lr'.linhas + lr'.ignoradas = Len(leva)
      BY <2>1, <3>3, <1>6
    <3>5. ContaLinhas => res.linhas = gravadas /\ res.linhas + res.ignoradas = Comeco
      BY <2>1 DEF Minha, IInv, Conta, PorEntrar
    <3>6. pc' \notin PorEntrar /\ pc' # "devolver" /\ ~erro' /\ gravadas' = gravadas + d
      BY <2>1, <1>4, <1>6 DEF Minha, PorEntrar, PorEscrever
    <3>7. pc' = "descartar" => ~ContaLinhas
      <4>1. ModoVale(modo)
        BY <2>1 DEF Minha, IInv, Caminho
      <4> QED BY <2>1, <4>1, <1>6 DEF ContaLinhas, ModoVale, Mesclar
    <3> QED BY <3>1, <3>2, <3>4, <3>5, <3>6, <3>7, <1>4 DEF Conta
  <2>2. CASE Alheia
    BY <2>2, <1>4 DEF Alheia, IInv, Conta, ContaLinhas, ResultadoConfere
  <2> QED BY <1>5, <2>1, <2>2
<1>14. Inteira'
  <2>1. CargaInteira'
    BY <1>3, <1>4 DEF IInv, Inteira, CargaInteira
  <2>2. NadaSumiu'
    <3>1. SUFFICES ASSUME cfg.destino # "redshift", NEW k \in DOMAIN tabela' PROVE Inteiro(tabela'[k])
      BY <1>4 DEF NadaSumiu, NadaSumiuEm, Inteiro
    <3>2. cfg.destino \in {"bigquery", "postgres", "mysql", "files"}
      BY <3>1, DoPedido DEF IInv, Tipado, TypeOK
    <3>3. \A m \in DOMAIN tabela : Inteiro(tabela[m])
      BY <3>2 DEF IInv, Inteira, NadaSumiu, NadaSumiuEm, Inteiro
    <3> QED BY <3>1, <3>3, <1>2
  <2>3. pc' # "fim" => Ids(Lidas)' \subseteq Ids(tabela)' \cup Ids(leva)'
    <3>1. Ids(Lidas)' = Ids(Lidas) /\ Ids(leva)' = Ids(leva)
      BY <1>4 DEF Ids
    <3>2. pc # "fim" \/ pc' = "fim"
      BY <1>5 DEF Minha, Alheia
    <3> QED BY <3>1, <3>2, <1>3 DEF IInv, Inteira
  <2>4. pc' \in {"descartar", "limpar", "devolver"} /\ ~erro' => Ids(leva)' \subseteq Ids(tabela)'
    <3>1. Ids(leva)' = Ids(leva)
      BY <1>4 DEF Ids
    <3> QED BY <3>1, <1>3, <1>4, <1>5 DEF Minha, Alheia, IInv, Inteira
  <2> QED BY <2>1, <2>2, <2>3, <2>4 DEF Inteira
<1>15. Completa'
  <2>1. Ids(Passam(cfg))' = Ids(Passam(cfg))
    BY <1>4 DEF Ids
  <2> QED BY <2>1, <1>3, <1>4, <1>5, <1>6 DEF Minha, Alheia, IInv, Completa, Mesclar
<1>16. SemDobra'
  BY <1>2, <1>4 DEF IInv, SemDobra, Mesclar, Diferentes
<1>17. Sobra'
  <2>1. CASE Minha
    <3>1. /\ pc \in NaEscrita /\ pc \in NaEscrita \ {"escrever", "devolver"} /\ pc # "fim"
          /\ pc' \in NaEscrita \ {"escrever", "devolver"} /\ pc' # "fim" /\ pc' \notin PorEntrar
          /\ lr'.objetos = (IF cfg.manter THEN palco \cap {Objeto} ELSE {}) /\ ~erro'
      BY <2>1, <1>4, <1>6 DEF Minha, NaEscrita, PorEntrar, PorEscrever
    <3>2. /\ lr.objetos \subseteq palco \cap {Objeto}
          /\ lr.objetos # {} => cfg.manter
      BY DEF IInv, Sobra
    <3>3. /\ \A o \in palco : o.de <= execucao
          /\ res.objetos \subseteq palco
          /\ \A o \in res.objetos : o.de = execucao /\ o.tipo = "objeto" /\ cfg.manter /\ o.n <= i - Len(leva)
          /\ ~sobrou /\ desfecho # "morto" =>
               \A o \in palco : o.de = execucao => o \in res.objetos \/ o \in {Objeto, Temporaria}
      BY <3>1, <3>2 DEF IInv, Sobra
    <3> QED BY <3>1, <3>3, <1>4 DEF Sobra
  <2>2. CASE Alheia
    BY <2>2, <1>4 DEF Alheia, IInv, Sobra
  <2> QED BY <1>5, <2>1, <2>2
<1> QED BY <1>8, <1>9, <1>10, <1>11, <1>12, <1>13, <1>14, <1>15, <1>16, <1>17 DEF IInv

--------------------------------------------------------------------------------
(* The front: the check, the reading, and the end                              *)

\* a sequence of rows with no ids has no rows
LEMMA SemIds ==
  ASSUME NEW l \in Seq(Linha), Ids(l) = {}
  PROVE  l = <<>>
<1>1. \A n \in DOMAIN l : l[n].id \in Ids(l)
  BY DEF Ids
<1>2. Len(l) = 0
  <2>1. DOMAIN l = 1..Len(l) /\ Len(l) \in Nat
    BY LenProperties
  <2>2. \A n \in 1..Len(l) : FALSE
    BY <1>1, <2>1
  <2> QED BY <2>1, <2>2
<1> QED BY <1>2, EmptySeq

\* an execution that ends with nothing in hand, before a Write or between two
LEMMA EncerraMantem ==
  ASSUME IInv, pc \in {"verificar", "lendo"}, pc' = "fim", desfecho' \in {"erro", "ensaio"},
         UNCHANGED <<cfg, i, lr, erro, b, res, modo, existe, tabela, servidor, palco, execucao, gravadas,
                     completou, sobrou>>,
         leva' = leva \/ leva' = <<>>, falhas' \in 0..MaxFalhas
  PROVE  IInv'
<1>1. /\ pc # "fim" /\ desfecho = "nenhum" /\ lr = SemResultado /\ b = 0 /\ ~erro
      /\ leva \in Seq(Linha) /\ Len(leva) \in Nat /\ i \in Nat /\ lr.objetos = {}
  BY DaFonte, LenProperties DEF IInv, Tipado, TypeOK, Repouso, PorEscrever, PorEntrar, SemResultado
<1>2. leva' \in Seq(Linha) /\ Len(leva') <= i /\ b \in 0..Len(leva')
  <2>1. <<>> \in Seq(Linha) /\ Len(<<>>) = 0
    BY EmptySeq
  <2>2. Len(leva) <= i
    BY DEF IInv, Tipado, TypeOK
  <2>3. CASE leva' = leva
    BY <2>2, <2>3, <1>1
  <2>4. CASE leva' = <<>>
    BY <2>1, <2>4, <1>1
  <2> QED BY <2>3, <2>4
<1>3. Tipado'
  BY <1>1, <1>2 DEF IInv, Tipado, TypeOK
<1>4. Repouso'
  BY <1>1 DEF IInv, Repouso, PorEscrever, PorEntrar
<1>5. Leitura'
  BY DEF IInv, Leitura, NaEscrita
<1>6. Caminho'
  BY DEF IInv, Caminho, ModoVale, Mesclar
<1>7. Posse'
  <2>1. \A j \in servidor : j.de # execucao
    BY <1>1 DEF IInv, Posse
  <2> QED BY <2>1 DEF IInv, Posse, ModoVale, Mesclar, Gravaveis
<1>8. Conta'
  <2>1. ContaLinhas => res.linhas = gravadas
    BY DEF IInv, Conta, PorEntrar, PorEscrever
  <2>2. gravadas \in Nat
    BY DEF IInv, Tipado, TypeOK
  <2>3. pc' \notin PorEntrar
    BY DEF PorEntrar, PorEscrever
  <2> QED BY <2>1, <2>2, <2>3 DEF Conta, ContaLinhas, ResultadoConfere
<1>9. Inteira'
  BY DEF IInv, Inteira, CargaInteira, NadaSumiu, NadaSumiuEm
<1>10. Completa'
  BY DEF IInv, Completa, Mesclar
<1>11. SemDobra'
  BY DEF IInv, SemDobra, Mesclar
<1>12. Sobra'
  <2>1. /\ \A o \in palco : o.de <= execucao
        /\ res.objetos \subseteq palco
        /\ \A o \in res.objetos : o.de = execucao /\ o.tipo = "objeto" /\ cfg.manter
        /\ ~sobrou => \A o \in palco : o.de = execucao => o \in res.objetos
    BY <1>1 DEF IInv, Sobra, NaEscrita
  <2> QED BY <2>1, <1>1 DEF Sobra, NaEscrita
<1> QED BY <1>3, <1>4, <1>5, <1>6, <1>7, <1>8, <1>9, <1>10, <1>11, <1>12 DEF IInv

\* the declaration is checked, a dry run ends, a source breaks (pipeline.go)
LEMMA VerificarMantem ==
  ASSUME IInv, VerificarDestino \/ Ensaiar \/ ErroDaFonte
  PROVE  IInv'
<1>1. falhas \in 0..MaxFalhas /\ MaxFalhas \in Nat /\ completou \in BOOLEAN
  BY LimitesNaturais DEF IInv, Tipado, TypeOK
<1>2. CASE Ensaiar \/ ErroDaFonte
  <2>1. /\ pc = "lendo" /\ pc' = "fim" /\ desfecho' \in {"erro", "ensaio"} /\ UNCHANGED falhas
        /\ UNCHANGED <<cfg, i, lr, erro, b, res, modo, existe, tabela, servidor, palco, execucao, gravadas, sobrou>>
        /\ leva' = leva \/ leva' = <<>>
    BY <1>2 DEF Ensaiar, ErroDaFonte, Terminar, remotas
  <2>2. UNCHANGED completou
    BY <1>1, <1>2 DEF Ensaiar, ErroDaFonte, Terminar
  <2> QED BY <2>1, <2>2, <1>1, EncerraMantem
<1>3. CASE VerificarDestino /\ Terminar("erro")
  <2>1. /\ pc = "verificar" /\ pc' = "fim" /\ desfecho' = "erro"
        /\ UNCHANGED <<cfg, i, lr, erro, b, res, modo, existe, tabela, servidor, palco, execucao, gravadas, sobrou, leva>>
    BY <1>3 DEF VerificarDestino, Terminar, remotas
  <2>2. UNCHANGED completou
    BY <1>1, <1>3 DEF Terminar
  <2>3. falhas' \in 0..MaxFalhas
    <3>1. UNCHANGED falhas \/ Falha
      BY <1>3 DEF VerificarDestino
    <3> QED BY <3>1, <1>1 DEF Falha
  <2> QED BY <2>1, <2>2, <2>3, EncerraMantem
<1>4. CASE VerificarDestino /\ Ir("lendo") /\ UNCHANGED <<historia, falhas>>
  <2>1. /\ pc = "verificar" /\ pc' = "lendo"
        /\ UNCHANGED <<cfg, i, leva, lr, erro, b, res, modo, existe, tabela, servidor, palco, execucao, gravadas,
                       desfecho, completou, falhas, sobrou>>
    BY <1>4 DEF VerificarDestino, Ir, remotas, historia
  <2>2. /\ i = 0 /\ leva = <<>> /\ Len(leva) = 0
    BY <2>1 DEF IInv, Repouso
  <2>3. Tipado'
    BY <2>1 DEF IInv, Tipado, TypeOK
  <2>4. Repouso'
    BY <2>1 DEF IInv, Repouso, PorEscrever, PorEntrar
  <2>5. Leitura'
    <3>1. cfg.flush \in Nat
      BY DoPedido DEF IInv, Tipado, TypeOK
    <3> QED BY <2>1, <2>2, <3>1 DEF IInv, Leitura, Lidas, Comeco, NaEscrita
  <2>6. Caminho'
    BY <2>1 DEF IInv, Caminho, ModoVale, Mesclar
  <2>7. Posse'
    BY <2>1 DEF IInv, Posse, ModoVale, Mesclar, Gravaveis
  <2>8. Conta'
    BY <2>1 DEF IInv, Conta, ContaLinhas, ResultadoConfere, Comeco, Lidas, PorEntrar, PorEscrever
  <2>9. Inteira'
    BY <2>1 DEF IInv, Inteira, Lidas, CargaInteira, NadaSumiu, NadaSumiuEm
  <2>10. Completa'
    BY <2>1 DEF IInv, Completa, Mesclar
  <2>11. SemDobra'
    BY <2>1 DEF IInv, SemDobra, Mesclar
  <2>12. Sobra'
    BY <2>1 DEF IInv, Sobra, Objeto, Temporaria, NaEscrita, PorEntrar, PorEscrever
  <2> QED BY <2>3, <2>4, <2>5, <2>6, <2>7, <2>8, <2>9, <2>10, <2>11, <2>12 DEF IInv
<1>5. VerificarDestino => (Ir("lendo") /\ UNCHANGED <<historia, falhas>>) \/ Terminar("erro")
  BY DEF VerificarDestino
<1> QED BY <1>2, <1>3, <1>4, <1>5

\* the source is over: what is in hand is written, or everything has been
LEMMA FimMantem ==
  ASSUME IInv, FimDaLeitura
  PROVE  IInv'
<1>1. /\ pc = "lendo" /\ i = Len(cfg.fonte) /\ cfg \in Pedidos /\ leva \in Seq(Linha)
      /\ UNCHANGED <<cfg, i, leva, lr, erro, b, res, modo, existe, tabela, servidor, palco, falhas, sobrou>>
      /\ Lidas = Passam(cfg) /\ i \in 0..Len(cfg.fonte)
      /\ Lidas' = Lidas /\ Comeco' = Comeco /\ Objeto.de = execucao
  <2>1. /\ pc = "lendo" /\ i = Len(cfg.fonte) /\ cfg \in Pedidos /\ i \in 0..Len(cfg.fonte) /\ leva \in Seq(Linha)
        /\ UNCHANGED <<cfg, i, leva, lr, erro, b, res, modo, existe, tabela, servidor, palco, falhas, sobrou>>
    BY DEF FimDaLeitura, remotas, IInv, Tipado, TypeOK
  <2>2. Lidas = Passam(cfg)
    BY <2>1, DasLidas
  <2> QED BY <2>1, <2>2 DEF Lidas, Comeco, Objeto
<1>2. CASE leva # <<>>
  <2>1. pc' = "escrever" /\ UNCHANGED <<execucao, gravadas, desfecho, completou>>
    BY <1>2 DEF FimDaLeitura, Ir, historia
  <2>2. Tipado'
    BY <1>1, <2>1 DEF IInv, Tipado, TypeOK
  <2>3. Repouso'
    BY <1>1, <2>1 DEF IInv, Repouso, PorEscrever, PorEntrar
  <2>4. Leitura'
    <3>1. /\ \A m \in 1..i : cfg.fonte[m].tipo # "erro"
          /\ Len(leva) <= Len(Lidas)
          /\ \A m \in 1..Len(leva) : leva[m] = Lidas[Comeco + m]
          /\ cfg.flush = 0 => Comeco = 0 /\ res = SemResultado
          /\ cfg.flush > 0 => Len(leva) <= cfg.flush /\
               ((\E k \in 0..Len(Lidas) : Comeco = k * cfg.flush) \/ (leva = <<>> /\ i = Len(cfg.fonte)))
      BY <1>1 DEF IInv, Leitura
    <3> QED BY <3>1, <1>1, <1>2, <2>1 DEF Leitura
  <2>5. Caminho'
    BY <1>1, <2>1 DEF IInv, Caminho, ModoVale, Mesclar
  <2>6. Posse'
    BY <1>1, <2>1 DEF IInv, Posse, ModoVale, Mesclar, Gravaveis
  <2>7. Conta'
    BY <1>1, <2>1 DEF IInv, Conta, ContaLinhas, ResultadoConfere, PorEntrar, PorEscrever
  <2>8. Inteira'
    BY <1>1, <2>1 DEF IInv, Inteira, CargaInteira, NadaSumiu, NadaSumiuEm
  <2>9. Completa'
    BY <1>1, <2>1 DEF IInv, Completa, Mesclar
  <2>10. SemDobra'
    BY <1>1, <2>1 DEF IInv, SemDobra, Mesclar
  <2>11. Sobra'
    <3>1. lr.objetos = {}
      BY <1>1 DEF IInv, Repouso, PorEscrever, SemResultado
    <3>2. /\ \A o \in palco : o.de <= execucao
          /\ res.objetos \subseteq palco
          /\ \A o \in res.objetos : o.de = execucao /\ o.tipo = "objeto" /\ cfg.manter /\ o.n <= i - Len(leva)
          /\ ~sobrou /\ desfecho # "morto" => \A o \in palco : o.de = execucao => o \in res.objetos
      BY <1>1, <3>1 DEF IInv, Sobra, NaEscrita
    <3>3. Objeto \notin res.objetos
      <4>1. i \in Nat /\ Len(leva) \in Nat \ {0}
        BY <1>1, <1>2, EmptySeq, DaFonte
      <4>2. ~(i <= i - Len(leva))
        BY <4>1
      <4> QED BY <3>2, <4>2 DEF Objeto
    <3>4. desfecho = "nenhum" /\ Objeto' = Objeto
      BY <1>1, <2>1 DEF IInv, Repouso, Objeto
    <3> QED BY <1>1, <2>1, <3>1, <3>2, <3>3, <3>4 DEF Sobra
  <2> QED BY <2>2, <2>3, <2>4, <2>5, <2>6, <2>7, <2>8, <2>9, <2>10, <2>11 DEF IInv
<1>3. CASE leva = <<>>
  <2>1. pc' = "fim" /\ desfecho' = "ok" /\ completou' = TRUE /\ UNCHANGED <<execucao, gravadas>>
    BY <1>3 DEF FimDaLeitura, Terminar
  <2>2. Tipado'
    BY <1>1, <2>1 DEF IInv, Tipado, TypeOK
  <2>3. Repouso'
    BY <1>1, <2>1 DEF IInv, Repouso, PorEscrever, PorEntrar
  <2>4. Leitura'
    BY <1>1, <2>1 DEF IInv, Leitura, NaEscrita
  <2>5. Caminho'
    BY <1>1, <2>1 DEF IInv, Caminho, ModoVale, Mesclar
  <2>6. \A j \in servidor : j.de # execucao
    BY <1>1 DEF IInv, Posse
  <2>7. Posse'
    BY <1>1, <2>1, <2>6 DEF IInv, Posse, ModoVale, Mesclar, Gravaveis
  <2>8. Passam(cfg)' = Passam(cfg) /\ Quebra(cfg)' = Quebra(cfg) /\ Ids(tabela)' = Ids(tabela)
        /\ Ids(Passam(cfg))' = Ids(Passam(cfg))
    BY <1>1 DEF Passam, Registros, NoCaminho, Quebra, Ids
  <2>9. Conta'
    <3>1. ContaLinhas => res.linhas = gravadas /\ res.linhas + res.ignoradas = Comeco
      BY <1>1 DEF IInv, Conta, PorEntrar, PorEscrever
    <3>2. Comeco = Len(Passam(cfg))
      <4>1. Len(leva) = 0 /\ Len(Passam(cfg)) \in Nat
        BY <1>1, <1>3, DasLidas
      <4> QED BY <4>1, <1>1 DEF Comeco
    <3>3. pc' \notin PorEntrar
      BY <2>1 DEF PorEntrar, PorEscrever
    <3> QED BY <1>1, <2>1, <2>8, <3>1, <3>2, <3>3 DEF Conta, ContaLinhas, ResultadoConfere
  <2>10. ~Quebra(cfg) /\ Ids(Passam(cfg)) \subseteq Ids(tabela)
    <3>1. \A m \in 1..i : cfg.fonte[m].tipo # "erro"
      BY DEF IInv, Leitura
    <3>2. DOMAIN cfg.fonte = 1..Len(cfg.fonte)
      BY <1>1, DaFonte
    <3>3. Ids(leva) = {}
      BY <1>3 DEF Ids
    <3>4. Ids(Lidas) \subseteq Ids(tabela) \cup Ids(leva)
      BY <1>1 DEF IInv, Inteira
    <3> QED BY <1>1, <3>1, <3>2, <3>3, <3>4 DEF Quebra
  <2>11. Inteira'
    <3>1. \A n \in DOMAIN Passam(cfg) : Passam(cfg)[n].id \in Ids(tabela)
      BY <2>10 DEF Ids
    <3>2. CargaInteira'
      BY <2>1, <2>8, <2>10, <3>1 DEF CargaInteira
    <3>3. NadaSumiu'
      BY <1>1 DEF IInv, Inteira, NadaSumiu, NadaSumiuEm
    <3> QED BY <2>1, <3>2, <3>3 DEF Inteira
  <2>12. Completa'
    <3>1. existe \/ Passam(cfg) = <<>>
      <4>1. SUFFICES ASSUME tabela = <<>> PROVE Passam(cfg) = <<>>
        BY DEF IInv, Posse
      <4>2. Ids(tabela) = {}
        BY <4>1 DEF Ids
      <4>3. Passam(cfg) \in Seq(Linha)
        BY <1>1, DasLidas
      <4> QED BY <4>2, <4>3, <2>10, SemIds
    <3> QED BY <1>1, <2>1, <2>6, <2>8, <2>10, <3>1 DEF Completa, Mesclar
  <2>13. SemDobra'
    BY <1>1, <2>1 DEF IInv, SemDobra, Mesclar
  <2>14. Sobra'
    <3>1. lr.objetos = {} /\ desfecho = "nenhum"
      BY <1>1 DEF IInv, Repouso, PorEscrever, SemResultado
    <3>2. /\ \A o \in palco : o.de <= execucao
          /\ res.objetos \subseteq palco
          /\ \A o \in res.objetos : o.de = execucao /\ o.tipo = "objeto" /\ cfg.manter
          /\ ~sobrou => \A o \in palco : o.de = execucao => o \in res.objetos
      BY <1>1, <3>1 DEF IInv, Sobra, NaEscrita
    <3> QED BY <1>1, <2>1, <3>1, <3>2 DEF Sobra, NaEscrita
  <2> QED BY <2>2, <2>3, <2>4, <2>5, <2>7, <2>9, <2>11, <2>12, <2>13, <2>14 DEF IInv
<1> QED BY <1>2, <1>3

\* one more record read: it goes through the chain, into the batch
LEMMA LerMantem ==
  ASSUME IInv, LerRegistro
  PROVE  IInv'
<1>1. /\ pc = "lendo" /\ i < Len(cfg.fonte) /\ i' = i + 1 /\ cfg.fonte[i + 1].tipo # "erro"
      /\ leva' = leva \o Cadeia(cfg.fonte[i + 1])
      /\ pc' = IF LevaCheia(leva') THEN "escrever" ELSE "lendo"
      /\ UNCHANGED <<cfg, lr, erro, b, res, modo, existe, tabela, servidor, palco, execucao, gravadas, desfecho,
                     completou, falhas, sobrou>>
  BY DEF LerRegistro, remotas, historia
<1>2. /\ cfg \in Pedidos /\ leva \in Seq(Linha) /\ i \in 0..Len(cfg.fonte) /\ i \in Nat /\ Len(cfg.fonte) \in Nat
      /\ cfg.flush \in Nat /\ Len(leva) <= i
  BY DaFonte, DoPedido DEF IInv, Tipado, TypeOK
<1>3. PICK c \in Seq(Linha) : c = Cadeia(cfg.fonte[i + 1]) /\ Len(c) \in {0, 1}
  <2>1. i + 1 \in 1..Len(cfg.fonte)
    BY <1>1, <1>2
  <2> PICK x \in Nat : x = cfg.fonte[i + 1].id
    BY <1>2, <2>1, DaFonte
  <2> PICK y \in SUBSET STRING : y = cfg.fonte[i + 1].campos
    BY <1>2, <2>1, DaFonte
  <2> PICK l \in Linha : l = [id |-> x, campos |-> y]
    BY DEF Linha
  <2>2. Cadeia(cfg.fonte[i + 1]) = <<>> \/ Cadeia(cfg.fonte[i + 1]) = <<l>>
    BY DEF Cadeia
  <2>3. <<>> \in Seq(Linha) /\ Len(<<>>) = 0 /\ <<l>> \in Seq(Linha) /\ Len(<<l>>) = 1
    OBVIOUS
  <2> QED BY <2>2, <2>3
<1>4. \A m \in 1..(i + 1) : cfg.fonte[m].tipo # "erro"
  <2>1. \A m \in 1..i : cfg.fonte[m].tipo # "erro"
    BY DEF IInv, Leitura
  <2>2. \A m \in 1..(i + 1) : m \in 1..i \/ m = i + 1
    BY <1>2
  <2> QED BY <1>1, <2>1, <2>2
<1>5. Lidas' = Lidas \o c
  BY <1>1, <1>2, <1>3, <1>4, LidasCrescem
<1>6. /\ Lidas \in Seq(Linha) /\ Len(Lidas) \in Nat /\ Len(leva) \in Nat /\ Len(c) \in Nat
      /\ leva' \in Seq(Linha) /\ Len(leva') = Len(leva) + Len(c) /\ Len(Lidas') = Len(Lidas) + Len(c)
      /\ Ids(leva') = Ids(leva) \cup Ids(c) /\ Ids(Lidas') = Ids(Lidas) \cup Ids(c)
      /\ \A m \in 1..Len(leva) : leva'[m] = leva[m]
      /\ \A m \in 1..Len(c) : leva'[Len(leva) + m] = c[m]
      /\ \A m \in 1..Len(Lidas) : Lidas'[m] = Lidas[m]
      /\ \A m \in 1..Len(c) : Lidas'[Len(Lidas) + m] = c[m]
  <2> PICK a \in Seq(Linha) : a = leva
    BY <1>2
  <2> PICK z \in Seq(Linha) : z = Lidas
    BY <1>2, DasLidas
  <2>1. /\ a \o c \in Seq(Linha) /\ Len(a) \in Nat /\ Len(c) \in Nat /\ Len(a \o c) = Len(a) + Len(c)
        /\ \A k \in 1..Len(a) : (a \o c)[k] = a[k]
        /\ \A k \in 1..Len(c) : (a \o c)[Len(a) + k] = c[k]
    BY UmaAposOutra
  <2>2. /\ Len(z) \in Nat /\ Len(z \o c) = Len(z) + Len(c)
        /\ \A k \in 1..Len(z) : (z \o c)[k] = z[k]
        /\ \A k \in 1..Len(c) : (z \o c)[Len(z) + k] = c[k]
    BY UmaAposOutra
  <2>3. Ids(a \o c) = Ids(a) \cup Ids(c) /\ Ids(z \o c) = Ids(z) \cup Ids(c)
    BY IdsDaSoma
  <2>4. leva' = a \o c /\ Lidas' = z \o c
    BY <1>1, <1>3, <1>5
  <2> QED BY <2>1, <2>2, <2>3, <2>4
<1>7. /\ Len(leva) <= Len(Lidas) /\ Comeco' = Comeco /\ Comeco = Len(Lidas) - Len(leva)
      /\ \A m \in 1..Len(leva) : leva[m] = Lidas[Comeco + m]
      /\ cfg.flush = 0 => Comeco = 0 /\ res = SemResultado
      /\ cfg.flush > 0 => Len(leva) < cfg.flush /\ (\E k \in 0..Len(Lidas) : Comeco = k * cfg.flush)
      /\ lr = SemResultado /\ b = 0 /\ ~erro /\ desfecho = "nenhum"
  <2>1. Len(leva) <= Len(Lidas) /\ Comeco' = Comeco /\ Comeco = Len(Lidas) - Len(leva)
    BY <1>1, <1>6 DEF IInv, Leitura, Comeco
  <2>2. lr = SemResultado /\ b = 0 /\ ~erro /\ desfecho = "nenhum"
    BY <1>1 DEF IInv, Repouso, PorEscrever, PorEntrar
  <2>3. i # Len(cfg.fonte)
    BY <1>1, <1>2
  <2> QED BY <2>1, <2>2, <2>3, <1>1, <1>2 DEF IInv, Leitura
<1>a. /\ i \in Nat /\ i' = i + 1 /\ Len(leva) \in Nat /\ Len(leva') \in Nat /\ Len(leva) <= i
      /\ Len(leva') = Len(leva) \/ Len(leva') = Len(leva) + 1
  <2>1. Len(c) = 0 \/ Len(c) = 1
    BY <1>3
  <2>2. Len(leva) \in Nat /\ Len(leva') = Len(leva) + Len(c)
    BY <1>6
  <2>3. Len(leva') \in Nat /\ (Len(leva') = Len(leva) \/ Len(leva') = Len(leva) + 1)
    <3> PICK x \in Nat : x = Len(leva)
      BY <2>2
    <3>1. Len(leva') = x + Len(c)
      BY <2>2
    <3>2. CASE Len(c) = 0
      BY <3>1, <3>2
    <3>3. CASE Len(c) = 1
      BY <3>1, <3>3
    <3> QED BY <2>1, <3>2, <3>3
  <2>4. i \in Nat /\ i' = i + 1 /\ Len(leva) <= i
    BY <1>1, <1>2
  <2> QED BY <2>2, <2>3, <2>4
<1>8. Tipado'
  <2>1. i' \in 0..Len(cfg'.fonte) /\ Len(leva') <= i' /\ b' \in 0..Len(leva')
    BY <1>1, <1>2, <1>7, <1>a
  <2>2. pc' \in {"escrever", "lendo"}
    BY <1>1
  <2> QED BY <2>1, <2>2, <1>1, <1>6 DEF IInv, Tipado, TypeOK
<1>9. Repouso'
  BY <1>1, <1>7 DEF IInv, Repouso, PorEscrever, PorEntrar
<1>10. Leitura'
  <2>1. \A m \in 1..i' : cfg'.fonte[m].tipo # "erro"
    BY <1>1, <1>4
  <2>2. Len(leva') <= Len(Lidas')
    BY <1>6, <1>7
  <2>3. ASSUME NEW m \in 1..Len(leva') PROVE leva'[m] = Lidas'[Comeco' + m]
    <3>1. CASE m \in 1..Len(leva)
      <4>1. Comeco + m \in 1..Len(Lidas)
        BY <3>1, <1>6, <1>7
      <4> QED BY <3>1, <4>1, <1>6, <1>7
    <3>2. CASE m \notin 1..Len(leva)
      <4>1. /\ m - Len(leva) \in 1..Len(c) /\ Len(leva) + (m - Len(leva)) = m
            /\ Len(Lidas) + (m - Len(leva)) = Comeco' + m
        BY <3>2, <1>6, <1>7
      <4>2. leva'[m] = c[m - Len(leva)]
        BY <4>1, <1>6
      <4>3. Lidas'[Comeco' + m] = c[m - Len(leva)]
        BY <4>1, <1>6
      <4> QED BY <4>2, <4>3
    <3> QED BY <3>1, <3>2
  <2>4. cfg'.flush = 0 => Comeco' = 0 /\ res' = SemResultado
    BY <1>1, <1>7
  <2>5. cfg'.flush > 0 => Len(leva') <= cfg'.flush /\ (\E k \in 0..Len(Lidas') : Comeco' = k * cfg'.flush)
    <3>1. SUFFICES ASSUME cfg.flush > 0
                   PROVE  Len(leva') <= cfg.flush /\ (\E k \in 0..Len(Lidas') : Comeco = k * cfg.flush)
      BY <1>1, <1>7
    <3>2. Len(leva') <= cfg.flush
      <4>1. Len(leva) < cfg.flush
        BY <3>1, <1>7
      <4> QED BY <4>1, <1>2, <1>a
    <3>3. PICK k \in 0..Len(Lidas) : Comeco = k * cfg.flush
      BY <3>1, <1>7
    <3>4. k \in 0..Len(Lidas')
      BY <1>6
    <3> QED BY <3>2, <3>3, <3>4
  <2>6. pc' = "lendo" /\ cfg'.flush > 0 => Len(leva') < cfg'.flush
    <3>1. Len(leva') \in Nat
      BY <1>6
    <3> QED BY <3>1, <1>1, <1>2 DEF LevaCheia
  <2>7. pc' \in NaEscrita => leva' # <<>> /\ cfg'.flush > 0 /\ Len(leva') = cfg'.flush
    <3>1. SUFFICES ASSUME pc' \in NaEscrita PROVE leva' # <<>> /\ cfg.flush > 0 /\ Len(leva') = cfg.flush
      BY <1>1
    <3>2. LevaCheia(leva')
      BY <3>1, <1>1 DEF NaEscrita
    <3>3. cfg.flush > 0 /\ Len(leva') >= cfg.flush
      BY <3>2, <1>1 DEF LevaCheia
    <3>4. Len(leva') <= cfg.flush
      <4>1. Len(leva) < cfg.flush
        BY <3>3, <1>7
      <4> QED BY <4>1, <1>2, <1>a
    <3>5. leva' # <<>>
      <4>1. Len(leva') # 0 /\ Len(<<>>) = 0
        BY <3>3, <1>2, <1>6
      <4> QED BY <4>1
    <3> QED BY <3>3, <3>4, <3>5, <1>2, <1>6
  <2> QED BY <2>1, <2>2, <2>3, <2>4, <2>5, <2>6, <2>7 DEF Leitura
<1>11. pc' \in {"escrever", "lendo"} /\ pc' # "fim"
  BY <1>1
<1>12. Caminho'
  BY <1>1, <1>11 DEF IInv, Caminho, ModoVale, Mesclar
<1>13. Posse'
  <2>1. \A j \in servidor : j.de # execucao
    BY <1>1 DEF IInv, Posse
  <2> QED BY <2>1, <1>1, <1>11 DEF IInv, Posse, ModoVale, Mesclar, Gravaveis
<1>14. Conta'
  BY <1>1, <1>7, <1>11 DEF IInv, Conta, ContaLinhas, ResultadoConfere, PorEntrar, PorEscrever
<1>15. Inteira'
  <2>1. CargaInteira' /\ NadaSumiu'
    BY <1>1, <1>7 DEF IInv, Inteira, CargaInteira, NadaSumiu, NadaSumiuEm
  <2>2. Ids(Lidas)' = Ids(Lidas') /\ Ids(leva)' = Ids(leva') /\ Ids(tabela)' = Ids(tabela)
    BY <1>1 DEF Ids
  <2>3. Ids(Lidas) \subseteq Ids(tabela) \cup Ids(leva)
    BY <1>1 DEF IInv, Inteira
  <2> QED BY <2>1, <2>2, <2>3, <1>6, <1>11 DEF Inteira
<1>16. Completa'
  BY <1>1, <1>11 DEF IInv, Completa, Mesclar
<1>17. SemDobra'
  BY <1>1 DEF IInv, SemDobra, Mesclar
<1>18. Sobra'
  <2>1. lr.objetos = {}
    BY <1>7 DEF SemResultado
  <2>2. /\ \A o \in palco : o.de <= execucao
        /\ res.objetos \subseteq palco
        /\ \A o \in res.objetos : o.de = execucao /\ o.tipo = "objeto" /\ cfg.manter /\ o.n <= i - Len(leva) /\ o \in Coisa
        /\ ~sobrou => \A o \in palco : o.de = execucao => o \in res.objetos
    <3>1. Sobra /\ pc # "fim" /\ res.objetos \subseteq Coisa
      BY <1>1 DEF IInv, Tipado, UmResultado, NaEscrita
    <3>2. ~sobrou => \A o \in palco : o.de = execucao => o \in res.objetos
      BY <1>1, <1>7, <2>1 DEF IInv, Sobra, NaEscrita
    <3> QED BY <3>1, <3>2 DEF Sobra
  <2>3. \A o \in res.objetos : o.n <= i' - Len(leva') /\ o.n < i'
    <3>1. \A o \in Coisa : o.n \in Nat
      BY DEF Coisa
    <3>2. i - Len(leva) <= i' - Len(leva') /\ i - Len(leva) < i'
      BY <1>a
    <3>3. i - Len(leva) \in Int /\ i' - Len(leva') \in Int /\ i' \in Int
      BY <1>a
    <3>4. \A o \in res.objetos : o.n \in Nat /\ o.n <= i - Len(leva)
      BY <2>2, <3>1, Zenon
    <3> QED BY <3>2, <3>3, <3>4
  <2>4. Objeto' \notin res.objetos /\ Objeto'.de = execucao
    <3>1. Objeto'.n = i' /\ Objeto'.de = execucao
      BY <1>1 DEF Objeto
    <3>2. ~(i' < i')
      BY <1>1, <1>2
    <3> QED BY <2>3, <3>1, <3>2
  <2> QED BY <1>1, <1>11, <2>1, <2>2, <2>3, <2>4 DEF Sobra
<1> QED BY <1>8, <1>9, <1>10, <1>12, <1>13, <1>14, <1>15, <1>16, <1>17, <1>18 DEF IInv

\* batches of f rows: where the next one begins
LEMMA ProximaLeva ==
  ASSUME NEW f \in Nat, f > 0, NEW y \in Nat, NEW k \in 0..y, y - f = k * f
  PROVE  \E m \in 0..y : y = m * f
<1>1. k \in Int /\ f \in Int /\ k \in Nat
  OBVIOUS
<1>2. (k + 1) * f = k * f + f
  BY <1>1, Vezes, Zenon
<1>3. (k + 1) * f = y
  BY <1>1, <1>2
<1>4. k * f >= k
  BY <1>1
<1>5. k + 1 \in 0..y
  <2> PICK p \in Int : p = k * f
    BY <1>1
  <2>1. p >= k /\ y - f = p
    BY <1>4
  <2> QED BY <2>1, <1>1
<1> QED BY <1>3, <1>5

\* a Write that is over, added to the result
LEMMA DoSomar ==
  ASSUME NEW r \in UmResultado, NEW l \in UmResultado
  PROVE  /\ Somar(r, l) \in UmResultado
         /\ Somar(r, l).linhas = r.linhas + l.linhas /\ Somar(r, l).ignoradas = r.ignoradas + l.ignoradas
         /\ Somar(r, l).objetos = r.objetos \cup l.objetos
<1> PICK x \in Nat : x = r.linhas + l.linhas
  BY DEF UmResultado
<1> PICK y \in Nat : y = r.ignoradas + l.ignoradas
  BY DEF UmResultado
<1> PICK O \in SUBSET Coisa : O = r.objetos \cup l.objetos
  BY DEF UmResultado
<1>1. Somar(r, l) = [linhas |-> x, ignoradas |-> y, objetos |-> O]
  BY DEF Somar
<1> QED BY <1>1 DEF UmResultado

\* the result nothing has been added to
LEMMA SemResultadoServe ==
  /\ SemResultado \in UmResultado /\ SemResultado.linhas = 0 /\ SemResultado.ignoradas = 0 /\ SemResultado.objetos = {}
<1> PICK O \in SUBSET Coisa : O = {}
  OBVIOUS
<1>1. SemResultado = [linhas |-> 0, ignoradas |-> 0, objetos |-> O]
  BY DEF SemResultado
<1> QED BY <1>1 DEF UmResultado

\* a Write has returned: its numbers and objects enter the result
LEMMA VoltarMantem ==
  ASSUME IInv, Voltar
  PROVE  IInv'
<1>1. /\ pc = "devolver"
      /\ res' = IF cfg.flush > 0 THEN Somar(res, lr) ELSE Aplicar(res, lr)
      /\ leva' = <<>> /\ lr' = SemResultado /\ erro' = FALSE /\ b' = 0
      /\ UNCHANGED <<cfg, i, modo, existe, tabela, servidor, palco, falhas, sobrou>>
      /\ \/ erro /\ Terminar("erro")
         \/ ~erro /\ cfg.flush = 0 /\ Terminar("ok")
         \/ ~erro /\ cfg.flush > 0 /\ Ir("lendo") /\ UNCHANGED historia
  BY DEF Voltar, remotas
<1>2. /\ UNCHANGED <<execucao, gravadas>>
      /\ \/ erro /\ pc' = "fim" /\ desfecho' = "erro" /\ UNCHANGED completou
         \/ ~erro /\ cfg.flush = 0 /\ pc' = "fim" /\ desfecho' = "ok" /\ completou' = TRUE
         \/ ~erro /\ cfg.flush > 0 /\ pc' = "lendo" /\ UNCHANGED <<desfecho, completou>>
  <2>1. completou \in BOOLEAN
    BY DEF IInv, Tipado, TypeOK
  <2>2. CASE erro /\ Terminar("erro")
    <3>1. completou' = (completou \/ FALSE)
      BY <2>2 DEF Terminar
    <3>2. completou' = completou
      BY <2>1, <3>1
    <3> QED BY <2>2, <3>2 DEF Terminar
  <2>3. CASE ~erro /\ cfg.flush = 0 /\ Terminar("ok")
    BY <2>3 DEF Terminar
  <2>4. CASE ~erro /\ cfg.flush > 0 /\ Ir("lendo") /\ UNCHANGED historia
    BY <2>4 DEF Ir, historia
  <2> QED BY <1>1, <2>2, <2>3, <2>4
<1>3. /\ cfg \in Pedidos /\ leva \in Seq(Linha) /\ Len(leva) \in Nat /\ leva # <<>> /\ i \in 0..Len(cfg.fonte) /\ i \in Nat
      /\ cfg.flush \in Nat /\ res \in UmResultado /\ lr \in UmResultado /\ erro \in BOOLEAN /\ desfecho = "nenhum"
      /\ gravadas \in Nat /\ Lidas \in Seq(Linha) /\ Len(Lidas) \in Nat /\ Len(leva) <= i
  <2>1. /\ cfg \in Pedidos /\ leva \in Seq(Linha) /\ leva # <<>> /\ i \in 0..Len(cfg.fonte)
        /\ res \in UmResultado /\ lr \in UmResultado /\ erro \in BOOLEAN /\ desfecho = "nenhum"
        /\ gravadas \in Nat /\ Len(leva) <= i
    BY <1>1 DEF IInv, Tipado, TypeOK, Repouso, Leitura, NaEscrita
  <2> QED BY <2>1, DaFonte, DoPedido, DasLidas, LenProperties
<1>4. /\ Len(leva) <= Len(Lidas) /\ Comeco = Len(Lidas) - Len(leva)
      /\ cfg.flush = 0 => Comeco = 0 /\ res = SemResultado /\ i = Len(cfg.fonte)
      /\ cfg.flush > 0 => (\E k \in 0..Len(Lidas) : Comeco = k * cfg.flush)
      /\ i = Len(cfg.fonte) \/ Len(leva) = cfg.flush
  <2>1. /\ Leitura /\ pc # "fim" /\ pc \in NaEscrita /\ leva # <<>> /\ pc = "devolver"
    BY <1>1, <1>3 DEF IInv, NaEscrita
  <2>2. /\ Len(leva) <= Len(Lidas)
        /\ cfg.flush = 0 => Comeco = 0 /\ res = SemResultado
        /\ cfg.flush > 0 => (\E k \in 0..Len(Lidas) : Comeco = k * cfg.flush) \/ leva = <<>>
    BY <2>1, Zenon DEF Leitura
  <2>3. i = Len(cfg.fonte) \/ (cfg.flush > 0 /\ Len(leva) = cfg.flush)
    BY <2>1, Zenon DEF Leitura
  <2>4. cfg.flush = 0 => ~(cfg.flush > 0)
    BY <1>3
  <2>5. Comeco = Len(Lidas) - Len(leva)
    BY DEF Comeco
  <2> QED BY <2>1, <2>2, <2>3, <2>4, <2>5, Zenon
<1>5. /\ res' \in UmResultado /\ res'.linhas = res.linhas + lr.linhas /\ res'.ignoradas = res.ignoradas + lr.ignoradas
      /\ res'.objetos = res.objetos \cup lr.objetos
      /\ {res.linhas, res.ignoradas, lr.linhas, lr.ignoradas} \subseteq Nat
  <2>1. {res.linhas, res.ignoradas, lr.linhas, lr.ignoradas} \subseteq Nat
    BY <1>3 DEF UmResultado
  <2>2. CASE cfg.flush > 0
    BY <2>1, <2>2, <1>1, <1>3, DoSomar
  <2>3. CASE cfg.flush = 0
    <3>1. res' = lr /\ res = SemResultado
      BY <2>3, <1>1, <1>4 DEF Aplicar
    <3> QED BY <2>1, <3>1, <1>3, SemResultadoServe
  <2> QED BY <2>2, <2>3, <1>3
<1>6. /\ Lidas' = Lidas /\ Comeco' = Len(Lidas) /\ Passam(cfg)' = Passam(cfg) /\ Quebra(cfg)' = Quebra(cfg)
      /\ Ids(Lidas)' = Ids(Lidas) /\ Ids(tabela)' = Ids(tabela) /\ Ids(Passam(cfg))' = Ids(Passam(cfg))
  <2>1. Lidas' = Lidas /\ Passam(cfg)' = Passam(cfg) /\ Quebra(cfg)' = Quebra(cfg)
        /\ Ids(Lidas)' = Ids(Lidas) /\ Ids(tabela)' = Ids(tabela) /\ Ids(Passam(cfg))' = Ids(Passam(cfg))
    BY <1>1 DEF Lidas, Passam, Registros, NoCaminho, Quebra, Ids
  <2>2. Comeco' = Len(Lidas) - 0
    BY <1>1, <2>1 DEF Comeco
  <2> QED BY <2>1, <2>2, <1>3
<1>7. ~erro => Ids(Lidas) \subseteq Ids(tabela)
  BY <1>1 DEF IInv, Inteira
<1>8. pc' = "fim" /\ ~erro => Lidas = Passam(cfg) /\ ~Quebra(cfg)
  <2>1. SUFFICES ASSUME pc' = "fim", ~erro PROVE Lidas = Passam(cfg) /\ ~Quebra(cfg)
    OBVIOUS
  <2>2. i = Len(cfg.fonte)
    BY <2>1, <1>2, <1>4
  <2>3. \A m \in 1..i : cfg.fonte[m].tipo # "erro"
    BY DEF IInv, Leitura
  <2>4. DOMAIN cfg.fonte = 1..i
    BY <2>2, <1>3, DaFonte
  <2>5. Lidas = Passam(cfg)
    BY <2>2, <1>3, DasLidas
  <2> QED BY <2>3, <2>4, <2>5 DEF Quebra
<1>9. Tipado'
  <2>1. leva' \in Seq(Linha) /\ Len(leva') = 0
    BY <1>1, EmptySeq
  <2>2. lr' \in UmResultado /\ {lr'.linhas, lr'.ignoradas} \subseteq Nat
    BY <1>1, SemResultadoServe
  <2>3. {res'.linhas, res'.ignoradas} \subseteq Nat
    BY <1>5
  <2>4. /\ completou' \in BOOLEAN /\ desfecho' \in {"nenhum", "ok", "erro", "ensaio", "morto"} /\ pc' \in {"fim", "lendo"}
        /\ i' \in 0..Len(cfg'.fonte) /\ Len(leva') <= i' /\ b' \in 0..Len(leva') /\ erro' \in BOOLEAN
    <3>1. completou \in BOOLEAN
      BY DEF IInv, Tipado, TypeOK
    <3>2. completou' \in BOOLEAN /\ desfecho' \in {"nenhum", "ok", "erro", "ensaio", "morto"} /\ pc' \in {"fim", "lendo"}
      BY <1>2, <1>3, <3>1
    <3>3. i' = i /\ cfg' = cfg /\ b' = 0 /\ erro' = FALSE
      BY <1>1
    <3>4. i' \in 0..Len(cfg'.fonte) /\ i' \in Nat
      BY <1>3, <3>3
    <3>5. Len(leva') <= i' /\ b' \in 0..Len(leva') /\ erro' \in BOOLEAN
      <4>1. Len(leva') = 0
        BY <2>1
      <4>2. Len(leva') <= i'
        BY <3>4, <4>1
      <4>3. b' \in 0..Len(leva')
        BY <3>3, <4>1
      <4>4. erro' \in BOOLEAN
        BY <3>3
      <4> QED BY <4>2, <4>3, <4>4
    <3> QED BY <3>2, <3>4, <3>5
  <2> QED BY <1>1, <1>2, <1>3, <1>5, <2>1, <2>2, <2>3, <2>4 DEF IInv, Tipado, TypeOK
<1>10. Repouso'
  BY <1>1, <1>2, <1>3 DEF Repouso, PorEscrever, PorEntrar
<1>11. Leitura'
  <2>1. \A m \in 1..i' : cfg'.fonte[m].tipo # "erro"
    BY <1>1 DEF IInv, Leitura
  <2>2. Len(leva') = 0
    BY <1>1
  <2>3. pc' # "fim" => cfg.flush > 0
    BY <1>2
  <2>4. cfg.flush > 0 => (\E k \in 0..Len(Lidas) : Len(Lidas) = k * cfg.flush) \/ i = Len(cfg.fonte)
    <3>1. SUFFICES ASSUME cfg.flush > 0, Len(leva) = cfg.flush PROVE \E k \in 0..Len(Lidas) : Len(Lidas) = k * cfg.flush
      BY <1>4
    <3> PICK f \in Nat : f = cfg.flush
      BY <1>3
    <3> PICK y \in Nat : y = Len(Lidas)
      BY <1>3
    <3>2. PICK k \in 0..y : y - f = k * f
      BY <3>1, <1>4
    <3>3. f > 0
      BY <3>1
    <3>4. \E m \in 0..y : y = m * f
      BY <3>2, <3>3, ProximaLeva
    <3> QED BY <3>4
  <2>5. pc' \notin NaEscrita
    BY <1>2 DEF NaEscrita
  <2>6. /\ Len(leva') <= Len(Lidas') /\ (\A m \in 1..Len(leva') : leva'[m] = Lidas'[Comeco' + m])
        /\ Len(leva') <= cfg'.flush /\ (cfg.flush > 0 => Len(leva') < cfg'.flush)
    BY <2>2, <1>1, <1>3, <1>6
  <2> QED BY <2>1, <2>3, <2>4, <2>5, <2>6, <1>1, <1>6 DEF Leitura
<1>12. Caminho'
  BY <1>1, <1>2 DEF IInv, Caminho, ModoVale, Mesclar
<1>13. Posse'
  <2>1. \A j \in servidor : j.de = execucao => erro
    BY <1>1 DEF IInv, Posse
  <2> QED BY <2>1, <1>1, <1>2 DEF IInv, Posse, ModoVale, Mesclar, Gravaveis
<1>14. Conta'
  <2>1. SUFFICES ASSUME ContaLinhas PROVE Conta'
    BY <1>1 DEF Conta, ContaLinhas
  <2>2. lr'.linhas = 0 /\ pc' \notin {"descartar", "limpar", "devolver"}
    BY <1>1, <1>2, SemResultadoServe
  <2>3. CASE ~erro
    <3>1. /\ gravadas = res.linhas + lr.linhas
          /\ lr.linhas + lr.ignoradas = Len(leva) /\ res.linhas + res.ignoradas = Comeco
      BY <2>1, <2>3, <1>1 DEF IInv, Conta
    <3>2. res'.linhas = gravadas' /\ res'.linhas + res'.ignoradas = Len(Lidas)
      <4>1. res'.linhas = gravadas'
        BY <3>1, <1>2, <1>5
      <4>2. (res.linhas + lr.linhas) + (res.ignoradas + lr.ignoradas) = Comeco + Len(leva)
        <5> PICK x \in Nat : x = res.linhas
          BY <1>5
        <5> PICK y \in Nat : y = res.ignoradas
          BY <1>5
        <5> PICK z \in Nat : z = lr.linhas
          BY <1>5
        <5> PICK w \in Nat : w = lr.ignoradas
          BY <1>5
        <5>1. z + w = Len(leva) /\ x + y = Comeco
          BY <3>1
        <5>2. (x + z) + (y + w) = (x + y) + (z + w)
          OBVIOUS
        <5> QED BY <5>1, <5>2
      <4> QED BY <4>1, <4>2, <1>3, <1>4, <1>5
    <3>3. ResultadoConfere'
      BY <3>2, <2>3, <1>2, <1>3, <1>6, <1>8 DEF ResultadoConfere
    <3> QED BY <2>2, <3>2, <3>3, <1>6 DEF Conta
  <2>4. CASE erro
    <3>1. cfg.destino # "mysql" => res'.linhas <= gravadas'
      <4>1. cfg.destino # "mysql" => lr.linhas = 0 /\ res.linhas <= gravadas
        BY <2>1, <2>4, <1>1 DEF IInv, Conta
      <4> QED BY <4>1, <1>2, <1>5
    <3>2. pc' = "fim" /\ desfecho' = "erro"
      BY <2>4, <1>2
    <3>3. ResultadoConfere'
      BY <3>1, <3>2, <1>1 DEF ResultadoConfere
    <3>4. pc' \notin PorEntrar
      BY <3>2 DEF PorEntrar, PorEscrever
    <3> QED BY <2>2, <3>2, <3>3, <3>4 DEF Conta
  <2> QED BY <2>3, <2>4
<1>15. Inteira'
  <2>1. NadaSumiu'
    BY <1>1 DEF IInv, Inteira, NadaSumiu, NadaSumiuEm
  <2>2. CargaInteira'
    <3>1. desfecho' = "ok" => ~Quebra(cfg) /\ Ids(Passam(cfg)) \subseteq Ids(tabela)
      BY <1>2, <1>3, <1>7, <1>8
    <3>2. desfecho' = "ok" => ~Quebra(cfg) /\ \A n \in DOMAIN Passam(cfg) : Passam(cfg)[n].id \in Ids(tabela)
      BY <3>1 DEF Ids
    <3> QED BY <3>2, <1>6 DEF CargaInteira
  <2> QED BY <2>1, <2>2, <1>2, <1>6, <1>7 DEF Inteira
<1>16. Completa'
  <2>1. CASE completou /\ desfecho' # "ok"
    BY <2>1, <1>1, <1>2, <1>6 DEF IInv, Completa, Mesclar
  <2>2. CASE desfecho' = "ok"
    <3>1. ~erro /\ pc' = "fim" /\ Ids(Passam(cfg)) \subseteq Ids(tabela) /\ Lidas = Passam(cfg)
      BY <2>2, <1>2, <1>3, <1>7, <1>8
    <3>2. \A j \in servidor : j.de # execucao
      BY <3>1, <1>1 DEF IInv, Posse
    <3>3. existe \/ Passam(cfg) = <<>>
      <4>1. SUFFICES ASSUME tabela = <<>> PROVE Passam(cfg) = <<>>
        BY DEF IInv, Posse
      <4>2. Ids(tabela) = {}
        BY <4>1 DEF Ids
      <4> QED BY <4>2, <3>1, <1>3, SemIds
    <3> QED BY <3>1, <3>2, <3>3, <1>1, <1>2, <1>6 DEF Completa, Mesclar
  <2>3. CASE ~completou /\ desfecho' # "ok"
    BY <2>3, <1>2 DEF Completa
  <2> QED BY <2>1, <2>2, <2>3
<1>17. SemDobra'
  BY <1>1 DEF IInv, SemDobra, Mesclar
<1>18. Sobra'
  <2>1. lr'.objetos = {} /\ Len(leva') = 0
    BY <1>1, SemResultadoServe
  <2>2. /\ \A o \in palco : o.de <= execucao
        /\ res.objetos \subseteq palco /\ lr.objetos \subseteq palco \cap {Objeto}
        /\ \A o \in res.objetos : o.de = execucao /\ o.tipo = "objeto" /\ cfg.manter /\ o.n <= i - Len(leva)
        /\ lr.objetos # {} => cfg.manter
        /\ ~sobrou => \A o \in palco : o.de = execucao => o \in res.objetos \cup lr.objetos
    BY <1>1, <1>3 DEF IInv, Sobra
  <2>3. Objeto.de = execucao /\ Objeto.n = i /\ Objeto.tipo = "objeto"
    BY DEF Objeto
  <2>4. \A o \in res.objetos : o.n <= i
    <3>1. \A o \in res.objetos : o.n \in Nat
      BY <1>3 DEF UmResultado, Coisa
    <3> QED BY <3>1, <2>2, <1>3
  <2>5. /\ \A o \in palco' : o.de <= execucao'
        /\ res'.objetos \subseteq palco'
        /\ \A o \in res'.objetos : o.de = execucao' /\ o.tipo = "objeto" /\ cfg'.manter /\ o.n <= i' - Len(leva')
        /\ ~sobrou' => \A o \in palco' : o.de = execucao' => o \in res'.objetos
    <3>1. /\ palco' = palco /\ execucao' = execucao /\ sobrou' = sobrou /\ cfg' = cfg /\ i' = i
          /\ res'.objetos = res.objetos \cup lr.objetos
      BY <1>1, <1>2, <1>5
    <3>2. i' - Len(leva') = i
      <4>1. i' \in Nat /\ Len(leva') = 0 /\ i' = i
        BY <2>1, <3>1, <1>3
      <4> QED BY <4>1
    <3>3. \A o \in lr.objetos : o = Objeto /\ o \in palco
      BY <2>2
    <3>4. \A o \in lr.objetos : o.de = execucao /\ o.tipo = "objeto" /\ cfg.manter /\ o.n <= i
      <4>1. lr.objetos # {} => cfg.manter /\ Objeto.n <= i
        BY <2>2, <2>3, <1>3
      <4> QED BY <4>1, <3>3, <2>3
    <3>5. \A o \in res'.objetos : o.de = execucao' /\ o.tipo = "objeto" /\ cfg'.manter /\ o.n <= i' - Len(leva')
      <4>1. \A o \in res.objetos : o.de = execucao /\ o.tipo = "objeto" /\ cfg.manter
        BY <2>2
      <4> QED BY <4>1, <2>4, <3>1, <3>2, <3>4, Zenon
    <3>6. \A o \in palco' : o.de <= execucao'
      BY <2>2, <3>1, Zenon
    <3>7. res'.objetos \subseteq palco'
      BY <2>2, <3>1, <3>3, Zenon
    <3>8. ~sobrou' => \A o \in palco' : o.de = execucao' => o \in res'.objetos
      BY <2>2, <3>1, Zenon
    <3> QED BY <3>5, <3>6, <3>7, <3>8, Zenon
  <2>6. pc' \notin NaEscrita
    BY <1>2 DEF NaEscrita
  <2> QED BY <2>1, <2>5, <2>6 DEF Sobra
<1> QED BY <1>9, <1>10, <1>11, <1>12, <1>13, <1>14, <1>15, <1>16, <1>17, <1>18 DEF IInv

\* what a program that starts, or has died, has in its hands
LEMMA MaosVazias ==
  ASSUME Tipado, leva' = <<>>, lr' = SemResultado, res' = SemResultado, erro' = FALSE, b' = 0,
         UNCHANGED <<cfg, modo, existe, tabela, servidor, palco, completou>>,
         pc' \in {"verificar", "fim"}, i' \in 0..Len(cfg.fonte), i' \in Nat, gravadas' \in Nat, sobrou' \in BOOLEAN,
         execucao' \in 1..MaxExecucoes, execucao' >= execucao, falhas' \in 0..MaxFalhas,
         desfecho' \in {"nenhum", "morto"}
  PROVE  Tipado'
<1>1. leva' \in Seq(Linha) /\ Len(leva') = 0
  BY EmptySeq
<1>2. /\ lr' \in UmResultado /\ {lr'.linhas, lr'.ignoradas} \subseteq Nat
      /\ res' \in UmResultado /\ {res'.linhas, res'.ignoradas} \subseteq Nat
  BY SemResultadoServe
<1>3. \A j \in servidor' : j.de \in 1..execucao'
  <2>1. execucao' \in Nat /\ execucao \in Nat
    BY LimitesNaturais DEF Tipado, TypeOK
  <2>2. \A j \in servidor : j.de \in 1..execucao
    BY DEF Tipado, TypeOK
  <2>3. 1..execucao \subseteq 1..execucao'
    BY <2>1
  <2> QED BY <2>2, <2>3
<1>4. Len(leva') <= i' /\ b' \in 0..Len(leva') /\ erro' \in BOOLEAN /\ i' \in 0..Len(cfg'.fonte)
  <2>1. Len(leva') <= i' /\ b' \in 0..Len(leva')
    BY <1>1
  <2> QED BY <2>1
<1>5. completou' \in BOOLEAN /\ existe' \in BOOLEAN /\ modo' \in {"anexo", "mescla", "ignora"}
  BY DEF Tipado, TypeOK
<1>6. TypeOK'
  BY <1>1, <1>2, <1>3, <1>4, <1>5 DEF Tipado, TypeOK
<1> QED BY <1>1, <1>2, <1>6 DEF Tipado

\* the program dies: what it has submitted is the server's now
LEMMA CairMantem ==
  ASSUME IInv, Cair
  PROVE  IInv'
<1>1. /\ pc # "fim" /\ pc' = "fim" /\ desfecho' = "morto"
      /\ leva' = <<>> /\ lr' = SemResultado /\ res' = SemResultado /\ erro' = FALSE /\ b' = 0
      /\ UNCHANGED <<cfg, i, modo, existe, tabela, servidor, palco, execucao, gravadas, completou, falhas, sobrou>>
  BY DEF Cair, remotas
<1>2. /\ i \in 0..Len(cfg.fonte) /\ i \in Nat /\ gravadas \in Nat /\ sobrou \in BOOLEAN
      /\ execucao \in 1..MaxExecucoes /\ execucao \in Nat /\ falhas \in 0..MaxFalhas
  <2>1. cfg \in Pedidos
    BY DEF IInv, Tipado, TypeOK
  <2> QED BY <2>1, DaFonte, LimitesNaturais DEF IInv, Tipado, TypeOK
<1>3. Tipado'
  <2>1. i' \in 0..Len(cfg.fonte) /\ i' \in Nat /\ gravadas' \in Nat /\ sobrou' \in BOOLEAN
    BY <1>1, <1>2
  <2>2. execucao' \in 1..MaxExecucoes /\ execucao' >= execucao /\ falhas' \in 0..MaxFalhas
    BY <1>1, <1>2
  <2> QED BY <2>1, <2>2, <1>1, MaosVazias DEF IInv
<1>4. lr'.objetos = {} /\ res'.objetos = {} /\ lr'.linhas = 0
  BY <1>1, SemResultadoServe
<1>5. Repouso'
  BY <1>1 DEF Repouso, PorEntrar, PorEscrever
<1>6. Leitura'
  BY <1>1 DEF IInv, Leitura, NaEscrita
<1>7. Caminho'
  BY <1>1 DEF IInv, Caminho, ModoVale, Mesclar
<1>8. Posse'
  BY <1>1 DEF IInv, Posse, ModoVale, Mesclar, Gravaveis
<1>9. Conta'
  <2>1. ResultadoConfere'
    BY <1>1 DEF ResultadoConfere
  <2> QED BY <2>1, <1>1 DEF Conta, PorEntrar, PorEscrever
<1>10. Inteira'
  <2>1. CargaInteira' /\ NadaSumiu'
    BY <1>1 DEF IInv, Inteira, CargaInteira, NadaSumiu, NadaSumiuEm
  <2> QED BY <2>1, <1>1 DEF Inteira
<1>11. Completa'
  <2>1. Ids(Passam(cfg))' = Ids(Passam(cfg)) /\ Passam(cfg)' = Passam(cfg) /\ Ids(tabela)' = Ids(tabela)
    BY <1>1 DEF Ids, Passam, Registros, NoCaminho
  <2> QED BY <2>1, <1>1 DEF IInv, Completa, Mesclar
<1>12. SemDobra'
  BY <1>1 DEF IInv, SemDobra, Mesclar
<1>13. Sobra'
  <2>1. \A o \in palco' : o.de <= execucao'
    BY <1>1 DEF IInv, Sobra
  <2> QED BY <2>1, <1>1, <1>4 DEF Sobra, NaEscrita
<1> QED BY <1>3, <1>5, <1>6, <1>7, <1>8, <1>9, <1>10, <1>11, <1>12, <1>13 DEF IInv

\* the next execution finds the table, the server and the stage as they were left
LEMMA ReexecutarMantem ==
  ASSUME IInv, Reexecutar
  PROVE  IInv'
<1>1. /\ pc = "fim" /\ execucao < MaxExecucoes /\ execucao' = execucao + 1 /\ pc' = "verificar"
      /\ i' = 0 /\ leva' = <<>> /\ lr' = SemResultado /\ res' = SemResultado /\ erro' = FALSE /\ b' = 0
      /\ gravadas' = 0 /\ sobrou' = FALSE /\ desfecho' = "nenhum"
      /\ UNCHANGED <<cfg, modo, existe, tabela, servidor, palco, completou, falhas>>
  BY DEF Reexecutar, remotas
<1>2. /\ cfg \in Pedidos /\ Len(cfg.fonte) \in Nat /\ cfg.flush \in Nat
      /\ execucao \in 1..MaxExecucoes /\ execucao \in Nat /\ MaxExecucoes \in Nat /\ falhas \in 0..MaxFalhas
  <2>1. cfg \in Pedidos
    BY DEF IInv, Tipado, TypeOK
  <2> QED BY <2>1, DaFonte, DoPedido, LimitesNaturais DEF IInv, Tipado, TypeOK
<1>3. Tipado'
  <2>1. i' \in 0..Len(cfg.fonte) /\ i' \in Nat /\ gravadas' \in Nat
    BY <1>1, <1>2
  <2>2. execucao' \in 1..MaxExecucoes /\ execucao' >= execucao /\ falhas' \in 0..MaxFalhas
    BY <1>1, <1>2
  <2>3. sobrou' \in BOOLEAN
    BY <1>1
  <2> QED BY <2>1, <2>2, <2>3, <1>1, MaosVazias DEF IInv
<1>4. lr'.objetos = {} /\ res'.objetos = {} /\ lr'.linhas = 0 /\ res'.linhas = 0 /\ res'.ignoradas = 0 /\ Len(leva') = 0
  BY <1>1, SemResultadoServe
<1>5. Lidas' = <<>> /\ Comeco' = 0 /\ Len(Lidas') = 0 /\ Ids(Lidas') = {}
  <2>1. i' \in 0..Len(cfg'.fonte) /\ cfg' \in Pedidos
    BY <1>1, <1>2
  <2>2. (cfg \in Pedidos /\ i \in 0..Len(cfg.fonte) => (i = 0 => Lidas = <<>>))'
    <3>1. cfg \in Pedidos /\ i \in 0..Len(cfg.fonte) => (i = 0 => Lidas = <<>>)
      BY DasLidas
    <3>2. Lidas' = Selecao(Registros(cfg), NoCaminho(cfg))[0]
      BY <1>1 DEF Lidas, Registros, NoCaminho
    <3>3. Registros(cfg) \in Seq(Linha)
      BY <1>2, DaFonte
    <3>4. Selecao(Registros(cfg), NoCaminho(cfg))[0] = <<>>
      BY <3>3, SelecaoPassoAPasso
    <3> QED BY <3>2, <3>4
  <2>3. Lidas' = <<>>
    BY <2>1, <2>2, <1>1
  <2>4. Len(Lidas') = 0 /\ Ids(Lidas') = {}
    BY <2>3 DEF Ids
  <2>5. Comeco' = Len(Lidas') - Len(leva')
    BY DEF Comeco
  <2> QED BY <2>3, <2>4, <2>5, <1>4
<1>6. Repouso'
  BY <1>1 DEF Repouso, PorEntrar, PorEscrever
<1>7. Leitura'
  <2>1. \A m \in 1..i' : cfg'.fonte[m].tipo # "erro"
    BY <1>1
  <2>2. /\ Len(leva') <= Len(Lidas') /\ \A m \in 1..Len(leva') : leva'[m] = Lidas'[Comeco' + m]
        /\ Len(leva') <= cfg'.flush
    <3>1. cfg'.flush \in Nat
      BY <1>1, <1>2
    <3> QED BY <1>4, <1>5, <3>1
  <2>3. \E k \in 0..Len(Lidas') : Comeco' = k * cfg'.flush
    <3>1. Comeco' = 0 * cfg'.flush
      BY <1>1, <1>2, <1>5
    <3>2. 0 \in 0..Len(Lidas')
      BY <1>5
    <3> QED BY <3>1, <3>2
  <2> QED BY <2>1, <2>2, <2>3, <1>1, <1>5 DEF Leitura, NaEscrita
<1>8. Caminho'
  BY <1>1 DEF IInv, Caminho, ModoVale, Mesclar
<1>9. Posse'
  <2>1. \A j \in servidor : j.de <= execucao /\ j.de \in 1..execucao
    BY DEF IInv, Posse, Tipado, TypeOK
  <2>2. \A j \in servidor : j.de <= execucao' /\ j.de # execucao'
    BY <2>1, <1>1, <1>2
  <2> QED BY <2>2, <1>1 DEF IInv, Posse, ModoVale, Mesclar, Gravaveis
<1>10. Conta'
  <2>1. ResultadoConfere'
    BY <1>1 DEF ResultadoConfere
  <2>2. res'.linhas = gravadas' /\ res'.linhas + res'.ignoradas = Comeco'
    BY <1>1, <1>4, <1>5
  <2> QED BY <2>1, <2>2, <1>1, <1>4 DEF Conta, PorEntrar, PorEscrever
<1>11. Inteira'
  <2>1. CargaInteira' /\ NadaSumiu'
    BY <1>1 DEF IInv, Inteira, CargaInteira, NadaSumiu, NadaSumiuEm
  <2> QED BY <2>1, <1>1, <1>5 DEF Inteira
<1>12. Completa'
  <2>1. \A j \in servidor : j.de # execucao'
    <3>1. \A j \in servidor : j.de \in 1..execucao
      BY DEF IInv, Tipado, TypeOK
    <3> QED BY <3>1, <1>1, <1>2
  <2>2. Ids(Passam(cfg))' = Ids(Passam(cfg)) /\ Passam(cfg)' = Passam(cfg) /\ Ids(tabela)' = Ids(tabela)
    BY <1>1 DEF Ids, Passam, Registros, NoCaminho
  <2> QED BY <2>1, <2>2, <1>1 DEF IInv, Completa, Mesclar
<1>13. SemDobra'
  BY <1>1 DEF IInv, SemDobra, Mesclar
<1>14. Sobra'
  <2>1. \A o \in palco : o.de <= execucao /\ o.de \in Nat
    BY DEF IInv, Sobra, Tipado, Coisa
  <2>2. \A o \in palco : o.de <= execucao' /\ o.de # execucao'
    BY <2>1, <1>1, <1>2
  <2> QED BY <2>2, <1>1, <1>4 DEF Sobra, NaEscrita
<1> QED BY <1>3, <1>6, <1>7, <1>8, <1>9, <1>10, <1>11, <1>12, <1>13, <1>14 DEF IInv

\* a pipeline about to run for the first time
LEMMA InicioServe == Init => IInv
<1> SUFFICES ASSUME Init PROVE IInv
  OBVIOUS
<1>1. /\ cfg \in Pedidos /\ pc = "verificar" /\ i = 0 /\ leva = <<>> /\ lr = SemResultado /\ erro = FALSE /\ b = 0
      /\ res = SemResultado /\ modo = "anexo"
      /\ existe = cfg.existe /\ tabela = <<>> /\ servidor = {} /\ palco = {}
      /\ execucao = 1 /\ falhas = 0 /\ desfecho = "nenhum"
      /\ gravadas = 0 /\ completou = FALSE /\ sobrou = FALSE
  BY DEF Init
<1>2. /\ Len(cfg.fonte) \in Nat /\ cfg.flush \in Nat /\ cfg.existe \in BOOLEAN
      /\ MaxExecucoes \in Nat \ {0} /\ MaxFalhas \in Nat
  BY <1>1, DaFonte, DoPedido, LimitesNaturais
<1>3. /\ leva \in Seq(Linha) /\ Len(leva) = 0 /\ tabela \in Seq(Linha) /\ Ids(tabela) = {} /\ DOMAIN tabela = {}
      /\ lr \in UmResultado /\ res \in UmResultado /\ lr.linhas = 0 /\ lr.ignoradas = 0 /\ lr.objetos = {}
      /\ res.linhas = 0 /\ res.ignoradas = 0 /\ res.objetos = {}
  <2>1. Ids(tabela) = {} /\ DOMAIN tabela = {}
    BY <1>1 DEF Ids
  <2> QED BY <2>1, <1>1, EmptySeq, SemResultadoServe
<1>4. i \in 0..Len(cfg.fonte)
  BY <1>1, <1>2
<1>5. Lidas = <<>> /\ Len(Lidas) = 0 /\ Ids(Lidas) = {} /\ Comeco = 0
  <2>1. Lidas = <<>>
    BY <1>1, <1>4, DasLidas
  <2>2. Len(Lidas) = 0 /\ Ids(Lidas) = {}
    BY <2>1 DEF Ids
  <2> QED BY <2>1, <2>2, <1>3 DEF Comeco
<1>6. Tipado
  <2>1. TypeOK
    <3>1. execucao \in 1..MaxExecucoes /\ falhas \in 0..MaxFalhas
      BY <1>1, <1>2
    <3>2. Len(leva) <= i /\ b \in 0..Len(leva)
      BY <1>1, <1>3
    <3>3. {lr.linhas, lr.ignoradas, res.linhas, res.ignoradas, gravadas} \subseteq Nat
      BY <1>1, <1>3
    <3> QED BY <3>1, <3>2, <3>3, <1>1, <1>2, <1>4 DEF TypeOK
  <2>2. IsFiniteSet(servidor)
    BY <1>1, FS_EmptySet
  <2> QED BY <2>1, <2>2, <1>1, <1>3 DEF Tipado
<1>7. Repouso
  BY <1>1 DEF Repouso, PorEntrar, PorEscrever
<1>8. Leitura
  <2>1. \E k \in 0..Len(Lidas) : Comeco = k * cfg.flush
    <3>1. Comeco = 0 * cfg.flush /\ 0 \in 0..Len(Lidas)
      BY <1>2, <1>5
    <3> QED BY <3>1
  <2>2. Len(leva) <= Len(Lidas) /\ Len(leva) <= cfg.flush
    BY <1>2, <1>3, <1>5
  <2>3. (\A m \in 1..i : cfg.fonte[m].tipo # "erro") /\ (\A m \in 1..Len(leva) : leva[m] = Lidas[Comeco + m])
    BY <1>1, <1>3
  <2> QED BY <2>1, <2>2, <2>3, <1>1, <1>5 DEF Leitura, NaEscrita
<1>9. Caminho
  BY <1>1 DEF Caminho
<1>10. Posse
  BY <1>1 DEF Posse
<1>11. Conta
  <2>1. ResultadoConfere
    BY <1>1 DEF ResultadoConfere
  <2>2. res.linhas = gravadas /\ res.linhas + res.ignoradas = Comeco
    BY <1>1, <1>3, <1>5
  <2> QED BY <2>1, <2>2, <1>1, <1>3 DEF Conta, PorEntrar, PorEscrever
<1>12. Inteira
  <2>1. CargaInteira /\ NadaSumiu
    BY <1>1, <1>3 DEF CargaInteira, NadaSumiu, NadaSumiuEm
  <2> QED BY <2>1, <1>1, <1>5 DEF Inteira
<1>13. Completa
  BY <1>1 DEF Completa
<1>14. SemDobra
  BY <1>3 DEF SemDobra, Diferentes
<1>15. Sobra
  BY <1>1, <1>3 DEF Sobra, NaEscrita
<1> QED BY <1>6, <1>7, <1>8, <1>9, <1>10, <1>11, <1>12, <1>13, <1>14, <1>15 DEF IInv

\* every step, and none, keeps the invariant
LEMMA PassoMantem == IInv /\ [Next]_vars => IInv'
<1> SUFFICES ASSUME IInv, [Next]_vars PROVE IInv'
  OBVIOUS
<1>1. CASE Frente
  BY <1>1, VerificarMantem, LerMantem, FimMantem, VoltarMantem, Zenon DEF Frente
<1>2. CASE Escrita
  BY <1>2, PreparaTudo, SubmeterMantem, DescartarMantem, LimparMantem, Zenon DEF Escrita
<1>3. CASE Servidor
  BY <1>3, AterrissarMantem, RejeitarMantem, Zenon DEF Servidor
<1>4. CASE Cair
  BY <1>4, CairMantem
<1>5. CASE Reexecutar
  BY <1>5, ReexecutarMantem
<1>6. CASE UNCHANGED vars
  <2>1. UNCHANGED <<cfg, pc, i, leva, lr, erro, b, res, modo, existe, tabela, servidor, palco,
                    execucao, desfecho, gravadas, completou, falhas, sobrou>>
    BY <1>6 DEF vars, locais, remotas, historia
  <2>2. /\ Lidas' = Lidas /\ Comeco' = Comeco /\ Passam(cfg)' = Passam(cfg) /\ Quebra(cfg)' = Quebra(cfg)
        /\ Ids(Lidas)' = Ids(Lidas) /\ Ids(tabela)' = Ids(tabela) /\ Ids(Passam(cfg))' = Ids(Passam(cfg))
        /\ Ids(leva)' = Ids(leva)
    BY <2>1 DEF Lidas, Comeco, Passam, Registros, NoCaminho, Quebra, Ids
  <2>3. Tipado' /\ Repouso' /\ Leitura'
    BY <2>1, <2>2 DEF IInv, Tipado, TypeOK, Repouso, Leitura
  <2>4. Caminho' /\ Posse'
    BY <2>1 DEF IInv, Caminho, ModoVale, Mesclar, Posse, Gravaveis, Pedido, LoteAGravar
  <2>5. Conta' /\ SemDobra' /\ Completa'
    BY <2>1, <2>2 DEF IInv, Conta, ContaLinhas, ResultadoConfere, SemDobra, Mesclar, Completa
  <2>6. Inteira'
    <3>1. CargaInteira' /\ NadaSumiu'
      BY <2>1 DEF IInv, Inteira, CargaInteira, NadaSumiu, NadaSumiuEm
    <3> QED BY <3>1, <2>1, <2>2 DEF IInv, Inteira
  <2>7. Sobra'
    BY <2>1 DEF IInv, Sobra, Objeto, Temporaria
  <2> QED BY <2>3, <2>4, <2>5, <2>6, <2>7 DEF IInv
<1> QED BY <1>1, <1>2, <1>3, <1>4, <1>5, <1>6 DEF Next

\* what holds of every pipeline in every state it can be in
LEMMA Invariante == Spec => []IInv
<1> QED BY InicioServe, PassoMantem, PTL DEF Spec

--------------------------------------------------------------------------------
(* What the runs check, for every value of the constants                       *)

\* A load that reports success has left no record out, and what is in the table
\* has every field its record had (pipeline.go, the drivers); with the types
THEOREM CargaSempreFiel == Spec => []CargaFiel
<1>1. IInv => CargaFiel
  BY DEF IInv, Tipado, Inteira, CargaFiel
<1> QED BY <1>1, Invariante, PTL

\* The numbers a Result carries are those of the table: in a load that went well
\* every record is accounted for, and a failed one reports nothing that is not
\* there (pipeline.go, loadEmLevas; the count each driver returns)
THEOREM ResultadoSempreConfere == Spec => []ResultadoConfere
<1>1. IInv => ResultadoConfere
  BY DEF IInv, Conta, ResultadoConfere
<1> QED BY <1>1, Invariante, PTL

\* rows of different ids are as many as their ids
LEMMA TantosQuantosIds ==
  ASSUME NEW t \in Seq(Linha), Diferentes(t)
  PROVE  Cardinality(Ids(t)) = Len(t)
<1> DEFINE f == [n \in 1..Len(t) |-> t[n].id]
<1>1. Len(t) \in Nat /\ DOMAIN t = 1..Len(t)
  BY LenProperties
<1>2. Ids(t) = {t[n].id : n \in 1..Len(t)}
  BY <1>1 DEF Ids
<1>3. f \in Bijection(1..Len(t), Ids(t))
  <2>1. f \in [1..Len(t) -> Ids(t)]
    BY <1>2
  <2>2. \A x, y \in 1..Len(t) : f[x] = f[y] => x = y
    BY <1>1 DEF Diferentes
  <2>3. \A x \in Ids(t) : \E y \in 1..Len(t) : f[y] = x
    BY <1>2
  <2> QED BY <2>1, <2>2, <2>3 DEF Bijection, Injection, Surjection, IsInjective
<1>4. ExistsBijection(1..Len(t), Ids(t))
  BY <1>3, Zenon DEF ExistsBijection
<1>5. 1 \in Int /\ Len(t) \in Int
  BY <1>1
<1>6. IsFiniteSet(1..Len(t)) /\ Cardinality(1..Len(t)) = IF 1 > Len(t) THEN 0 ELSE Len(t) - 1 + 1
  BY <1>5, FS_Interval, Zenon
<1>7. Cardinality(Ids(t)) = Cardinality(1..Len(t))
  BY <1>4, <1>6, FS_Bijection, Zenon
<1> QED BY <1>1, <1>6, <1>7

\* The SQL drivers' merge leaves each id once, however often it is interrupted and
\* run again (postgres.go, mysql.go: the unique index is asked for before the first row)
THEOREM SempreUmaLinhaPorId == Spec => []UmaLinhaPorId
<1>1. IInv => UmaLinhaPorId
  BY TantosQuantosIds DEF IInv, Tipado, SemDobra, UmaLinhaPorId
<1> QED BY <1>1, Invariante, PTL

\* When an execution ends, what it staged is gone, or kept on purpose and reported,
\* or a removal failed; and a reported object is there (load.go, redshift.go: the
\* deferred removals)
THEOREM SobraSempreExplicada == Spec => []SobraExplicada
<1>1. IInv => SobraExplicada
  <2> SUFFICES ASSUME IInv PROVE SobraExplicada
    OBVIOUS
  <2>1. res.objetos \subseteq palco
    BY DEF IInv, Sobra
  <2>2. ASSUME pc = "fim", desfecho \in {"ok", "erro"}, ~sobrou, NEW o \in palco, o.de = execucao
        PROVE  cfg.manter /\ o.tipo = "objeto" /\ o \in res.objetos
    <3>1. lr.objetos = {} /\ pc \notin NaEscrita
      BY <2>2 DEF IInv, Sobra, NaEscrita
    <3>2. o \in res.objetos
      BY <2>2, <3>1 DEF IInv, Sobra
    <3> QED BY <3>2 DEF IInv, Sobra
  <2> QED BY <2>1, <2>2 DEF SobraExplicada
<1> QED BY <1>1, Invariante, PTL

\* only the server puts rows in the table
LEMMA SoAterrissarGrava ==
  ASSUME [Next]_vars
  PROVE  cfg' = cfg /\ (Aterrissar \/ UNCHANGED tabela)
<1>1. CASE Frente
  BY <1>1 DEF Frente, VerificarDestino, Ensaiar, LerRegistro, ErroDaFonte, FimDaLeitura, Voltar, remotas
<1>2. CASE Escrita
  <2>1. CASE EscreverPostgres \/ EscreverMySQL \/ EscreverArquivo \/ EscreverRedshift \/ PrepararBigQuery
    BY <2>1 DEF EscreverPostgres, EscreverMySQL, EscreverArquivo, EscreverRedshift, PrepararBigQuery, remotas
  <2>2. CASE InserirBloco
    BY <2>2 DEF InserirBloco, remotas
  <2>3. CASE CopiarRedshift \/ AnexarBigQuery \/ CriarTemporaria \/ EncherTemporaria
    BY <2>3 DEF CopiarRedshift, AnexarBigQuery, CriarTemporaria, EncherTemporaria, remotas
  <2>4. CASE DescartarRedshift \/ Submeter \/ DesistirDeEsperar \/ Limpar
    BY <2>4 DEF DescartarRedshift, Submeter, DesistirDeEsperar, Limpar, remotas
  <2> QED BY <1>2, <2>1, <2>2, <2>3, <2>4 DEF Escrita
<1>3. CASE Servidor
  BY <1>3 DEF Servidor, Aterrissar, Rejeitar
<1>4. CASE Cair \/ Reexecutar
  BY <1>4 DEF Cair, Reexecutar, remotas
<1>5. CASE UNCHANGED vars
  BY <1>5 DEF vars, remotas
<1> QED BY <1>1, <1>2, <1>3, <1>4, <1>5 DEF Next

\* Once an execution has loaded everything, running it again changes nothing under
\* a merge (README of sdk: re-running the same window is a no-op)
THEOREM RepetirEhInocuo == Spec => RepeticaoInocua
<1>1. IInv /\ [Next]_vars =>
        [(completou /\ cfg.dedup = "merge" /\ \A j \in servidor : j.tipo = "anexo" => j.de = execucao)
           => UNCHANGED tabela]_vars
  <2> SUFFICES ASSUME IInv, [Next]_vars, completou, Mesclar,
                      \A j \in servidor : j.tipo = "anexo" => j.de = execucao
               PROVE  UNCHANGED tabela
    BY DEF Mesclar
  <2>1. CASE Aterrissar
    <3>1. PICK j \in servidor : tabela' = Efeito(j)
      BY <2>1 DEF Aterrissar
    <3>2. Ids(j.lote) \subseteq Ids(Passam(cfg)) /\ (j.tipo # "anexo" /\ Ids(j.lote) \subseteq Ids(tabela) => tabela' = tabela)
      <4> PICK d : d = Len(Efeito(j)) - Len(tabela)
        OBVIOUS
      <4> QED BY <3>1, DoPouso
    <3>3. Ids(Passam(cfg)) \subseteq Ids(tabela) /\ (j.de = execucao => j.tipo # "anexo")
      BY DEF IInv, Completa
    <3> QED BY <3>2, <3>3
  <2> QED BY <2>1, SoAterrissarGrava
<1> QED BY <1>1, Invariante, PTL DEF Spec, RepeticaoInocua

--------------------------------------------------------------------------------
(* Load implements Landing                                                     *)

\* the batches of a creating load: the one about to be submitted, and those submitted
AEntrar == modo = "anexo" /\ pc \in {"anexar", "submeter"}
Enviadas == {j \in servidor : j.tipo = "anexo"}

\* what the refinement counts, in the two parts that change
LEMMA DasInaugurais ==
  ASSUME Tipado
  PROVE  /\ IsFiniteSet(Enviadas) /\ Cardinality(Enviadas) \in Nat
         /\ ~Mesclar => Inaugurais = 0
         /\ Mesclar => Inaugurais = Cardinality(Enviadas) + IF AEntrar THEN 1 ELSE 0
<1>1. IsFiniteSet(servidor) /\ Enviadas \in SUBSET servidor
  BY DEF Tipado, Enviadas
<1>2. IsFiniteSet(Enviadas)
  BY <1>1, FS_Subset
<1>3. Cardinality(Enviadas) \in Nat
  BY <1>2, FS_CardinalityType
<1>4. ~Mesclar => Inaugurais = 0
  BY DEF Inaugurais, Mesclar
<1>5. Mesclar => Inaugurais = Cardinality(Enviadas) + IF AEntrar THEN 1 ELSE 0
  BY DEF Inaugurais, Mesclar, Enviadas, AEntrar
<1> QED BY <1>2, <1>3, <1>4, <1>5

\* and after a step
LEMMA DasInauguraisDepois ==
  ASSUME Tipado'
  PROVE  /\ Cardinality(Enviadas') \in Nat
         /\ ~Mesclar' => Inaugurais' = 0
         /\ Mesclar' => Inaugurais' = Cardinality(Enviadas') + IF AEntrar' THEN 1 ELSE 0
<1>1. IsFiniteSet(servidor') /\ Enviadas' \in SUBSET servidor'
  BY DEF Tipado, Enviadas
<1>2. IsFiniteSet(Enviadas')
  BY <1>1, FS_Subset
<1>3. Cardinality(Enviadas') \in Nat
  BY <1>2, FS_CardinalityType
<1>4. ~Mesclar' => Inaugurais' = 0
  BY DEF Inaugurais, Mesclar
<1>5. Mesclar' => Inaugurais' = Cardinality(Enviadas') + IF AEntrar' THEN 1 ELSE 0
  BY DEF Inaugurais, Mesclar, Enviadas, AEntrar
<1> QED BY <1>3, <1>4, <1>5

\* Landing's rows are these rows
LEMMA MesmasLinhas ==
  ASSUME NEW s, NEW P
  PROVE  Tabela!Ids(s) = Ids(s) /\ Tabela!Selecionadas(s, P) = Selecionadas(s, P)
<1>1. Tabela!Ids(s) = Ids(s)
  BY Zenon DEF Tabela!Ids, Ids
<1>2. Tabela!Selecionadas(s, P) = Selecionadas(s, P)
  BY Zenon DEF Tabela!Selecionadas, Selecionadas, Tabela!Selecao, Selecao
<1> QED BY <1>1, <1>2

\* what Landing lets in is what a MERGE selects
LEMMA NovasSemIndice ==
  ASSUME NEW s, NEW l, ~cfg.indice
  PROVE  Tabela!Novas(s, l) = Selecionadas(l, Ausentes(s, l))
<1>1. Tabela!Novas(s, l) = Tabela!Selecionadas(l, Ausentes(s, l))
  BY MesmasLinhas DEF Tabela!Novas, Ausentes
<1> QED BY <1>1, MesmasLinhas

\* and, with unique ids, what the INSERT selects
LEMMA NovasComIndice ==
  ASSUME NEW s, NEW l, cfg.indice
  PROVE  Tabela!Novas(s, l) = Selecionadas(l, Primeiras(s, l))
<1>1. Tabela!Novas(s, l) = Tabela!Selecionadas(l, Primeiras(s, l))
  BY MesmasLinhas DEF Tabela!Novas, Primeiras
<1> QED BY <1>1, MesmasLinhas

\* a step Landing does not see, and a creating load that gives up before it submits
LEMMA PassoQuieto ==
  ASSUME Tipado, Tipado', UNCHANGED <<cfg, existe, tabela, servidor>>,
         Mesclar /\ AEntrar' => AEntrar
  PROVE  UNCHANGED Tabela!vars \/ Tabela!Desistir
<1>1. /\ Cardinality(Enviadas) \in Nat
      /\ ~Mesclar => Inaugurais = 0
      /\ Mesclar => Inaugurais = Cardinality(Enviadas) + IF AEntrar THEN 1 ELSE 0
  BY DasInaugurais
<1>2. /\ ~Mesclar' => Inaugurais' = 0
      /\ Mesclar' => Inaugurais' = Cardinality(Enviadas') + IF AEntrar' THEN 1 ELSE 0
  BY DasInauguraisDepois
<1>3. Enviadas' = Enviadas /\ (Mesclar' <=> Mesclar)
  BY DEF Enviadas, Mesclar
<1>4. Inaugurais' = Inaugurais \/ (Inaugurais > 0 /\ Inaugurais' = Inaugurais - 1)
  BY <1>1, <1>2, <1>3
<1>5. UNCHANGED <<Gravaveis(cfg), cfg, existe, tabela>>
  BY DEF Gravaveis
<1>6. CASE Inaugurais' = Inaugurais
  BY <1>5, <1>6 DEF Tabela!vars
<1>7. CASE Inaugurais > 0 /\ Inaugurais' = Inaugurais - 1
  BY <1>5, <1>7 DEF Tabela!Desistir
<1> QED BY <1>4, <1>6, <1>7

\* the table is created, and under a merge its first batch is to enter as it is
LEMMA PrepararCria ==
  ASSUME IInv, IInv', PrepararBigQuery
  PROVE  UNCHANGED Tabela!vars \/ Tabela!Criar \/ Tabela!Desistir
<1>1. /\ pc = "escrever" /\ UNCHANGED <<cfg, tabela, servidor>>
      /\ Prepara /\ (~existe /\ pc' \in {"anexar", "submeter"} => existe')
      /\ (existe => existe' /\ ~(Mesclar /\ modo' = "anexo" /\ pc' \in {"anexar", "submeter"}))
  <2>1. pc = "escrever" /\ UNCHANGED <<cfg, tabela, servidor>>
    BY DEF PrepararBigQuery
  <2> QED BY <2>1, PreparaBigQuery DEF IInv
<1>2. existe \in BOOLEAN /\ existe' \in BOOLEAN /\ Tipado /\ Tipado'
  BY DEF IInv, Tipado, TypeOK
<1>3. CASE existe
  <2>1. existe' = existe
    BY <1>1, <1>2, <1>3
  <2>2. ~(Mesclar /\ AEntrar')
    BY <1>1, <1>3 DEF AEntrar
  <2> QED BY <1>1, <1>2, <2>1, <2>2, PassoQuieto
<1>4. CASE ~existe /\ ~existe'
  <2>1. existe' = existe
    BY <1>2, <1>4
  <2>2. ~AEntrar'
    BY <1>1, <1>4 DEF AEntrar
  <2> QED BY <1>1, <1>2, <2>1, <2>2, PassoQuieto
<1>5. CASE ~existe /\ existe'
  <2>1. servidor = {} /\ Enviadas' = {}
    BY <1>1, <1>5 DEF IInv, Posse, Enviadas
  <2>2. Cardinality(Enviadas') = 0
    BY <2>1, FS_EmptySet
  <2>3. /\ ~Mesclar' => Inaugurais' = 0
        /\ Mesclar' => Inaugurais' = Cardinality(Enviadas') + IF AEntrar' THEN 1 ELSE 0
    BY <1>2, DasInauguraisDepois
  <2>4. Inaugurais' \in IF cfg.dedup = "merge" THEN {0, 1} ELSE {0}
    BY <2>2, <2>3, <1>1 DEF Mesclar
  <2>5. UNCHANGED <<Gravaveis(cfg), cfg, tabela>> /\ existe' = TRUE
    BY <1>1, <1>2, <1>5 DEF Gravaveis
  <2> QED BY <1>5, <2>4, <2>5 DEF Tabela!Criar
<1> QED BY <1>3, <1>4, <1>5

\* the batch that was about to be submitted is submitted
LEMMA SubmeterQuieto ==
  ASSUME IInv, IInv', Submeter
  PROVE  UNCHANGED Tabela!vars
<1>1. /\ pc = "submeter" /\ pc' = "esperando" /\ servidor' = servidor \cup {Pedido(modo)}
      /\ UNCHANGED <<cfg, existe, tabela, modo>>
  BY DEF Submeter, Ir
<1>2. Pedido(modo).tipo = modo /\ Pedido(modo).de = execucao
  BY DEF Pedido
<1>3. Pedido(modo) \notin servidor
  BY <1>1, <1>2 DEF IInv, Posse
<1>4. Tipado /\ Tipado' /\ (Mesclar' <=> Mesclar) /\ ~AEntrar' /\ (AEntrar <=> modo = "anexo")
  BY <1>1 DEF IInv, AEntrar, Mesclar
<1>5. IsFiniteSet(Enviadas) /\ Cardinality(Enviadas) \in Nat
      /\ (~Mesclar => Inaugurais = 0) /\ (Mesclar => Inaugurais = Cardinality(Enviadas) + IF AEntrar THEN 1 ELSE 0)
  BY <1>4, DasInaugurais
<1>6. /\ ~Mesclar' => Inaugurais' = 0
      /\ Mesclar' => Inaugurais' = Cardinality(Enviadas') + IF AEntrar' THEN 1 ELSE 0
  BY <1>4, DasInauguraisDepois
<1>7. modo = "anexo" => Cardinality(Enviadas') = Cardinality(Enviadas) + 1
  <2>1. SUFFICES ASSUME modo = "anexo" PROVE Cardinality(Enviadas') = Cardinality(Enviadas) + 1
    OBVIOUS
  <2>2. Enviadas' = Enviadas \cup {Pedido(modo)}
    BY <2>1, <1>1, <1>2 DEF Enviadas
  <2>3. Pedido(modo) \notin Enviadas
    BY <1>3 DEF Enviadas
  <2> QED BY <2>2, <2>3, <1>5, FS_AddElement
<1>8. modo # "anexo" => Enviadas' = Enviadas
  BY <1>1, <1>2 DEF Enviadas
<1>9. Cardinality(Enviadas') \in Nat
  BY <1>4, DasInauguraisDepois
<1>10. Inaugurais' = Inaugurais
  BY <1>4, <1>5, <1>6, <1>7, <1>8, <1>9
<1> QED BY <1>1, <1>10 DEF Tabela!vars, Gravaveis

\* one submission less on the server, and nothing else that Landing counts
LEMMA SaiDoServidor ==
  ASSUME Tipado, Tipado', NEW j \in servidor, servidor' = servidor \ {j}, UNCHANGED cfg,
         AEntrar' <=> AEntrar
  PROVE  /\ Mesclar /\ j.tipo = "anexo" => Inaugurais > 0 /\ Inaugurais' = Inaugurais - 1
         /\ ~Mesclar \/ j.tipo # "anexo" => Inaugurais' = Inaugurais
<1>1. Mesclar' <=> Mesclar
  BY DEF Mesclar
<1>2. IsFiniteSet(Enviadas) /\ Cardinality(Enviadas) \in Nat
      /\ (~Mesclar => Inaugurais = 0) /\ (Mesclar => Inaugurais = Cardinality(Enviadas) + IF AEntrar THEN 1 ELSE 0)
  BY DasInaugurais
<1>3. /\ Cardinality(Enviadas') \in Nat
      /\ ~Mesclar' => Inaugurais' = 0
      /\ Mesclar' => Inaugurais' = Cardinality(Enviadas') + IF AEntrar' THEN 1 ELSE 0
  BY DasInauguraisDepois
<1>4. j.tipo # "anexo" => Enviadas' = Enviadas
  BY DEF Enviadas
<1>5. j.tipo = "anexo" => Cardinality(Enviadas') = Cardinality(Enviadas) - 1
  <2>1. SUFFICES ASSUME j.tipo = "anexo" PROVE Cardinality(Enviadas') = Cardinality(Enviadas) - 1
    OBVIOUS
  <2>2. Enviadas' = Enviadas \ {j} /\ j \in Enviadas
    BY <2>1 DEF Enviadas
  <2> QED BY <2>2, <1>2, FS_RemoveElement
<1>6. ~Mesclar \/ j.tipo # "anexo" => Inaugurais' = Inaugurais
  BY <1>1, <1>2, <1>3, <1>4
<1>7. Mesclar /\ j.tipo = "anexo" => Inaugurais > 0 /\ Inaugurais' = Inaugurais - 1
  BY <1>1, <1>2, <1>3, <1>5
<1> QED BY <1>6, <1>7

\* a batch enters
LEMMA AterrissarGrava ==
  ASSUME IInv, IInv', Aterrissar
  PROVE  Tabela!Gravar
<1>1. PICK j \in servidor :
        /\ servidor' = servidor \ {j} /\ tabela' = Efeito(j)
        /\ MeuPedido(j) \/ UNCHANGED pc
        /\ pc' # pc => pc' \in {"descartar", "limpar"}
        /\ UNCHANGED <<cfg, modo, existe>>
  BY DEF Aterrissar, Ir
<1>2. AEntrar' <=> AEntrar
  BY <1>1 DEF AEntrar, MeuPedido
<1>3. /\ Mesclar /\ j.tipo = "anexo" => Inaugurais > 0 /\ Inaugurais' = Inaugurais - 1
      /\ ~Mesclar \/ j.tipo # "anexo" => Inaugurais' = Inaugurais
  BY <1>1, <1>2, SaiDoServidor DEF IInv
<1>4. existe /\ j.lote \in Gravaveis(cfg) /\ ModoVale(j.tipo)
  BY DEF IInv, Posse
<1>5. /\ j.tipo = "anexo" => tabela' = tabela \o j.lote
      /\ j.tipo = "mescla" => tabela' = tabela \o Selecionadas(j.lote, Ausentes(tabela, j.lote))
      /\ j.tipo = "ignora" => tabela' = tabela \o Selecionadas(j.lote, Primeiras(tabela, j.lote))
  BY <1>1, <1>4, DoEfeito DEF IInv
<1>6. /\ cfg.dedup \in {"none", "merge"} /\ cfg.indice \in BOOLEAN
      /\ cfg.indice => cfg.destino \in {"postgres", "mysql"}
      /\ j.tipo \in {"anexo", "mescla", "ignora"}
  BY DoPedido DEF IInv, Tipado, TypeOK, UmPedido
<1>7. UNCHANGED <<Gravaveis(cfg), cfg, existe>>
  BY <1>1 DEF Gravaveis
<1>8. CASE ~Mesclar
  <2>1. j.tipo = "anexo" /\ cfg.dedup = "none"
    BY <1>4, <1>6, <1>8 DEF ModoVale, Mesclar
  <2> QED BY <2>1, <1>3, <1>4, <1>5, <1>7, <1>8 DEF Tabela!Gravar
<1>9. CASE Mesclar /\ j.tipo = "anexo"
  BY <1>3, <1>4, <1>5, <1>7, <1>9 DEF Tabela!Gravar
<1>10. CASE Mesclar /\ j.tipo # "anexo"
  <2>1. tabela' = tabela \o Tabela!Novas(tabela, j.lote)
    <3>1. CASE j.tipo = "mescla"
      <4>1. ~cfg.indice
        BY <1>4, <1>6, <3>1 DEF ModoVale
      <4> QED BY <4>1, <3>1, <1>5, NovasSemIndice
    <3>2. CASE j.tipo = "ignora"
      <4>1. cfg.indice
        BY <1>4, <3>2 DEF ModoVale
      <4> QED BY <4>1, <3>2, <1>5, NovasComIndice
    <3> QED BY <1>6, <1>10, <3>1, <3>2
  <2>2. cfg.dedup = "merge" /\ Inaugurais' = Inaugurais
    BY <1>3, <1>10 DEF Mesclar
  <2> QED BY <2>1, <2>2, <1>4, <1>7 DEF Tabela!Gravar
<1> QED BY <1>8, <1>9, <1>10

\* a batch is refused, or is not waited for any more and lost
LEMMA RejeitarDesiste ==
  ASSUME IInv, IInv', Rejeitar
  PROVE  UNCHANGED Tabela!vars \/ Tabela!Desistir
<1>1. PICK j \in servidor :
        /\ servidor' = servidor \ {j}
        /\ MeuPedido(j) \/ UNCHANGED pc
        /\ pc' # pc => pc' = "limpar"
        /\ UNCHANGED <<cfg, modo, existe, tabela>>
  BY DEF Rejeitar, Recusar, Sair
<1>2. AEntrar' <=> AEntrar
  BY <1>1 DEF AEntrar, MeuPedido
<1>3. /\ Mesclar /\ j.tipo = "anexo" => Inaugurais > 0 /\ Inaugurais' = Inaugurais - 1
      /\ ~Mesclar \/ j.tipo # "anexo" => Inaugurais' = Inaugurais
  BY <1>1, <1>2, SaiDoServidor DEF IInv
<1>4. UNCHANGED <<Gravaveis(cfg), cfg, existe, tabela>>
  BY <1>1 DEF Gravaveis
<1>5. CASE Mesclar /\ j.tipo = "anexo"
  BY <1>3, <1>4, <1>5 DEF Tabela!Desistir
<1>6. CASE ~Mesclar \/ j.tipo # "anexo"
  BY <1>3, <1>4, <1>6 DEF Tabela!vars
<1> QED BY <1>5, <1>6

\* the steps that leave the table, the server and the batch about to enter alone
LEMMA ForaDaTabela ==
  ASSUME IInv, IInv', [Next]_vars, ~PrepararBigQuery, ~Submeter, ~Aterrissar, ~Rejeitar
  PROVE  UNCHANGED <<cfg, existe, tabela, servidor>> /\ (Mesclar /\ AEntrar' => AEntrar)
<1>1. CASE EscreverPostgres \/ EscreverMySQL \/ InserirBloco \/ EscreverArquivo \/ EscreverRedshift
           \/ CopiarRedshift \/ CriarTemporaria \/ EncherTemporaria
  <2>1. UNCHANGED <<cfg, existe, tabela, servidor>>
    <3>1. CASE InserirBloco
      BY <3>1 DEF InserirBloco, remotas
    <3> QED BY <1>1, <3>1 DEF EscreverPostgres, EscreverMySQL, EscreverArquivo, EscreverRedshift,
            CopiarRedshift, CriarTemporaria, EncherTemporaria, remotas
  <2>2. ~(Mesclar /\ AEntrar')
    <3>1. CASE EscreverPostgres \/ EscreverMySQL
      BY <3>1 DEF EscreverPostgres, EscreverMySQL, Seguir, Parar, Recusar, Sair, Ir, AEntrar
    <3>2. CASE EscreverArquivo \/ EscreverRedshift
      BY <3>2 DEF EscreverArquivo, EscreverRedshift, Seguir, Parar, Recusar, Sair, Ir, AEntrar
    <3>3. CASE InserirBloco \/ CopiarRedshift \/ EncherTemporaria \/ CriarTemporaria
      <4>1. pc \in {"bloco", "copiar", "temporaria", "encher"} /\ modo' = modo
        BY <3>3 DEF InserirBloco, CopiarRedshift, EncherTemporaria, CriarTemporaria
      <4>2. Mesclar => modo # "anexo"
        BY <4>1 DEF IInv, Caminho
      <4> QED BY <4>1, <4>2 DEF AEntrar
    <3> QED BY <1>1, <3>1, <3>2, <3>3
  <2> QED BY <2>1, <2>2
<1>2. CASE AnexarBigQuery
  BY <1>2 DEF AnexarBigQuery, AEntrar, Ir, Recusar, Sair
<1>3. CASE DescartarRedshift \/ DesistirDeEsperar \/ Limpar
  BY <1>3 DEF DescartarRedshift, DesistirDeEsperar, Limpar, AEntrar, Ir, Recusar, Sair, remotas
<1>4. CASE Frente
  BY <1>4 DEF Frente, VerificarDestino, Ensaiar, LerRegistro, ErroDaFonte, FimDaLeitura, Voltar, remotas,
     AEntrar, Ir, Terminar
<1>5. CASE Cair \/ Reexecutar
  BY <1>5 DEF Cair, Reexecutar, remotas, AEntrar
<1>6. CASE UNCHANGED vars
  BY <1>6 DEF vars, locais, remotas, AEntrar
<1> QED BY <1>1, <1>2, <1>3, <1>4, <1>5, <1>6 DEF Next, Escrita, Servidor

\* a pipeline that starts is a table nothing has entered
LEMMA InicioMapeado ==
  ASSUME Init, IInv
  PROVE  Tabela!Init
<1>1. existe \in BOOLEAN /\ tabela = <<>> /\ Tipado
  BY DEF IInv, Tipado, TypeOK, Init
<1>2. Enviadas = {} /\ ~AEntrar
  BY DEF Init, Enviadas, AEntrar
<1>3. Inaugurais = 0
  BY <1>1, <1>2, DasInaugurais, FS_EmptySet
<1> QED BY <1>1, <1>3 DEF Tabela!Init

\* What the destination sees is what Landing promises: whole batches only, and
\* under a merge nothing that is already there, but for the batch of the load that
\* created the table (target.go FlushEvery; types.go Dedup)
THEOREM TabelaImplementada == Spec => ImplementaTabela
<1>1. Init => Tabela!Init
  BY InicioServe, InicioMapeado
<1>2. IInv /\ IInv' /\ [Next]_vars =>
        [Tabela!Criar \/ Tabela!Gravar \/ Tabela!Desistir]_(Tabela!vars)
  <2> SUFFICES ASSUME IInv, IInv', [Next]_vars
               PROVE  UNCHANGED Tabela!vars \/ Tabela!Criar \/ Tabela!Gravar \/ Tabela!Desistir
    OBVIOUS
  <2>1. CASE PrepararBigQuery
    BY <2>1, PrepararCria
  <2>2. CASE Submeter
    BY <2>2, SubmeterQuieto
  <2>3. CASE Aterrissar
    BY <2>3, AterrissarGrava
  <2>4. CASE Rejeitar
    BY <2>4, RejeitarDesiste
  <2>5. CASE ~PrepararBigQuery /\ ~Submeter /\ ~Aterrissar /\ ~Rejeitar
    <3>1. UNCHANGED <<cfg, existe, tabela, servidor>> /\ (Mesclar /\ AEntrar' => AEntrar)
      BY <2>5, ForaDaTabela
    <3>2. Tipado /\ Tipado'
      BY DEF IInv
    <3> QED BY <3>1, <3>2, PassoQuieto
  <2> QED BY <2>1, <2>2, <2>3, <2>4, <2>5
<1> QED BY <1>1, <1>2, Invariante, PTL DEF Spec, ImplementaTabela, Tabela!Spec

(***************************************************************************)
(* The declaration of a table of BigQuery, of any number of columns        *)
(***************************************************************************)

Plano == INSTANCE LoadPlan

\* What a load is given for target t, table w, environment a and run r; nothing when one
\* of them is refused
Configuradas(t, w, a, r) ==
  UNION {Plano!resolveConfig(d) : d \in Plano!config(w, a, Plano!options(t, r))}

\* What of a declaration reaches the load as it was declared
Leva(c, t, w, r) ==
  /\ c.Columns = Plano!colunas(t) /\ c.Schema = t.Schema /\ c.PartitionBy = t.PartitionBy
  /\ c.Dedup = t.Dedup /\ c.CreateSQL = w.CreateSQL
  /\ c.RequirePartitionFilter = w.RequirePartitionFilter
  /\ c.CreateTable = Plano!resolveCreate(w, r)
  /\ {"Columns", "Schema", "PartitionBy", "Dedup", "CreateSQL", "RequirePartitionFilter", "CreateTable"}
       \subseteq DOMAIN c

\* The table takes from the target what the target says
LEMMA TabelaLeva ==
  ASSUME NEW t, NEW w, NEW a, NEW r, NEW d \in Plano!config(w, a, Plano!options(t, r))
  PROVE  Leva(d, t, w, r)
<1> DEFINE opt == Plano!options(t, r)
<1>1. /\ opt.Columns = Plano!colunas(t) /\ opt.Schema = t.Schema /\ opt.PartitionBy = t.PartitionBy
      /\ opt.Dedup = t.Dedup /\ opt.Run = r
  BY DEF Plano!options
<1> HIDE DEF opt
<1>2. PICK projeto : d = Plano!LoadConfig(w, a, opt, projeto)
  BY DEF Plano!config, opt
<1> DEFINE conjunto == Plano!Resolve(w.Dataset, a.dataset, "landing")
           balde == Plano!Resolve(w.StagingBucket, a.bucket, projeto \o "-brevis-staging")
           limite == IF w.InlineLimit = 0 THEN Plano!EnvInt(a.limite, 5000) ELSE w.InlineLimit
           criar == Plano!resolveCreate(w, opt.Run)
<1>3. d = [ProjectID |-> projeto, Dataset |-> conjunto, Table |-> w.Name, StagingBucket |-> balde,
           ThresholdForGCS |-> limite, Format |-> "ndjson", Columns |-> opt.Columns, Schema |-> opt.Schema,
           PartitionBy |-> opt.PartitionBy, Dedup |-> opt.Dedup, CreateTable |-> criar,
           CreateSQL |-> w.CreateSQL, RequirePartitionFilter |-> w.RequirePartitionFilter]
  BY <1>2 DEF Plano!LoadConfig
<1> HIDE DEF conjunto, balde, limite
<1>4. QED
  BY <1>1, <1>3 DEF Leva

\* What New refuses, and what it fills in is nothing of what was declared
LEMMA CargaLeva ==
  ASSUME NEW t, NEW w, NEW a, NEW r, NEW c \in Configuradas(t, w, a, r)
  PROVE  /\ Leva(c, t, w, r)
         /\ ~(c.RequirePartitionFilter /\ c.Dedup = "merge")
         /\ c.Dedup = "merge" /\ c.Columns # <<>> => "ingestion_id" \in Plano!ToSet(c.Columns)
         /\ c.RequirePartitionFilter /\ c.Columns # <<>> => "ingestion_loaded_at" \in Plano!ToSet(c.Columns)
<1>1. PICK d \in Plano!config(w, a, Plano!options(t, r)) : c \in Plano!resolveConfig(d)
  BY DEF Configuradas
<1>2. Leva(d, t, w, r)
  BY TabelaLeva
<1> DEFINE balde == IF d.StagingBucket = "" THEN d.ProjectID \o "-brevis-staging" ELSE d.StagingBucket
           limite == IF d.ThresholdForGCS = 0 THEN 5000 ELSE d.ThresholdForGCS
           formato == IF d.Format = "" THEN "ndjson" ELSE d.Format
           novo == [d EXCEPT !.StagingBucket = balde, !.ThresholdForGCS = limite, !.Format = formato]
           recusa == \/ "" \in {d.ProjectID, d.Dataset, d.Table} \/ ~Plano!sourceFormat(d.Format)
                     \/ d.RequirePartitionFilter /\ d.Dedup = "merge"
                     \/ d.Dedup = "merge" /\ d.Columns # <<>> /\ "ingestion_id" \notin Plano!ToSet(d.Columns)
                     \/ d.RequirePartitionFilter /\ d.Columns # <<>>
                          /\ "ingestion_loaded_at" \notin Plano!ToSet(d.Columns)
<1>3. Plano!resolveConfig(d) = IF recusa THEN {} ELSE {novo}
  BY DEF Plano!resolveConfig
<1> HIDE DEF balde, limite, formato
<1>4. ~recusa /\ c = novo
  <2> HIDE DEF recusa, novo
  <2>1. QED
    BY <1>1, <1>3
<1> DEFINE campos == {"Columns", "Schema", "PartitionBy", "Dedup", "CreateSQL", "RequirePartitionFilter", "CreateTable"}
<1>a. campos \subseteq DOMAIN d
  BY <1>2 DEF Leva
<1> HIDE DEF recusa
<1>b. DOMAIN c = DOMAIN d /\ \A f \in campos : c[f] = d[f]
  BY <1>4, <1>a
<1>5. /\ c.Columns = d.Columns /\ c.Schema = d.Schema /\ c.PartitionBy = d.PartitionBy /\ c.Dedup = d.Dedup
      /\ c.CreateSQL = d.CreateSQL /\ c.RequirePartitionFilter = d.RequirePartitionFilter
      /\ c.CreateTable = d.CreateTable /\ DOMAIN c = DOMAIN d
  BY <1>b
<1>6. Leva(c, t, w, r)
  BY <1>2, <1>5 DEF Leva
<1>7. QED
  BY <1>4, <1>5, <1>6 DEF recusa

\* The columns of a schema, as a caller may write them
EsquemasDeclarados == Seq([Name : STRING, Type : STRING, Required : BOOLEAN])

\* What Check lets through has columns of one name each, and each of a type there is
LEMMA Conferido ==
  ASSUME NEW s \in EsquemasDeclarados, Plano!Check(s) = ""
  PROVE  /\ \A k, m \in DOMAIN s : s[k].Name = s[m].Name => k = m
         /\ \A k \in DOMAIN s : s[k].Type \in Plano!Tipos
<1> DEFINE nome(k) == Plano!TrimSpace(s[k].Name)
           nomeadas == {k \in DOMAIN s : nome(k) # ""}
<1>1. nomeadas = DOMAIN s
  BY DEF Plano!Check
<1>2. \A k, m \in nomeadas : k # m => nome(k) # nome(m)
  BY DEF Plano!Check
<1>3. \A k \in nomeadas : s[k].Type \in Plano!Tipos
  BY DEF Plano!Check
<1>4. \A k, m \in DOMAIN s : s[k].Name = s[m].Name => nome(k) = nome(m)
  OBVIOUS
<1> HIDE DEF nome, nomeadas
<1>5. QED
  BY <1>1, <1>2, <1>3, <1>4

\* The table that is created of such a schema: one, of its columns in their order, the
\* SDK's two with the SDK's types
LEMMA TabelaTipada ==
  ASSUME NEW c, c.Schema \in EsquemasDeclarados, \A k \in DOMAIN c.Schema : c.Schema[k].Type \in Plano!Tipos
  PROVE  \E m : /\ Plano!typedTable(c) = {m}
                /\ m.Field = Plano!particaoDe(c) /\ m.Filter = c.RequirePartitionFilter
                /\ Plano!Nomes(m.Schema) = Plano!Nomes(c.Schema)
                /\ \A k \in DOMAIN c.Schema :
                     m.Schema[k].Type = IF c.Schema[k].Name \in DOMAIN Plano!metadataSchema
                                        THEN Plano!metadataSchema[c.Schema[k].Name] ELSE c.Schema[k].Type
<1> DEFINE s == c.Schema
           meta == Plano!metadataSchema
           coluna(k) == IF s[k].Name \in DOMAIN meta
                        THEN [Name |-> s[k].Name, Type |-> meta[s[k].Name], Required |-> TRUE] ELSE s[k]
           n == [k \in DOMAIN s |-> coluna(k)]
           m == [Schema |-> n, Field |-> Plano!particaoDe(c), Filter |-> c.RequirePartitionFilter]
<1>1. Plano!bigquerySchema(s) = {n}
  BY DEF Plano!bigquerySchema
<1>2. \A k \in DOMAIN s : /\ coluna(k).Name = s[k].Name
                          /\ coluna(k).Type = IF s[k].Name \in DOMAIN meta THEN meta[s[k].Name] ELSE s[k].Type
  OBVIOUS
<1>3. Plano!Nomes(n) = Plano!Nomes(s)
  <2> HIDE DEF coluna
  <2>1. QED
    BY <1>2 DEF Plano!Nomes
<1>4. \A k \in DOMAIN s : n[k].Type = IF s[k].Name \in DOMAIN meta THEN meta[s[k].Name] ELSE s[k].Type
  <2> HIDE DEF coluna
  <2>1. QED
    BY <1>2
<1> HIDE DEF n, meta
<1>5. Plano!typedTable(c) = {m}
  BY <1>1 DEF Plano!typedTable
<1>6. m.Schema = n /\ m.Field = Plano!particaoDe(c) /\ m.Filter = c.RequirePartitionFilter
  OBVIOUS
<1> HIDE DEF m
<1>7. QED
  BY <1>3, <1>4, <1>5, <1>6 DEF meta

\* A declaration that is accepted, of whatever columns, in whatever environment, can be
\* carried out: no merge is let through behind a partition filter, or without its
\* ingestion_id where columns are named; a schema gives one table, of distinct columns, in
\* their order and with their types, the SDK's two with the SDK's, partitioned by one of
\* them; and where the job may create a table or infer a type, the table is there or it is
\* the one that was declared (target.go validate, core/config.go resolveConfig,
\* bigquery.go typedTable, load/table.go prepareTable, applyLayout)
THEOREM DeclaracaoQueServe ==
  ASSUME NEW t, t.Schema \in EsquemasDeclarados, Plano!validate(t), NEW w, NEW a, NEW r,
         NEW c \in Configuradas(t, w, a, r)
  PROVE  /\ c.Dedup = "merge" =>
              ~c.RequirePartitionFilter /\ (c.Columns # <<>> => "ingestion_id" \in Plano!ToSet(c.Columns))
         /\ c.Schema # <<>> =>
              /\ \A k, m \in DOMAIN c.Columns : c.Columns[k] = c.Columns[m] => k = m
              /\ \E m : /\ Plano!typedTable(c) = {m}
                        /\ Plano!Nomes(m.Schema) = c.Columns
                        /\ \A k \in DOMAIN c.Schema :
                             m.Schema[k].Type = IF c.Schema[k].Name \in DOMAIN Plano!metadataSchema
                                                THEN Plano!metadataSchema[c.Schema[k].Name] ELSE c.Schema[k].Type
                        /\ c.PartitionBy # "" \/ c.RequirePartitionFilter => m.Field \in Plano!ToSet(c.Columns)
         /\ \A haTabela, sqlCria \in BOOLEAN :
              (/\ Plano!prepareTable(c, haTabela, sqlCria) # {}
               /\ Plano!applyLayout(c).cria \/ Plano!applyLayout(c).infere
               /\ ~haTabela)
              => /\ c.CreateSQL = "" /\ c.Columns # <<>>
                 /\ \A m \in Plano!typedTable(c) : Plano!Nomes(m.Schema) = c.Columns
<1>1. /\ Leva(c, t, w, r)
      /\ ~(c.RequirePartitionFilter /\ c.Dedup = "merge")
      /\ c.Dedup = "merge" /\ c.Columns # <<>> => "ingestion_id" \in Plano!ToSet(c.Columns)
      /\ c.RequirePartitionFilter /\ c.Columns # <<>> => "ingestion_loaded_at" \in Plano!ToSet(c.Columns)
  BY CargaLeva
<1>2. /\ c.Schema \in EsquemasDeclarados /\ Plano!Check(c.Schema) = ""
      /\ c.PartitionBy # "" /\ c.Schema # <<>> => c.PartitionBy \in Plano!ToSet(Plano!Nomes(c.Schema))
      /\ c.Schema # <<>> => c.Columns = Plano!Nomes(c.Schema)
  BY <1>1 DEF Leva, Plano!validate, Plano!colunas
<1>3. /\ \A k, m \in DOMAIN c.Schema : c.Schema[k].Name = c.Schema[m].Name => k = m
      /\ \A k \in DOMAIN c.Schema : c.Schema[k].Type \in Plano!Tipos
  BY <1>2, Conferido
<1>4. c.Schema # <<>> => c.Columns # <<>>
  <2>1. c.Schema # <<>> => 1 \in DOMAIN c.Schema
    <3>1. c.Schema # <<>> => Len(c.Schema) \in Nat \ {0}
      BY <1>2, EmptySeq DEF EsquemasDeclarados
    <3>2. DOMAIN c.Schema = 1..Len(c.Schema)
      BY <1>2, LenProperties DEF EsquemasDeclarados
    <3>3. QED
      BY <3>1, <3>2
  <2>2. DOMAIN Plano!Nomes(c.Schema) = DOMAIN c.Schema
    BY DEF Plano!Nomes
  <2>3. DOMAIN <<>> = {}
    OBVIOUS
  <2>4. QED
    BY <1>2, <2>1, <2>2, <2>3
<1>5. PICK m : /\ Plano!typedTable(c) = {m}
               /\ m.Field = Plano!particaoDe(c)
               /\ Plano!Nomes(m.Schema) = Plano!Nomes(c.Schema)
               /\ \A k \in DOMAIN c.Schema :
                    m.Schema[k].Type = IF c.Schema[k].Name \in DOMAIN Plano!metadataSchema
                                       THEN Plano!metadataSchema[c.Schema[k].Name] ELSE c.Schema[k].Type
  <2>1. c.Schema \in EsquemasDeclarados /\ \A k \in DOMAIN c.Schema : c.Schema[k].Type \in Plano!Tipos
    BY <1>2, <1>3
  <2>2. QED
    BY <2>1, TabelaTipada, Zenon
<1>6. ASSUME c.Schema # <<>>
      PROVE  \A k, l \in DOMAIN c.Columns : c.Columns[k] = c.Columns[l] => k = l
  BY <1>2, <1>3, <1>6 DEF Plano!Nomes
<1>7. ASSUME c.Schema # <<>>, c.PartitionBy # "" \/ c.RequirePartitionFilter
      PROVE  m.Field \in Plano!ToSet(c.Columns)
  <2>1. m.Field = IF c.PartitionBy # "" THEN c.PartitionBy ELSE "ingestion_loaded_at"
    BY <1>5 DEF Plano!particaoDe
  <2>2. QED
    BY <1>1, <1>2, <1>4, <1>7, <2>1
<1>8. ASSUME NEW haTabela \in BOOLEAN, NEW sqlCria \in BOOLEAN,
             Plano!prepareTable(c, haTabela, sqlCria) # {},
             Plano!applyLayout(c).cria \/ Plano!applyLayout(c).infere, ~haTabela
      PROVE  c.CreateSQL = "" /\ c.Columns # <<>> /\ Plano!Nomes(m.Schema) = c.Columns
  <2>1. c.CreateSQL = "" /\ c.CreateTable
    BY <1>8 DEF Plano!applyLayout
  <2>2. Plano!PlanoDeCriacao(c) # "recusa"
    BY <1>8, <2>1 DEF Plano!prepareTable
  <2>3. c.Schema # <<>>
    BY <2>1, <2>2 DEF Plano!PlanoDeCriacao
  <2>4. QED
    BY <1>2, <1>4, <1>5, <2>1, <2>3
<1>9. c.Schema # <<>> =>
        \E x : /\ Plano!typedTable(c) = {x}
               /\ Plano!Nomes(x.Schema) = c.Columns
               /\ \A k \in DOMAIN c.Schema :
                    x.Schema[k].Type = IF c.Schema[k].Name \in DOMAIN Plano!metadataSchema
                                       THEN Plano!metadataSchema[c.Schema[k].Name] ELSE c.Schema[k].Type
               /\ c.PartitionBy # "" \/ c.RequirePartitionFilter => x.Field \in Plano!ToSet(c.Columns)
  <2>1. SUFFICES ASSUME c.Schema # <<>>
                 PROVE  /\ Plano!Nomes(m.Schema) = c.Columns
                        /\ c.PartitionBy # "" \/ c.RequirePartitionFilter => m.Field \in Plano!ToSet(c.Columns)
    BY <1>5
  <2>2. QED
    BY <1>2, <1>5, <1>7, <2>1
<1>10. QED
  BY <1>1, <1>5, <1>6, <1>8, <1>9
================================================================================
