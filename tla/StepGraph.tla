-------------------------------- MODULE StepGraph --------------------------------
(***************************************************************************)
(* The graph of the steps of a workflow: the cycle that Validate refuses   *)
(* (src/internal/domain/workflow/workflow.go) and the levels the runner    *)
(* executes (src/internal/graph/order.go).  A graph is its set of edges    *)
(* <<from, to>>.                                                           *)
(***************************************************************************)
EXTENDS Naturals, FiniteSets

CONSTANT Nos        \* the ids of the steps

ASSUME NosFinitos == IsFiniteSet(Nos)

Grafos == SUBSET {e \in Nos \X Nos : e[1] # e[2]}

Antes(g, n) == {m \in Nos : <<m, n>> \in g}

\* encontrarCiclo, by what it decides: a set of steps each of which has a
\* predecessor in the set cannot be left by walking backwards
Ciclico(g) == \E S \in (SUBSET Nos) \ {{}} : \A n \in S : Antes(g, n) \cap S # {}

\* Mutant: the counter of a step is tested for a decrement, not for zero
FeitosComUm(g) ==
  LET f[k \in 0..Cardinality(Nos)] ==
        IF k = 0 THEN {}
        ELSE f[k - 1] \cup {n \in Nos : Antes(g, n) = {} \/ Antes(g, n) \cap f[k - 1] # {}}
  IN f

\* Niveis counts down the incoming edges of every step, level by level:
\* Feitos(g)[k] are the steps whose counter is zero after k levels
Feitos(g) ==
  LET f[k \in 0..Cardinality(Nos)] ==
        IF k = 0 THEN {}
        ELSE f[k - 1] \cup {n \in Nos : Antes(g, n) \subseteq f[k - 1]}
  IN f

Nivel(g, k) == Feitos(g)[k] \ Feitos(g)[k - 1]

\* Mutant: steps that are left over are not noticed
AlgumNivel(g) == Feitos(g)[Cardinality(Nos)] # {}

\* vistos = len(w.Nodes), or an error
TemNiveis(g) == Feitos(g)[Cardinality(Nos)] = Nos

Ultimo(g, k) == Feitos(g)[k] = Nos
================================================================================
