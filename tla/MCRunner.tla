-------------------------------- MODULE MCRunner --------------------------------
(***************************************************************************)
(* Instances of Runner.  Graphs that differ by the names of their steps    *)
(* behave alike: one of each shape is an initial state.                    *)
(***************************************************************************)
EXTENDS Runner, StepExecution, TLC

\* `brevis scheduler` leaves the attempts of a step at one and executes a run
\* again; the attempts of a step are those of `brevis run`
ComandosDoBrevis == {<<1, 2>>, <<2, 1>>}
SoOScheduler == {<<2, 1>>}

Simetria == Permutations(Nos)
Formas(g) == {{<<p[e[1]], p[e[2]]>> : e \in g} : p \in Permutations(Nos)}
UmaPorForma == {g \in Grafos : g = CHOOSE h \in Formas(g) : TRUE}

Cadeias == {g \in Grafos : Cardinality(g) = 2 /\ Cardinality(Nivel(g, 1)) = 1
                             /\ Cardinality(Nivel(g, 2)) = 1}
Sozinho(r) == \A q \in Runs : execucao[q] = "livre" <=> q = r
Todos == \A r \in Runs : execucao[r] = "livre"

\* One run over every shape, with a death where a step is tried once or the
\* steps follow each other; all runs over a chain, without deaths
InitMC ==
  /\ Init
  /\ grafo \in UmaPorForma
  /\ \/ /\ Sozinho(CHOOSE r \in Runs : TRUE)
        /\ IF config[2] = 1 \/ grafo \in Cadeias THEN quedas = 0 ELSE quedas = MaxQuedas
     \/ Todos /\ grafo \in Cadeias /\ quedas = MaxQuedas
SpecJustaMC == InitMC /\ [][Next]_vars /\ Justica

\* Before the first pod exists: whatever a step declares and wherever it runs, it runs
\* with what it declared, with no secret it may not have, and its log is accounted for
PassoServe == Init => PassoFiel
================================================================================
