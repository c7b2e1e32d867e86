-------------------------------- MODULE RunQueue --------------------------------
(***************************************************************************)
(* The two Postgres tables the engine shares: `runs` (its status column)   *)
(* and `queue_items`, with the statements the repositories execute on      *)
(* them.  Every operator below is ONE statement or one transaction, and so *)
(* one atomic step; what may happen between two statements is decided by   *)
(* the modules that extend this one.                                       *)
(*                                                                         *)
(* A run enters the queue once and `queue_items.run_id` is unique, so an   *)
(* item is named by its run.  The columns reivindicado_em and              *)
(* disponivel_em are compared with now() and with nothing else; `fila[r]`  *)
(* is the outcome of these comparisons:                                    *)
(*   "fora"      no row                                                    *)
(*   "atrasada"  not claimed, disponivel_em in the future (backoff)        *)
(*   "livre"     not claimed, disponivel_em reached                        *)
(*   "presa"     claimed for less than the visibility timeout              *)
(*   "vencida"   claimed for longer than the visibility timeout            *)
(* reivindicado_por is written and never read.                             *)
(***************************************************************************)
EXTENDS Integers, FiniteSets, RunStatus

CONSTANTS
  Runs,           \* the runs that may exist
  WorkflowDe,     \* runs.workflow_slug
  MaxAtivos,      \* runs.max_ativos, 0 = no limit
  Prioridade      \* queue_items.prioridade

ASSUME RunsFinitos == IsFiniteSet(Runs)
ASSUME LimitesNaturais == MaxAtivos \in [Runs -> Nat]

VARIABLES
  status,         \* runs.status
  fila            \* queue_items, see above

EstadoDoItem == {"fora", "atrasada", "livre", "presa", "vencida"}

Livres == {r \in Runs : fila[r] = "livre"}
Presas == {r \in Runs : fila[r] \in {"presa", "vencida"}}

MesmoWorkflow(r, s) == WorkflowDe[r] = WorkflowDe[s]

--------------------------------------------------------------------------------
(* runs *)

\* Mutant: the state is written without being validated
TransicionarSemValidar(r, para) == status' = [status EXCEPT ![r] = para]

\* RunRepo.Transicionar: the state is read with FOR UPDATE and validated in
\* the transaction that writes it, so test and write are one step.
Transicionar(r, para) ==
  /\ PodeIr(status[r], para)
  /\ status' = [status EXCEPT ![r] = para]

--------------------------------------------------------------------------------
(* queue_items *)

\* Mutant: the item waits for an instant nobody asked for
EnqueueComAtraso(r) ==
  fila' = IF fila[r] = "fora" THEN [fila EXCEPT ![r] = "atrasada"] ELSE fila

\* Queue.Enqueue: ON CONFLICT (run_id) DO NOTHING
Enqueue(r) ==
  fila' = IF fila[r] = "fora" THEN [fila EXCEPT ![r] = "livre"] ELSE fila

\* Queue.Done: DELETE by id, a no-op when the row is gone
Done(r) == fila' = [fila EXCEPT ![r] = "fora"]

\* Queue.Release: UPDATE by id, whoever holds the claim; `quando` is
\* "livre" for a zero delay and "atrasada" for a backoff
Release(r, quando) ==
  fila' = IF fila[r] = "fora" THEN fila ELSE [fila EXCEPT ![r] = quando]

\* Mutant: the sweep takes every claim, however young
VencidasSemPrazo == Presas

\* Queue.Recuperar: every claim older than the limit is undone; the rows
\* are returned
Vencidas == {r \in Runs : fila[r] = "vencida"}
Recuperar ==
  fila' = [r \in Runs |-> IF r \in Vencidas THEN "livre" ELSE fila[r]]

\* row_number() OVER (PARTITION BY workflow_slug ORDER BY prioridade DESC, ...):
\* a numbering of the free items of every workflow.  Equal priorities are
\* ordered by disponivel_em, which is not modelled: any order is allowed.
Numeracoes ==
  {p \in [Livres -> 1..Cardinality(Runs)] :
     \A r \in Livres :
       /\ p[r] = 1 + Cardinality({s \in Livres : MesmoWorkflow(r, s) /\ p[s] < p[r]})
       /\ \A s \in Livres : MesmoWorkflow(r, s) /\ r # s =>
            /\ p[r] # p[s]
            /\ Prioridade[r] > Prioridade[s] => p[r] < p[s]}

\* CTE em_voo: the CLAIMED items of the workflow of r
JaEmVoo(r) == Cardinality({s \in Presas : MesmoWorkflow(r, s)})

\* Mutants: the items claimed together are not counted; the limit is never reached
ElegiveisSemPosicao(p) ==
  {r \in Livres : MaxAtivos[r] = 0 \/ JaEmVoo(r) < MaxAtivos[r]}
ElegiveisAbaixoDoLimite(p) ==
  {r \in Livres : MaxAtivos[r] = 0 \/ JaEmVoo(r) + p[r] < MaxAtivos[r]}

\* CTE elegiveis with its filter: what the claim may take, given a numbering
Elegiveis(p) ==
  {r \in Livres : MaxAtivos[r] = 0 \/ JaEmVoo(r) + p[r] <= MaxAtivos[r]}

\* ORDER BY prioridade DESC ... LIMIT limite FOR UPDATE SKIP LOCKED: the rows
\* of `alvo` are locked one by one in order, and a row changed since the
\* statement's snapshot is tested again, alone: `alvo` was computed with the
\* counts of the snapshot, which are not.
Lotes(alvo, limite) ==
  LET ainda == alvo \cap Livres
      tamanho == IF Cardinality(ainda) <= limite THEN Cardinality(ainda) ELSE limite
  IN {S \in SUBSET ainda :
        /\ Cardinality(S) = tamanho
        /\ \A r \in S, s \in ainda \ S : Prioridade[s] <= Prioridade[r]}

\* Mutant: the claim takes the rows out of the table
ReivindicarApagando(S) ==
  fila' = [r \in Runs |-> IF r \in S THEN "fora" ELSE fila[r]]

Reivindicar(S) ==
  fila' = [r \in Runs |-> IF r \in S THEN "presa" ELSE fila[r]]

================================================================================
