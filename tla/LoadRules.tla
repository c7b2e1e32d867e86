--------------------------------- MODULE LoadRules ---------------------------------
(***************************************************************************)
(* What the load decides from its declaration, the batch and the table,    *)
(* without touching either: src/sdk/internal/core/metadata.go and          *)
(* reconcile.go, src/sdk/load/table.go, load.go, columns.go, and how rows  *)
(* enter a table.  A row is its ingestion_id and the set of its fields.    *)
(***************************************************************************)
EXTENDS Rows, FiniteSets

\* camposDe: every field some record of the batch carries
CamposDe(lote) == UNION {lote[n].campos : n \in DOMAIN lote}

\* the declaration and the batch agree, as far as its first record goes
CheckColumns(declaradas, lote) ==
  declaradas = {} \/ lote = <<>> \/ Head(lote).campos = declaradas

\* no field of the batch is left out of the table, and something is left to write
Reconcile(daTabela, trazidos) == trazidos \subseteq daTabela /\ trazidos # {}

\* a declared column the table lacks cannot be loaded; one it has besides stays NULL
DeclaracaoCabe(declaradas, daTabela) == declaradas \subseteq daTabela

\* ClusterBy against the rows the table is created for
CheckClusterFields(campos, lote) == campos = {} \/ lote = <<>> \/ campos \subseteq Head(lote).campos

StrategyFor(n, limite) == IF n > limite THEN "gcs" ELSE "inline"

\* only what was declared reaches the file COPY reads
EncodeNDJSON(lote, colunas) ==
  [n \in DOMAIN lote |-> [lote[n] EXCEPT !.campos = IF colunas = {} THEN @ ELSE @ \cap colunas]]

--------------------------------------------------------------------------------
(* How a batch enters a table                                                  *)

\* ON target.ingestion_id = incoming.ingestion_id, WHEN NOT MATCHED: two rows of
\* the batch with one id both enter
MergeSQL(tabela, lote) ==
  tabela \o Selecionadas(lote, {n \in DOMAIN lote : lote[n].id \notin Ids(tabela)})

\* ON CONFLICT DO NOTHING, INSERT IGNORE: row by row, against a unique index
Insercao(tabela, lote) ==
  LET f[n \in 0..Len(lote)] ==
        IF n = 0 THEN tabela
        ELSE IF lote[n].id \in Ids(f[n - 1]) THEN f[n - 1] ELSE Append(f[n - 1], lote[n])
  IN f
InsertSQL(tabela, lote) == Insercao(tabela, lote)[Len(lote)]

\* a plain append under a unique index is refused when an id would repeat
SemConflito(tabela, lote) ==
  Cardinality(Ids(tabela \o lote)) = Len(lote) + Cardinality(Ids(tabela))
================================================================================
