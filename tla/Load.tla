----------------------------------- MODULE Load -----------------------------------
(***************************************************************************)
(* One pipeline of the SDK, from its stream of records to its destination: *)
(* src/sdk/pipeline.go and sdk.go in front, and behind them the drivers    *)
(* for BigQuery (src/sdk/load), Postgres, MySQL, Redshift and files        *)
(* (src/sdk/to).  The program may die between any two calls and be run     *)
(* again; a statement or a job it has submitted runs on the server whether *)
(* or not somebody waits for the answer.                                   *)
(***************************************************************************)
EXTENDS LoadRules

CONSTANTS
  Pedidos,        \* what may be run; see Pedido
  MaxExecucoes,   \* times the pipeline is run
  MaxFalhas       \* calls that fail

VARIABLES
  cfg,         \* the pipeline and its source, the same in every execution
  pc,          \* where the program is
  i,           \* records read from the stream
  leva,        \* records not written yet
  lr,          \* LoadResult of the Write in progress
  erro,        \* the Write in progress failed
  b,           \* rows the transaction in progress has taken (MySQL)
  res,         \* Result of the execution
  modo,        \* how this batch enters: "anexo", "mescla" or "ignora"
  existe,      \* the table is there
  tabela,      \* its rows
  servidor,    \* jobs and statements submitted and not finished
  palco,       \* staged objects and temporary tables that are there
  execucao, falhas,
  desfecho,    \* how the last execution ended
  gravadas,    \* history: rows the current execution put in the table
  completou,   \* history: some execution loaded everything
  sobrou       \* history: a removal failed in this execution

locais == <<pc, i, leva, lr, erro, b, res, modo>>
remotas == <<existe, tabela, servidor, palco>>
historia == <<execucao, desfecho, gravadas, completou>>
vars == <<cfg, locais, remotas, historia, falhas, sobrou>>

SemResultado == [linhas |-> 0, ignoradas |-> 0, objetos |-> {}]

\* A pipeline: destino; dedup; flush (FlushEvery); criar (CreateTable with a
\* schema, with SQL, or not) and cluster; existe, daTabela, indice: the table that
\* is there, its columns, whether ingestion_id is unique; limite (InlineLimit),
\* manter (KeepStagedFile), colunas (Columns, empty when not declared), bloco
\* (BatchSize), ensaio (-dry-run); fonte, the stream: records [tipo, id, campos],
\* where a "salta" is one a transformer skips and an "erro" the point it breaks

Init ==
  /\ cfg \in Pedidos
  /\ pc = "verificar" /\ i = 0 /\ leva = <<>> /\ lr = SemResultado /\ erro = FALSE /\ b = 0
  /\ res = SemResultado /\ modo = "anexo"
  /\ existe = cfg.existe /\ tabela = <<>> /\ servidor = {} /\ palco = {}
  /\ execucao = 1 /\ falhas = 0 /\ desfecho = "nenhum"
  /\ gravadas = 0 /\ completou = FALSE /\ sobrou = FALSE

\* What a pipeline can be.  A directory is always there and takes any field; only the
\* SQL databases have unique indexes (BigQuery has none, Redshift does not enforce them)
ASSUME PedidosValidos ==
  \A c \in Pedidos :
    /\ c.destino \in {"files", "postgres", "mysql", "redshift", "bigquery"}
    /\ c.dedup \in {"none", "merge"} /\ c.criar \in {"nao", "schema", "sql"}
    /\ {c.flush, c.limite} \subseteq Nat /\ c.bloco \in Nat \ {0}
    /\ {c.existe, c.indice, c.manter, c.ensaio} \subseteq BOOLEAN
    /\ {c.cluster, c.daTabela, c.colunas} \subseteq SUBSET STRING
    /\ c.fonte \in Seq([tipo : {"linha", "salta", "erro"}, id : Nat, campos : SUBSET STRING])
    /\ c.destino = "files" => c.existe
    /\ c.indice => c.destino \in {"postgres", "mysql"}

\* an execution, and no failure before the first
ASSUME LimitesNaturais == MaxExecucoes \in Nat \ {0} /\ MaxFalhas \in Nat

--------------------------------------------------------------------------------
(* Helpers of the steps                                                        *)

Ir(p) == pc' = p
Terminar(d) ==
  /\ pc' = "fim" /\ desfecho' = d
  /\ completou' = (completou \/ d = "ok")
  /\ UNCHANGED <<execucao, gravadas>>

\* a call to the destination that does not answer well
Falha == falhas < MaxFalhas /\ falhas' = falhas + 1

\* Write is over: the deferred removals run and the result goes back
Sair(comErro, r) == pc' = "limpar" /\ erro' = comErro /\ lr' = r
Recusar == Sair(TRUE, lr)

--------------------------------------------------------------------------------
(* The front: pipeline.go, sdk.go, transform.go                                *)

\* the declaration against the destination, before the source is read
CheckDestination ==
  \/ cfg.colunas = {} \/ ~existe \/ cfg.destino \in {"files", "redshift"}
  \/ cfg.colunas \subseteq cfg.daTabela

VerificarDestino ==
  /\ pc = "verificar"
  /\ \/ CheckDestination /\ Ir("lendo") /\ UNCHANGED <<historia, falhas>>
     \/ ~CheckDestination /\ Terminar("erro") /\ UNCHANGED falhas
     \/ cfg.colunas # {} /\ cfg.destino \notin {"files", "redshift"} /\ Falha /\ Terminar("erro")
  /\ UNCHANGED <<cfg, i, leva, lr, erro, b, res, modo, remotas, sobrou>>

\* -dry-run reads and transforms, and writes nothing
Ensaiar ==
  /\ pc = "lendo" /\ cfg.ensaio
  /\ Terminar("ensaio")
  /\ UNCHANGED <<cfg, i, leva, lr, erro, b, res, modo, remotas, falhas, sobrou>>

\* one record through the Transform chain; a SkipRecord takes it out
Cadeia(r) == IF r.tipo = "salta" THEN <<>> ELSE <<[id |-> r.id, campos |-> r.campos]>>

LevaCheia(l) == cfg.flush > 0 /\ Len(l) >= cfg.flush

LerRegistro ==
  /\ pc = "lendo" /\ ~cfg.ensaio /\ i < Len(cfg.fonte) /\ cfg.fonte[i + 1].tipo # "erro"
  /\ i' = i + 1
  /\ leva' = leva \o Cadeia(cfg.fonte[i + 1])
  /\ pc' = IF LevaCheia(leva') THEN "escrever" ELSE "lendo"
  /\ UNCHANGED <<cfg, lr, erro, b, res, modo, remotas, historia, falhas, sobrou>>

\* collect gives up with nothing written; loadEmLevas hands back what the
\* batches before this one wrote, and drops the records read since
ErroDaFonte ==
  /\ pc = "lendo" /\ ~cfg.ensaio /\ i < Len(cfg.fonte) /\ cfg.fonte[i + 1].tipo = "erro"
  /\ Terminar("erro")
  /\ leva' = <<>>
  /\ UNCHANGED <<cfg, i, lr, erro, b, res, modo, remotas, falhas, sobrou>>

\* Mutant: what is left of a reading in batches is not written
FimSemUltimaLeva ==
  /\ pc = "lendo" /\ ~cfg.ensaio /\ i = Len(cfg.fonte)
  /\ IF leva # <<>> /\ cfg.flush = 0
     THEN Ir("escrever") /\ UNCHANGED historia
     ELSE Terminar("ok")
  /\ UNCHANGED <<cfg, i, leva, lr, erro, b, res, modo, remotas, falhas, sobrou>>

FimDaLeitura ==
  /\ pc = "lendo" /\ ~cfg.ensaio /\ i = Len(cfg.fonte)
  /\ IF leva # <<>>
     THEN Ir("escrever") /\ UNCHANGED historia
     ELSE Terminar("ok")
  /\ UNCHANGED <<cfg, i, leva, lr, erro, b, res, modo, remotas, falhas, sobrou>>

\* Mutant: the result of a batch replaces that of the others
SomarSubstituindo(r, l) == l

\* the result of a batch is added to the others; that of a single Write is it
Somar(r, l) ==
  [linhas |-> r.linhas + l.linhas, ignoradas |-> r.ignoradas + l.ignoradas,
   objetos |-> r.objetos \cup l.objetos]
Aplicar(r, l) == l

\* Mutant: the batch is not emptied after it was written
VoltarSemEsvaziar ==
  /\ pc = "devolver"
  /\ res' = IF cfg.flush > 0 THEN Somar(res, lr) ELSE Aplicar(res, lr)
  /\ lr' = SemResultado /\ erro' = FALSE /\ b' = 0
  /\ \/ erro /\ Terminar("erro")
     \/ ~erro /\ cfg.flush = 0 /\ Terminar("ok")
     \/ ~erro /\ cfg.flush > 0 /\ Ir("lendo") /\ UNCHANGED historia
  /\ UNCHANGED <<cfg, i, leva, modo, remotas, falhas, sobrou>>

\* Write has returned
Voltar ==
  /\ pc = "devolver"
  /\ res' = IF cfg.flush > 0 THEN Somar(res, lr) ELSE Aplicar(res, lr)
  /\ leva' = <<>> /\ lr' = SemResultado /\ erro' = FALSE /\ b' = 0
  /\ \/ erro /\ Terminar("erro")
     \/ ~erro /\ cfg.flush = 0 /\ Terminar("ok")
     \/ ~erro /\ cfg.flush > 0 /\ Ir("lendo") /\ UNCHANGED historia
  /\ UNCHANGED <<cfg, i, modo, remotas, falhas, sobrou>>

--------------------------------------------------------------------------------
(* Submitting to the server, and waiting                                       *)

\* what the statement or job does to the table once it is through
Efeito(j) ==
  CASE j.tipo = "anexo"  -> tabela \o j.lote
    [] j.tipo = "mescla" -> MergeSQL(tabela, j.lote)
    [] j.tipo = "ignora" -> IF cfg.indice THEN InsertSQL(tabela, j.lote) ELSE tabela \o j.lote

\* the server takes it: the fields fit and no unique index is violated
Cabe(j) ==
  /\ CamposDe(j.lote) \subseteq cfg.daTabela
  /\ cfg.indice /\ j.tipo # "ignora" => SemConflito(tabela, j.lote)

\* Mutant: the columns are those of the first record, not those of the batch
LoteDoPrimeiro == EncodeNDJSON(leva, Head(leva).campos)

LoteAGravar == IF cfg.destino = "redshift" THEN EncodeNDJSON(leva, cfg.colunas) ELSE leva

Objeto == [tipo |-> "objeto", de |-> execucao, n |-> i]
Temporaria == [tipo |-> "tabela", de |-> execucao, n |-> i]

Pedido(tipo) == [de |-> execucao, tipo |-> tipo, lote |-> LoteAGravar]
MeuPedido(j) == pc = "esperando" /\ j.de = execucao

Submeter ==
  /\ pc = "submeter"
  /\ servidor' = servidor \cup {Pedido(modo)}
  /\ Ir("esperando")
  /\ UNCHANGED <<cfg, i, leva, lr, erro, b, res, modo, existe, tabela, palco, historia, falhas, sobrou>>

\* what the driver reports for a batch that put n rows in.  Redshift does not ask
\* the cluster; BigQuery and Postgres count what the statement inserted
Contagem(n) ==
  LET total == Len(leva)
      linhas == IF cfg.destino = "redshift" THEN total ELSE n
  IN [linhas |-> linhas, ignoradas |-> IF modo = "anexo" THEN 0 ELSE total - linhas,
      objetos |-> IF cfg.manter THEN palco \cap {Objeto} ELSE {}]

\* The server finishes what was submitted: the effect is there whether or not
\* anybody waits.  Redshift has a DROP to run before Write returns.
Aterrissar ==
  \E j \in servidor :
    /\ Cabe(j)
    /\ servidor' = servidor \ {j} /\ tabela' = Efeito(j)
    /\ IF MeuPedido(j)
       THEN /\ lr' = Contagem(Len(Efeito(j)) - Len(tabela))
            /\ gravadas' = gravadas + Len(Efeito(j)) - Len(tabela)
            /\ Ir(IF cfg.destino = "redshift" /\ modo = "mescla" THEN "descartar" ELSE "limpar")
       ELSE UNCHANGED <<lr, gravadas, pc>>
    /\ UNCHANGED <<cfg, i, leva, erro, b, res, modo, existe, palco, execucao, desfecho, completou, falhas, sobrou>>

\* It is refused: it does not fit; or, not ours any more, its session is gone or
\* what it reads was deleted
Rejeitar ==
  \E j \in servidor :
    /\ ~Cabe(j) \/ ~MeuPedido(j)
    /\ servidor' = servidor \ {j}
    /\ IF MeuPedido(j) THEN Recusar ELSE UNCHANGED <<pc, erro, lr>>
    /\ UNCHANGED <<cfg, i, leva, b, res, modo, existe, tabela, palco, historia, falhas, sobrou>>

\* the wait fails: what was submitted goes on without us
DesistirDeEsperar ==
  /\ pc = "esperando" /\ Falha /\ Recusar
  /\ UNCHANGED <<cfg, i, leva, b, res, modo, remotas, historia, sobrou>>

--------------------------------------------------------------------------------
(* The drivers, up to the statement or job that changes the table              *)

Mesclar == cfg.dedup = "merge"

Seguir(p, m) == Ir(p) /\ modo' = m /\ UNCHANGED <<lr, erro>>
Parar == Recusar /\ UNCHANGED modo

\* Mutant: the index is not asked for
AceitaSemIndice ==
  CheckColumns(cfg.colunas, leva) /\ existe /\ Reconcile(cfg.daTabela, CamposDe(leva))

\* what both SQL drivers ask before they write: the declaration, the table, every
\* field of the batch, and under a merge the index that makes ids unique
AceitaSQL ==
  /\ CheckColumns(cfg.colunas, leva)
  /\ existe /\ Reconcile(cfg.daTabela, CamposDe(leva))
  /\ Mesclar => cfg.indice

EscreverPostgres ==
  /\ pc = "escrever" /\ cfg.destino = "postgres"
  /\ \/ AceitaSQL /\ UNCHANGED falhas /\ Seguir("submeter", IF Mesclar THEN "ignora" ELSE "anexo")
     \/ ~AceitaSQL /\ UNCHANGED falhas /\ Parar
     \/ Falha /\ Parar
  /\ UNCHANGED <<cfg, i, leva, b, res, remotas, historia, sobrou>>

EscreverMySQL ==
  /\ pc = "escrever" /\ cfg.destino = "mysql"
  /\ \/ AceitaSQL /\ UNCHANGED falhas /\ Seguir("bloco", IF Mesclar THEN "ignora" ELSE "anexo")
     \/ ~AceitaSQL /\ UNCHANGED falhas /\ Parar
     \/ Falha /\ Parar
  /\ UNCHANGED <<cfg, i, leva, b, res, remotas, historia, sobrou>>

\* Mutant: the end of the last block is not cut to the batch
InserirBlocoSemMin ==
  /\ pc = "bloco" /\ (cfg.indice => servidor = {})
  /\ LET ate == IF b + cfg.bloco < Len(leva) THEN b + cfg.bloco ELSE Len(leva)
         lote == SubSeq(leva, 1, ate)
         total == IF modo = "ignora" THEN Len(InsertSQL(tabela, lote)) - Len(tabela) ELSE ate
         cabe == modo = "anexo" /\ cfg.indice => SemConflito(tabela, lote)
         ignoradas(n) == IF Mesclar THEN Len(leva) - n ELSE 0
     IN \/ /\ cabe /\ b' = b + cfg.bloco
           /\ lr' = [lr EXCEPT !.linhas = total, !.ignoradas = ignoradas(total)]
           /\ Ir(IF ate = Len(leva) THEN "submeter" ELSE "bloco")
           /\ UNCHANGED <<erro, falhas>>
        \/ /\ (~cabe /\ UNCHANGED falhas) \/ Falha
           /\ Sair(TRUE, [lr EXCEPT !.ignoradas = ignoradas(lr.linhas)])
           /\ UNCHANGED b
  /\ UNCHANGED <<cfg, i, leva, res, modo, remotas, historia, sobrou>>

\* One INSERT of BatchSize rows inside the transaction.  Rows another transaction
\* holds under the unique index are waited for.
InserirBloco ==
  /\ pc = "bloco" /\ (cfg.indice => servidor = {})
  /\ LET ate == IF b + cfg.bloco < Len(leva) THEN b + cfg.bloco ELSE Len(leva)
         lote == SubSeq(leva, 1, ate)
         total == IF modo = "ignora" THEN Len(InsertSQL(tabela, lote)) - Len(tabela) ELSE ate
         cabe == modo = "anexo" /\ cfg.indice => SemConflito(tabela, lote)
         ignoradas(n) == IF Mesclar THEN Len(leva) - n ELSE 0
     IN \/ /\ cabe /\ b' = ate
           /\ lr' = [lr EXCEPT !.linhas = total, !.ignoradas = ignoradas(total)]
           /\ Ir(IF ate = Len(leva) THEN "submeter" ELSE "bloco")
           /\ UNCHANGED <<erro, falhas>>
        \/ /\ (~cabe /\ UNCHANGED falhas) \/ Falha
           /\ Sair(TRUE, [lr EXCEPT !.ignoradas = ignoradas(lr.linhas)])
           /\ UNCHANGED b
  /\ UNCHANGED <<cfg, i, leva, res, modo, remotas, historia, sobrou>>

\* a directory has no key to match on; an object appears whole or not at all
EscreverArquivo ==
  /\ pc = "escrever" /\ cfg.destino = "files"
  /\ LET aceita == ~Mesclar /\ CheckColumns(cfg.colunas, leva)
     IN \/ aceita /\ UNCHANGED falhas /\ Seguir("submeter", "anexo")
        \/ ~aceita /\ UNCHANGED falhas /\ Parar
        \/ Falha /\ Parar
  /\ UNCHANGED <<cfg, i, leva, b, res, remotas, historia, sobrou>>

\* the batch goes to S3 first: the declaration, then the upload
EscreverRedshift ==
  /\ pc = "escrever" /\ cfg.destino = "redshift"
  /\ \/ /\ CheckColumns(cfg.colunas, leva) /\ Ir("copiar")
        /\ modo' = IF Mesclar THEN "mescla" ELSE "anexo"
        /\ palco' = palco \cup {Objeto}
        /\ lr' = [lr EXCEPT !.objetos = IF cfg.manter THEN {Objeto} ELSE {}]
        /\ UNCHANGED <<erro, falhas, sobrou>>
     \/ ~CheckColumns(cfg.colunas, leva) /\ Parar /\ UNCHANGED <<palco, falhas, sobrou>>
     \/ /\ Falha /\ Parar
        /\ \/ UNCHANGED <<palco, sobrou>>
           \/ palco' = palco \cup {Objeto} /\ sobrou' = TRUE
  /\ UNCHANGED <<cfg, i, leva, b, res, existe, tabela, servidor, historia>>

\* the connection, and under a merge the session's temporary table and its COPY
CopiarRedshift ==
  /\ pc = "copiar"
  /\ \/ existe /\ Ir("submeter") /\ UNCHANGED <<erro, lr, falhas>>
     \/ ~existe /\ Recusar /\ UNCHANGED falhas
     \/ Falha /\ Recusar
  /\ UNCHANGED <<cfg, i, leva, b, res, modo, remotas, historia, sobrou>>

\* the rows are in: a DROP that fails makes the Write fail all the same
DescartarRedshift ==
  /\ pc = "descartar"
  /\ \/ Sair(FALSE, lr) /\ UNCHANGED falhas
     \/ Falha /\ Sair(TRUE, [lr EXCEPT !.linhas = 0])
  /\ UNCHANGED <<cfg, i, leva, b, res, modo, remotas, historia, sobrou>>

\* how a batch enters a table that was there before it
\* Mutant: whether the table existed is not asked
ModoSemExistiu == IF Mesclar /\ cfg.criar = "nao" THEN "mescla" ELSE "anexo"
ModoNaExistente == IF Mesclar THEN "mescla" ELSE "anexo"

\* What BigQuery's table is to be: it is there, or it is created from the schema
\* or the consumer's SQL.  ClusterBy is looked at after the creation.
PrepararBigQuery ==
  /\ pc = "escrever" /\ cfg.destino = "bigquery"
  /\ LET criavel == ~existe /\ cfg.criar # "nao" /\ CheckColumns(cfg.colunas, leva)
         novo == IF CheckClusterFields(cfg.cluster, leva) THEN Seguir("anexar", "anexo") ELSE Parar
     IN \/ /\ existe /\ CheckColumns(cfg.colunas, leva) /\ DeclaracaoCabe(cfg.colunas, cfg.daTabela)
           /\ Seguir(IF ModoNaExistente = "mescla" THEN "temporaria" ELSE "anexar", ModoNaExistente)
           /\ UNCHANGED <<existe, falhas>>
        \/ /\ ~CheckColumns(cfg.colunas, leva) \/ (existe /\ ~DeclaracaoCabe(cfg.colunas, cfg.daTabela))
              \/ (~existe /\ cfg.criar = "nao")
           /\ Parar /\ UNCHANGED <<existe, falhas>>
        \/ criavel /\ existe' = TRUE /\ novo /\ UNCHANGED falhas
        \/ Falha /\ Parar /\ (UNCHANGED existe \/ (criavel /\ existe' = TRUE))
  /\ UNCHANGED <<cfg, i, leva, b, res, tabela, servidor, palco, historia, sobrou>>

\* a batch above InlineLimit is staged in GCS; a failed upload is removed again
AnexarBigQuery ==
  /\ pc = "anexar"
  /\ LET porGCS == StrategyFor(Len(leva), cfg.limite) = "gcs"
     IN \/ ~porGCS /\ Ir("submeter") /\ UNCHANGED <<palco, erro, lr, falhas, sobrou>>
        \/ porGCS /\ Ir("submeter") /\ palco' = palco \cup {Objeto} /\ UNCHANGED <<erro, lr, falhas, sobrou>>
        \/ /\ porGCS /\ Falha /\ Recusar
           /\ \/ UNCHANGED <<palco, sobrou>>
              \/ palco' = palco \cup {Objeto} /\ sobrou' = TRUE
  /\ UNCHANGED <<cfg, i, leva, b, res, modo, existe, tabela, servidor, historia>>

\* The merge: a temporary table with the destination's schema, the batch loaded
\* into it (a field the schema lacks is refused), then the MERGE
CriarTemporaria ==
  /\ pc = "temporaria"
  /\ \/ palco' = palco \cup {Temporaria} /\ Ir("encher") /\ UNCHANGED <<erro, lr, falhas, sobrou>>
     \/ /\ Falha /\ Recusar
        /\ \/ UNCHANGED <<palco, sobrou>>
           \/ palco' = palco \cup {Temporaria} /\ sobrou' = TRUE
  /\ UNCHANGED <<cfg, i, leva, b, res, modo, existe, tabela, servidor, historia>>

EncherTemporaria ==
  /\ pc = "encher"
  /\ LET cabe == Reconcile(cfg.daTabela, CamposDe(leva))
     IN \/ cabe /\ Ir("submeter") /\ UNCHANGED <<erro, lr, falhas>>
        \/ ~cabe /\ Recusar /\ UNCHANGED falhas
        \/ Falha /\ Recusar
  /\ UNCHANGED <<cfg, i, leva, b, res, modo, remotas, historia, sobrou>>

--------------------------------------------------------------------------------
(* Leaving Write                                                               *)

\* Mutant: a load that failed leaves its object
ARemoverSeDeuCerto ==
  palco \cap (IF erro THEN {} ELSE {Temporaria} \cup IF cfg.manter THEN {} ELSE {Objeto})

\* What this Write staged and has to remove: BigQuery's temporary table always,
\* its object unless it is to be kept and the load went well; Redshift's object
\* unless it is to be kept
ARemover ==
  palco \cap ({Temporaria} \cup
    IF cfg.manter /\ (cfg.destino = "redshift" \/ ~erro) THEN {} ELSE {Objeto})

\* a removal that fails is logged and forgotten
Limpar ==
  /\ pc = "limpar" /\ Ir("devolver")
  /\ \/ palco' = palco \ ARemover /\ UNCHANGED <<falhas, sobrou>>
     \/ ARemover # {} /\ Falha /\ sobrou' = TRUE /\ UNCHANGED palco
  /\ UNCHANGED <<cfg, i, leva, lr, erro, b, res, modo, existe, tabela, servidor, historia>>

--------------------------------------------------------------------------------
(* Death, and the next execution                                               *)

Cair ==
  /\ pc # "fim"
  /\ pc' = "fim" /\ desfecho' = "morto"
  /\ leva' = <<>> /\ lr' = SemResultado /\ res' = SemResultado /\ erro' = FALSE /\ b' = 0
  /\ UNCHANGED <<cfg, i, modo, remotas, execucao, gravadas, completou, falhas, sobrou>>

Reexecutar ==
  /\ pc = "fim" /\ execucao < MaxExecucoes
  /\ execucao' = execucao + 1 /\ pc' = "verificar"
  /\ i' = 0 /\ leva' = <<>> /\ lr' = SemResultado /\ res' = SemResultado /\ erro' = FALSE /\ b' = 0
  /\ gravadas' = 0 /\ sobrou' = FALSE /\ desfecho' = "nenhum"
  /\ UNCHANGED <<cfg, modo, remotas, completou, falhas>>

Frente == VerificarDestino \/ Ensaiar \/ LerRegistro \/ ErroDaFonte \/ FimDaLeitura \/ Voltar
Escrita ==
  \/ EscreverPostgres \/ EscreverMySQL \/ InserirBloco \/ EscreverArquivo
  \/ EscreverRedshift \/ CopiarRedshift \/ DescartarRedshift
  \/ PrepararBigQuery \/ AnexarBigQuery \/ CriarTemporaria \/ EncherTemporaria
  \/ Submeter \/ DesistirDeEsperar \/ Limpar
Servidor == Aterrissar \/ Rejeitar

Next == Frente \/ Escrita \/ Servidor \/ Cair \/ Reexecutar
Spec == Init /\ [][Next]_vars
--------------------------------------------------------------------------------
(* Properties                                                                  *)

\* the records the chain lets through before the source breaks, and the batches
\* they make
Registros(c) == [n \in DOMAIN c.fonte |-> [id |-> c.fonte[n].id, campos |-> c.fonte[n].campos]]
NoCaminho(c) ==
  {n \in DOMAIN c.fonte : c.fonte[n].tipo = "linha" /\ \A m \in 1..n : c.fonte[m].tipo # "erro"}
Passam(c) == Selecionadas(Registros(c), NoCaminho(c))
Quebra(c) == \E n \in DOMAIN c.fonte : c.fonte[n].tipo = "erro"
LevasDe(c) ==
  LET s == Passam(c)
      fim(k) == IF (k + 1) * c.flush < Len(s) THEN (k + 1) * c.flush ELSE Len(s)
  IN IF c.flush = 0 THEN {s}
     ELSE {SubSeq(s, k * c.flush + 1, fim(k)) : k \in {m \in 0..Len(s) : m * c.flush < Len(s)}}
Gravaveis(c) ==
  {IF c.destino = "redshift" THEN EncodeNDJSON(l, c.colunas) ELSE l : l \in LevasDe(c)}

TypeOK ==
  /\ cfg \in Pedidos
  /\ pc \in {"verificar", "lendo", "escrever", "bloco", "copiar", "anexar", "temporaria", "encher",
            "submeter", "esperando", "descartar", "limpar", "devolver", "fim"}
  /\ i \in 0..Len(cfg.fonte) /\ Len(leva) <= i /\ b \in 0..Len(leva)
  /\ {lr.linhas, lr.ignoradas, res.linhas, res.ignoradas, gravadas} \subseteq Nat
  /\ erro \in BOOLEAN /\ existe \in BOOLEAN /\ sobrou \in BOOLEAN /\ completou \in BOOLEAN
  /\ modo \in {"anexo", "mescla", "ignora"}
  /\ execucao \in 1..MaxExecucoes /\ falhas \in 0..MaxFalhas
  /\ desfecho \in {"nenhum", "ok", "erro", "ensaio", "morto"}
  /\ \A j \in servidor : j.de \in 1..execucao

\* What the destination sees is what Landing promises: whole batches only, and
\* under a merge nothing that is already there, but for the batch of the load that
\* created the table (target.go FlushEvery; types.go Dedup)
Inaugurais ==
  IF cfg.dedup # "merge" THEN 0
  ELSE Cardinality({j \in servidor : j.tipo = "anexo"})
       + IF modo = "anexo" /\ pc \in {"anexar", "submeter"} THEN 1 ELSE 0
Tabela == INSTANCE Landing WITH
  pedido <- [lotes |-> Gravaveis(cfg), dedup |-> cfg.dedup, unico |-> cfg.indice],
  linhas <- tabela, inaugurais <- Inaugurais
ImplementaTabela == Tabela!Spec

\* Once an execution has loaded everything, running it again changes nothing under a
\* merge (README of sdk: re-running the same window is a no-op).  The batch of an
\* earlier creating load, that nobody waits for any more, is the one exception
RepeticaoInocua ==
  [][(completou /\ cfg.dedup = "merge" /\ \A j \in servidor : j.tipo = "anexo" => j.de = execucao)
       => UNCHANGED tabela]_vars

\* A row that landed has every field its record had (metadata.go: dropping data in
\* silence is the worst way to fail).  Redshift: see NadaSumiuNoRedshift
NadaSumiuEm(destinos) ==
  cfg.destino \in destinos =>
    \A n \in DOMAIN tabela : \E m \in DOMAIN cfg.fonte :
      cfg.fonte[m].id = tabela[n].id /\ cfg.fonte[m].campos = tabela[n].campos
NadaSumiu == NadaSumiuEm({"bigquery", "postgres", "mysql", "files"})
\* redshift.go:105: the declaration has been checked against the whole batch, so a
\* file with the declared columns has everything
NadaSumiuNoRedshift == NadaSumiuEm({"redshift"})

\* The numbers of a Result: a load that went well accounts for each of its records,
\* and a failed one does not report rows that are not there.  Left out: a merge on
\* Redshift counts the rows it skips as loaded, and MySQL returns what it had
\* counted before the rollback
ContaLinhas == ~(cfg.destino = "redshift" /\ cfg.dedup = "merge")
ResultadoConfere ==
  ContaLinhas =>
    /\ desfecho = "ok" => res.linhas = gravadas /\ res.linhas + res.ignoradas = Len(Passam(cfg))
    /\ desfecho = "erro" /\ cfg.destino # "mysql" => res.linhas <= gravadas

\* A load that reports success has left no record out
CargaInteira ==
  desfecho = "ok" => ~Quebra(cfg) /\ \A n \in DOMAIN Passam(cfg) : Passam(cfg)[n].id \in Ids(tabela)

\* The SQL drivers' merge leaves each id once, however often it is interrupted and
\* run again: the index was asked for before the first row (postgres.go
\* conferirIndiceUnico: without it ON CONFLICT has nothing to conflict with)
UmaLinhaPorId ==
  cfg.destino \in {"postgres", "mysql"} /\ Mesclar => Cardinality(Ids(tabela)) = Len(tabela)

\* What an execution staged is gone when it ends, or reported; and a reported object is there
SobraExplicada ==
  /\ pc = "fim" /\ desfecho \in {"ok", "erro"} /\ ~sobrou =>
       \A o \in palco : o.de = execucao => cfg.manter /\ o.tipo = "objeto" /\ o \in res.objetos
  /\ res.objetos \subseteq palco
\* What a load that went well has put into the table: every record, every field
CargaFiel == TypeOK /\ CargaInteira /\ NadaSumiu
================================================================================
