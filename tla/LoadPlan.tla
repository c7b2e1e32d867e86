--------------------------------- MODULE LoadPlan ---------------------------------
(***************************************************************************)
(* What a load decides before it touches its destination: where each value *)
(* of its configuration comes from, which declarations are refused, the    *)
(* table that would be created, the statements that would be run, and what *)
(* may be written in a log.                                                *)
(*   src/sdk/target.go, pipeline.go, redact.go, src/sdk/internal/core/     *)
(*   config.go, schema.go, types.go, src/sdk/load/load.go, table.go,       *)
(*   merge_sql.go, src/sdk/to/bigquery/bigquery.go, to/redshift/redshift.go*)
(* "" is a value not given; a refusal is an empty set of outcomes.         *)
(***************************************************************************)
LOCAL INSTANCE Integers
LOCAL INSTANCE Sequences
LOCAL INSTANCE FiniteSets
INSTANCE SequencesExt
LOCAL INSTANCE Functions
LOCAL INSTANCE TLC

--------------------------------------------------------------------------------
(* Configuration                                                               *)

Resolve(explicito, ambiente, padrao) ==
  CASE explicito # "" -> explicito
    [] explicito = "" /\ ambiente # "" -> ambiente
    [] OTHER -> padrao

\* the variable as the integers it can be read as: none or one
EnvInt(ambiente, padrao) == IF ambiente = {} THEN padrao ELSE CHOOSE n \in ambiente : TRUE

\* Table.CreateTable, a pointer: "", "true" or "false"
resolveCreate(b, run) ==
  IF b.CreateTable # "" THEN b.CreateTable = "true" ELSE run.First \/ run.create_table = "true"

\* LoadConfig as bigquery.Table fills it, from itself, the environment and Target
LoadConfig(b, amb, opt, projeto) ==
  [ProjectID |-> projeto, Dataset |-> Resolve(b.Dataset, amb.dataset, "landing"), Table |-> b.Name,
   StagingBucket |-> Resolve(b.StagingBucket, amb.bucket, projeto \o "-brevis-staging"),
   ThresholdForGCS |-> IF b.InlineLimit = 0 THEN EnvInt(amb.limite, 5000) ELSE b.InlineLimit,
   Format |-> "ndjson", Columns |-> opt.Columns, Schema |-> opt.Schema, PartitionBy |-> opt.PartitionBy,
   Dedup |-> opt.Dedup, CreateTable |-> resolveCreate(b, opt.Run), CreateSQL |-> b.CreateSQL,
   RequirePartitionFilter |-> b.RequirePartitionFilter]
config(b, amb, opt) ==
  LET projeto == Resolve(b.Project, amb.projeto, "")
  IN IF projeto = "" \/ b.Name = "" THEN {} ELSE {LoadConfig(b, amb, opt, projeto)}

sourceFormat(formato) == formato \in {"", "ndjson"}

\* Mutant: a merge is let through whatever the filter
resolveConfigSemFiltro(c) ==
  IF \/ "" \in {c.ProjectID, c.Dataset, c.Table} \/ ~sourceFormat(c.Format)
     \/ c.Dedup = "merge" /\ c.Columns # <<>> /\ "ingestion_id" \notin ToSet(c.Columns)
     \/ c.RequirePartitionFilter /\ c.Columns # <<>> /\ "ingestion_loaded_at" \notin ToSet(c.Columns)
  THEN {}
  ELSE {[c EXCEPT !.StagingBucket = IF @ = "" THEN c.ProjectID \o "-brevis-staging" ELSE @,
                  !.ThresholdForGCS = IF @ = 0 THEN 5000 ELSE @,
                  !.Format = IF @ = "" THEN "ndjson" ELSE @]}

resolveConfig(c) ==
  IF \/ "" \in {c.ProjectID, c.Dataset, c.Table} \/ ~sourceFormat(c.Format)
     \/ c.RequirePartitionFilter /\ c.Dedup = "merge"
     \/ c.Dedup = "merge" /\ c.Columns # <<>> /\ "ingestion_id" \notin ToSet(c.Columns)
     \/ c.RequirePartitionFilter /\ c.Columns # <<>> /\ "ingestion_loaded_at" \notin ToSet(c.Columns)
  THEN {}
  ELSE {[c EXCEPT !.StagingBucket = IF @ = "" THEN c.ProjectID \o "-brevis-staging" ELSE @,
                  !.ThresholdForGCS = IF @ = 0 THEN 5000 ELSE @,
                  !.Format = IF @ = "" THEN "ndjson" ELSE @]}

\* LoadOptions: each sets its field, in the order they are given; a schema is also the
\* list of columns
Nomes(schema) == [k \in DOMAIN schema |-> schema[k].Name]
WithSchema(c, s) == [c EXCEPT !.Schema = s, !.Columns = Nomes(s)]
With(c, campo, v) == [c EXCEPT ![campo] = v]

--------------------------------------------------------------------------------
(* Target and its schema                                                       *)

Tipos == {"string", "int64", "float64", "numeric", "bool", "timestamp", "date", "json", "bytes"}
TrimSpace(nome) == CASE nome = " " -> "" [] nome = " a" -> "a" [] OTHER -> nome

\* The first of the four complaints there is reason for, or ""
Check(s) ==
  LET nome(k) == TrimSpace(s[k].Name)
      nomeadas == {k \in DOMAIN s : nome(k) # ""}
  IN CASE nomeadas # DOMAIN s -> "sem nome"
       [] nomeadas = DOMAIN s /\ \E k, m \in nomeadas : k # m /\ nome(k) = nome(m) -> "duplicada"
       [] OTHER -> IF \E k \in nomeadas : s[k].Type = "" THEN "sem tipo"
                   ELSE IF \E k \in nomeadas : s[k].Type \notin Tipos THEN "tipo inexistente" ELSE ""

validate(t) ==
  /\ t.To
  /\ t.Columns = <<>> \/ t.Schema = <<>>
  /\ Check(t.Schema) = ""
  /\ t.PartitionBy # "" /\ t.Schema # <<>> => t.PartitionBy \in ToSet(Nomes(t.Schema))

colunas(t) == IF t.Schema # <<>> THEN Nomes(t.Schema) ELSE t.Columns
options(t, run) == [Columns |-> colunas(t), Schema |-> t.Schema, PartitionBy |-> t.PartitionBy,
                    Dedup |-> t.Dedup, Run |-> run]

--------------------------------------------------------------------------------
(* BigQuery: the table that is created, and the job that follows                *)

PlanoDeCriacao(c) == CASE c.CreateSQL # "" -> "sql"
                       [] c.CreateSQL = "" /\ c.Schema # <<>> -> "schema"
                       [] OTHER -> "recusa"

\* the columns of the SDK have the SDK's types, whatever was declared
metadataSchema == [ingestion_id |-> "string", ingestion_loaded_at |-> "timestamp"]
bigquerySchema(s) ==
  IF \E k \in DOMAIN s : s[k].Name \notin DOMAIN metadataSchema /\ s[k].Type \notin Tipos THEN {}
  ELSE {[k \in DOMAIN s |->
           IF s[k].Name \in DOMAIN metadataSchema
           THEN [Name |-> s[k].Name, Type |-> metadataSchema[s[k].Name], Required |-> TRUE] ELSE s[k]]}

particaoDe(c) == IF c.PartitionBy # "" THEN c.PartitionBy ELSE "ingestion_loaded_at"
typedTable(c) == {[Schema |-> s, Field |-> particaoDe(c), Filter |-> c.RequirePartitionFilter] : s \in bigquerySchema(c.Schema)}

\* What the load job may do with the table and with the types of its columns
typesAnything(nomes) == ToSet(nomes) \cap DOMAIN metadataSchema # {}
applyLayout(c) ==
  IF ~c.CreateTable \/ c.CreateSQL # "" \/ typesAnything(c.Columns)
  THEN [cria |-> FALSE, infere |-> FALSE] ELSE [cria |-> TRUE, infere |-> TRUE]

\* A statement that ran without error and did not create the table is caught
createFromSQL(cria) == IF cria THEN {"criada"} ELSE {}
\* the table the job finds; {} when the load stops before it
prepareTable(c, existe, sqlCria) ==
  CASE existe -> {"existia"}
    [] ~existe /\ ~c.CreateTable -> {}
    [] OTHER -> CASE PlanoDeCriacao(c) = "recusa" -> {}
                  [] PlanoDeCriacao(c) = "sql" -> createFromSQL(sqlCria)
                  [] OTHER -> IF typedTable(c) = {} THEN {} ELSE {"criada"}

\* A description or a label somebody wrote is never replaced
describeTable(md, nova) == IF md.Description # "" \/ md.Labels # {} THEN md ELSE nova

\* the row's own columns first, the envelope's when it has neither
provenanceOf(lote) ==
  IF lote = <<>> THEN [Provider |-> "", Entity |-> ""]
  ELSE LET r == Head(lote)
       IN IF r.linha.Provider # "" \/ r.linha.Entity # "" THEN r.linha ELSE r.envelope

\* [a-z][a-z0-9_-]*, of at most MaxRotulo (63) characters, or nothing
MaxRotulo == 3
Minusculas == {"a"}
Permitidos == Minusculas \cup {"1", "_", "-"}
sanitiseLabel(v) ==
  LET baixa == [k \in DOMAIN v |-> IF v[k] = "A" THEN "a" ELSE v[k]]
      dentroDe(k) == k \in DOMAIN baixa /\ baixa[k] \in Permitidos
      \* of a run of what is not allowed one "_" stays
      ficam == SetToSortSeq({k \in DOMAIN baixa : dentroDe(k) \/ k = 1 \/ dentroDe(k - 1)}, <)
      trocada == [j \in DOMAIN ficam |-> IF dentroDe(ficam[j]) THEN baixa[ficam[j]] ELSE "_"]
      dentro == {k \in DOMAIN trocada : trocada[k] \notin {"_", "-"}}
      de == CHOOSE k \in dentro : \A m \in dentro : k <= m
      ate == CHOOSE k \in dentro : \A m \in dentro : k >= m
      aparada == IF dentro = {} THEN <<>> ELSE SubSeq(trocada, de, ate)
      curta == IF Len(aparada) > MaxRotulo THEN SubSeq(aparada, 1, MaxRotulo) ELSE aparada
  IN IF curta = <<>> \/ curta[1] \notin Minusculas THEN <<>> ELSE curta

\* a float64 column takes an int64; nothing else converts
compatible(dest, vindo) == dest = vindo \/ (dest = "float64" /\ vindo = "int64")
\* columns the MERGE inserts: those of the batch, all in the destination, in its order
reconcile(dest, vindo) ==
  LET tipo(s, n) == (CHOOSE k \in DOMAIN s : s[k].Name = n)
      cabe(k) == vindo[k].Name \in ToSet(Nomes(dest)) /\ compatible(dest[tipo(dest, vindo[k].Name)].Type, vindo[k].Type)
  IN IF vindo = <<>> \/ \E k \in DOMAIN vindo : ~cabe(k) THEN {} ELSE {SelectSeq(Nomes(dest), LAMBDA n : n \in ToSet(Nomes(vindo)))}

--------------------------------------------------------------------------------
(* Redshift: the statements of one batch                                        *)

checar(t) == t.DSN /\ t.Name /\ t.Staging /\ t.IAMRole \notin {"", "chave"} /\ t.Store

destinoDoCopy(dedup) == IF dedup = "merge" THEN "temp" ELSE "tabela"
CopySQL(destino, role) == [verbo |-> "copy", em |-> destino, com |-> role]
StagingTableSQL == [verbo |-> "create", em |-> "temp", com |-> ""]
MergeInto == [verbo |-> "merge", em |-> "tabela", com |-> ""]
DropSQL == [verbo |-> "drop", em |-> "temp", com |-> ""]
comandos(t, dedup) ==
  LET copia == <<CopySQL(destinoDoCopy(dedup), t.IAMRole)>>
  IN IF ~checar(t) THEN <<>>
     ELSE IF dedup = "merge" THEN <<StagingTableSQL>> \o copia \o <<MergeInto, DropSQL>> ELSE copia

--------------------------------------------------------------------------------
(* Failures: how they are told apart, and what of them is written              *)

\* From the words of a failure: an answer with a status ("http 503"), a connection that
\* broke, or a document of another shape
statusOf(falha) == IF falha.status # 0 THEN {falha.status} ELSE {}
marcas == {"fetch failed", "connection", "timeout", "deadline exceeded", "no such host",
           "context cancel", "rate limiter", "eof"}
isTransport(falha) == falha.palavras \cap marcas # {}
classifyExtract(falha) == IF statusOf(falha) # {} \/ isTransport(falha) THEN "ErrSource" ELSE "ErrFormat"

\* of n diagnostics at most MaxErros (10) and a line that counts the rest
MaxErros == 2
rowErrors(n) == IF n > MaxErros THEN [linhas |-> MaxErros, resto |-> n - MaxErros] ELSE [linhas |-> n, resto |-> 0]

\* A name is the words between its underscores.  `_secret` at the end of a name is a secret
querySecrets == {<<"key">>, <<"api", "key">>, <<"apikey">>, <<"token">>, <<"access", "token">>, <<"auth">>,
                 <<"password">>, <<"secret">>, <<"signature">>, <<"sig">>}
ToLower(nome) == [k \in DOMAIN nome |-> IF nome[k] = "TOKEN" THEN "token" ELSE nome[k]]
ehSegredo(nome) == \E s \in querySecrets : IsSuffix(s, ToLower(nome))
redact(url) ==
  IF ~url.legivel THEN [url EXCEPT !.senha = "", !.query = <<>>]
  ELSE [url EXCEPT !.senha = IF @ = "" THEN @ ELSE "REDACTED",
                   !.query = [n \in DOMAIN @ |-> IF ehSegredo(n) THEN "REDACTED" ELSE @[n]]]

\* the driver's own words, without the address it was given
esconderDSN(palavras, dsn) == [k \in DOMAIN palavras |-> IF dsn # "" /\ palavras[k] = dsn THEN "REDACTED" ELSE palavras[k]]

\* Result.Args: what went wrong without failing the run has a place in its one line
Args(r) == {"records", "lines", "ignored"}
           \cup (IF r.CredentialStoreError # "" THEN {"credential_not_saved"} ELSE {})
           \cup (IF r.FailedSources # 0 THEN {"fontes_falharam"} ELSE {})
           \cup (IF r.Objects # {} THEN {"objeto"} ELSE {})

--------------------------------------------------------------------------------
(* Execute: the calls of one pipeline in their order, up to the one that fails  *)

Etapas(p) ==
  LET antes == <<"flags", "Before">>
  IN IF p.dryRun THEN antes \o <<"Extract", "Transform", "imprimir">>
     ELSE antes \o <<"validate">> \o (IF p.sabeConferir THEN <<"CheckDestination">> ELSE <<>>) \o <<"Extract", "Transform", "Write">>
Execute(p) ==
  LET e == Etapas(p)
      parou == {k \in DOMAIN e : e[k] = p.falha}
  IN IF parou = {} THEN [feitas |-> e, erro |-> FALSE]
     ELSE [feitas |-> SubSeq(e, 1, CHOOSE k \in parou : TRUE), erro |-> TRUE]

\* the flag turns the preview on, and never off
previewDe(flag, fonte) == IF flag > 0 THEN flag ELSE fonte

--------------------------------------------------------------------------------
(* Properties, over small inputs                                               *)

Col(n, t) == [Name |-> n, Type |-> t, Required |-> FALSE]
Colunas == {Col(n, t) : n \in {"a", " a", " ", "ingestion_id", "ingestion_loaded_at"}, t \in {"int64", "float64", "", "decimal"}}
Esquemas == {<<>>} \cup {<<c>> : c \in Colunas} \cup {<<c, d>> : c, d \in Colunas}
Listas == {<<>>, <<"a">>, <<"a", "ingestion_id">>, <<"ingestion_id", "ingestion_loaded_at">>}
Alvos == {[To |-> TRUE, Columns |-> c, Schema |-> s, PartitionBy |-> p, Dedup |-> d] :
            c \in Listas, s \in Esquemas, p \in {"", "a"}, d \in {"none", "merge"}}
Ambientes == {[projeto |-> p, dataset |-> "", bucket |-> "", limite |-> l] : p \in {"", "env"}, l \in {{}, {0}, {7}}}
Execucoes == {[First |-> f, create_table |-> p] : f \in BOOLEAN, p \in {"", "true"}}
Tabelas == {[Project |-> p, Dataset |-> "", Name |-> "t", StagingBucket |-> "", InlineLimit |-> 0, CreateTable |-> k,
             CreateSQL |-> q, RequirePartitionFilter |-> f] :
              p \in {"", "meu"}, k \in {"", "true", "false"}, q \in {"", "ddl"}, f \in BOOLEAN}
\* what New is given for every declaration that Target accepts
Cargas == UNION {UNION {resolveConfig(c) : c \in config(b, a, options(t, r))} :
                   b \in Tabelas, a \in Ambientes, r \in Execucoes,
                   t \in {x \in Alvos : validate(x) /\ (x.Schema = <<>> \/ Len(x.Schema) = 2)}}

\* A declaration that is accepted can be carried out: its columns are distinct and typed,
\* a table of exactly those columns in that order is created, the SDK's two with the SDK's
\* types, the partition that was asked for is one of them, and no merge is let through
\* that would miss rows behind a partition filter or has no ingestion_id to match
DeclaracaoCumprida ==
  \A c \in Cargas :
    /\ c.Dedup = "merge" => ~c.RequirePartitionFilter /\ (c.Columns # <<>> => "ingestion_id" \in ToSet(c.Columns))
    /\ c.ThresholdForGCS # 0 /\ c.ProjectID # ""
    /\ c.Schema # <<>> =>
         /\ IsInjective(c.Columns)
         /\ Cardinality(typedTable(c)) = 1
         /\ \A m \in typedTable(c) :
              /\ Nomes(m.Schema) = c.Columns
              /\ \A k \in DOMAIN m.Schema : m.Schema[k].Type = (IF m.Schema[k].Name \in DOMAIN metadataSchema
                                              THEN metadataSchema[m.Schema[k].Name] ELSE c.Schema[k].Type)
              /\ (c.PartitionBy # "" \/ c.RequirePartitionFilter) => m.Field \in ToSet(c.Columns)
         /\ WithSchema(With(c, "Columns", <<>>), c.Schema) = c

\* No table gets a type nobody declared: by the time the job may infer, the table is there
NinguemInfere ==
  \A c \in Cargas, existe, sqlCria \in BOOLEAN :
    prepareTable(c, existe, sqlCria) # {} /\ (applyLayout(c).cria \/ applyLayout(c).infere) =>
      \/ existe
      \/ c.CreateSQL = "" /\ \A m \in typedTable(c) : Nomes(m.Schema) = c.Columns /\ c.Columns # <<>>

\* Every batch is copied once, into what the merge then reads, the temporary table is
\* made before it is filled and dropped at the end, the destination is written once, and
\* no access key is in a statement the cluster keeps in its log
ComandosEmOrdem ==
  \A d \in {"none", "merge"},
     t \in [DSN : BOOLEAN, Name : BOOLEAN, Staging : BOOLEAN, Store : BOOLEAN, IAMRole : {"", "arn", "chave"}] :
    LET c == comandos(t, d)
        onde(v) == {k \in DOMAIN c : c[k].verbo = v}
        escrevem == {k \in DOMAIN c : c[k].em = "tabela"}
    IN /\ c # <<>> => Cardinality(onde("copy")) = 1 /\ Cardinality(escrevem) = 1
       /\ \A k \in DOMAIN c : c[k].com # "chave" /\ (c[k].verbo = "copy" => c[k].com # "")
       /\ \A k \in onde("copy") : c[k].em = "temp" => \E i \in onde("create") : i < k
       /\ \A k \in onde("create") : \E i \in onde("drop") : i = Len(c) /\ \A e \in escrevem : k < e /\ e < i

Caracteres == {"a", "A", "1", "_", "-", "e"}
\* A label is one BigQuery accepts, or there is none
RotuloValido ==
  \A v \in {<<>>} \cup UNION {[1..n -> Caracteres] : n \in 1..4} :
    LET r == sanitiseLabel(v)
    IN /\ Len(r) <= MaxRotulo /\ ToSet(r) \subseteq Permitidos /\ (r # <<>> => r[1] \in Minusculas)
       /\ r = <<>> => \A k \in DOMAIN v : v[k] \in {"a", "A"} => \E m \in DOMAIN v : m < k /\ v[m] = "1"

\* What MERGE inserts is what the batch has, and every value fits the column it goes to
ColunasDoMerge ==
  LET ts == {<<>>} \cup UNION {{<<Col(n, t)>>, <<Col(n, t), Col("b", "float64")>>} : n \in {"a", "c"}, t \in {"int64", "float64", "string"}}
  IN \A dest, vindo \in ts : \A nomes \in reconcile(dest, vindo) :
       /\ ToSet(nomes) = ToSet(Nomes(vindo)) /\ IsPrefix(nomes, Nomes(dest)) /\ nomes # <<>>
       /\ \A k \in DOMAIN vindo, m \in DOMAIN dest :
            dest[m].Name = vindo[k].Name => <<dest[m].Type, vindo[k].Type>> \in {<<"float64", "int64">>} \cup {<<t, t>> : t \in Tipos}

Urls == {[legivel |-> l, senha |-> s, query |-> q] : l \in BOOLEAN, s \in {"", "xyz"},
           q \in {n :> "xyz" : n \in querySecrets \cup {<<"my", "token">>, <<"TOKEN">>, <<"page", "token">>}}
                 \cup {(<<"keyword">> :> "tudo") @@ (<<"token">> :> "xyz")}}
\* No secret of an address reaches a message, and what is no secret stays readable
NadaVaza ==
  /\ \A u \in Urls : LET r == redact(u)
                     IN /\ r.senha # "xyz" /\ \A n \in DOMAIN r.query : r.query[n] # "xyz"
                        /\ u.legivel /\ <<"keyword">> \in DOMAIN u.query => r.query[<<"keyword">>] = "tudo"
  /\ \A d \in {"", "dsn"} : d # "" => "dsn" \notin ToSet(esconderDSN(<<"falhou", "dsn">>, d))

\* The source is not asked for anything when the destination is refused, a rehearsal
\* writes nothing and asks the destination nothing, and Before precedes both
OrdemDoPipeline ==
  \A p \in [dryRun : BOOLEAN, sabeConferir : BOOLEAN,
            falha : {"", "flags", "Before", "validate", "CheckDestination", "Extract", "Transform", "Write"}] :
    LET r == Execute(p)
        fez(e) == e \in ToSet(r.feitas)
    IN /\ p.falha \in {"validate", "CheckDestination"} /\ r.erro => ~fez("Extract")
       /\ p.dryRun => ~fez("Write") /\ ~fez("CheckDestination")
       /\ fez("Write") => fez("Before") /\ fez("validate") /\ (p.sabeConferir => fez("CheckDestination"))
       /\ p.falha \in {"flags", "Before"} => ~fez("Extract") /\ r.erro

\* Nobody decides by luck: who is asked first, what is counted, what is told
Relatado ==
  /\ \A b \in Tabelas, r \in Execucoes : b.CreateTable = "false" => ~resolveCreate(b, r)
  /\ \A n \in 0..5 : rowErrors(n).linhas + rowErrors(n).resto = n /\ rowErrors(n).linhas <= MaxErros
  /\ \A f \in [status : {0, 503}, palavras : {{"http"}, {"http", "timeout"}, {"field missing"}}] :
       f.status = 0 /\ f.palavras \cap marcas = {} <=> classifyExtract(f) = "ErrFormat"
  /\ \A n, fonte \in 0..2 : fonte > 0 => previewDe(n, fonte) > 0
  /\ \A a, e \in [Provider : {"", "p"}, Entity : {"", "q"}] :
       provenanceOf(<<[linha |-> a, envelope |-> e]>>) = (IF a = [Provider |-> "", Entity |-> ""] THEN e ELSE a)
  /\ \A r \in [CredentialStoreError : {"", "x"}, FailedSources : 0..1, Objects : {{}, {"o"}}] :
       Args(r) = {"records", "lines", "ignored"} => r.CredentialStoreError = "" /\ r.FailedSources = 0 /\ r.Objects = {}
  /\ \A md \in [Description : {"", "minha"}, Labels : {{}, {"l"}}] :
       LET nova == [Description |-> "do SDK", Labels |-> {}]
       IN describeTable(md, nova) = nova => md.Description = "" /\ md.Labels = {}

PlanoFiel == DeclaracaoCumprida /\ NinguemInfere /\ ComandosEmOrdem /\ RotuloValido /\ ColunasDoMerge
             /\ NadaVaza /\ OrdemDoPipeline /\ Relatado
================================================================================
