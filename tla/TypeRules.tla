-------------------------------- MODULE TypeRules --------------------------------
(***************************************************************************)
(* The values of a column between a database and a record: what a query    *)
(* gives for each type, and what of a record a column takes.               *)
(*   src/sdk/from/postgres, src/sdk/from/mysql,                            *)
(*   src/sdk/to/postgres, src/sdk/to/mysql                                 *)
(* An instant is an hour counted in UTC and the offset it is told in; a    *)
(* day is 24 of them.  A refusal is an empty set of outcomes.              *)
(***************************************************************************)
LOCAL INSTANCE Integers
LOCAL INSTANCE Sequences
LOCAL INSTANCE FiniteSets
LOCAL INSTANCE SequencesExt

--------------------------------------------------------------------------------
(* Values: of the wire, of a record, of a column                               *)

\* tipo; the form a text is written in; the value; the offset of an instant
V(tipo, forma, n, z) == [tipo |-> tipo, forma |-> forma, n |-> n, z |-> z]
Nil == V("nil", "", 0, 0)
Texto(forma, n, z) == V("texto", forma, n, z)
Instante(n, z) == V("time.Time", "", n, z)
Dia(n) == n \div 24
ComoUTC(v) == [v EXCEPT !.z = 0]
\* what t.Format writes of an instant: its day, its hour, or all of it
Format(v, forma) ==
  CASE forma = "dia" -> Texto("dia", 24 * Dia(v.n + v.z), 0)
    [] forma = "hora" -> Texto("hora", (v.n + v.z) % 24, 0)
    [] OTHER -> Texto("rfc3339", v.n, v.z)

--------------------------------------------------------------------------------
(* From Postgres and MySQL to a record                                         *)

numericoComoTexto(v) == CASE v.forma = "invalido" -> Nil
                          [] v.forma \in {"NaN", "infinito"} -> Texto(v.forma, 0, 0)
                          [] OTHER -> Texto("decimal", v.n, 0)
\* a document that does not decode stays as its bytes
jsonAninhado(v) == IF v.forma = "documento" THEN V("json", "", v.n, 0) ELSE Texto("bruto", v.n, 0)

\* The OID tells a date from an instant; the elements of an array are of its type
RECURSIVE converter(_, _)
converter(v, oid) ==
  CASE v.tipo = "numeric" -> numericoComoTexto(v)
    [] v.tipo = "pgtype.Date" -> IF v.forma = "invalido" THEN Nil ELSE Format(v, "dia")
    [] v.tipo = "time.Time" ->
         (CASE oid = "date" -> Format(v, "dia") [] oid = "time" -> Format(v, "hora") [] OTHER -> Format(ComoUTC(v), "rfc3339"))
    [] v.tipo \in {"timestamp", "timestamptz"} -> IF v.forma = "invalido" THEN Nil ELSE Format(ComoUTC(v), "rfc3339")
    [] v.tipo = "uuid" -> IF v.forma = "invalido" THEN Nil ELSE Texto("uuid", v.n, 0)
    [] v.tipo = "json.RawMessage" -> jsonAninhado(v)
    [] v.tipo = "array" -> [v EXCEPT !.n = [k \in DOMAIN @ |-> converter(@[k], oid)]]
    [] OTHER -> v
ParaJSONComOID(v, oid) == converter(v, oid)

\* MySQL: an instant of the driver, or bytes read by the declared type; bytes that do not
\* read as it come out as text.  An unsigned mediumint is not listed
ParaJSON(v, declarado) ==
  CASE v.tipo = "time.Time" -> IF declarado = "DATE" THEN Format(v, "dia") ELSE Format(ComoUTC(v), "rfc3339")
    [] v.tipo = "[]byte" ->
         (CASE declarado = "DECIMAL" -> Texto("decimal", v.n, 0)
            [] declarado = "JSON" -> jsonAninhado(v)
            [] declarado = "BLOB" -> v
            [] declarado = "BIGINT" -> IF v.forma = "digitos" THEN V("int64", "", v.n, 0) ELSE Texto(v.forma, v.n, 0)
            [] declarado = "DOUBLE" -> IF v.forma = "digitos" THEN V("float64", "", v.n, 0) ELSE Texto(v.forma, v.n, 0)
            [] declarado = "DATETIME" /\ v.forma = "sql" -> Texto("rfc3339", v.n, 0)
            [] OTHER -> Texto(v.forma, v.n, 0))
    [] OTHER -> v

--------------------------------------------------------------------------------
(* From a record to a column                                                   *)

\* layouts that carry an offset keep it; the others are taken as UTC
lidoComo(v) == Instante(v.n, IF v.forma \in {"rfc3339", "sqlz"} THEN v.z ELSE 0)
Epoca == {"float64", "int64", "int"}

paraInstante(v) ==
  CASE v.tipo = "time.Time" -> {v}
    [] v.tipo = "texto" -> IF v.forma \in {"rfc3339", "sqlz", "sql", "dia"} THEN {lidoComo(v)} ELSE {}
    [] v.tipo \in Epoca \cup {"json.Number"} -> {Instante(v.n, 0)}
    [] OTHER -> {}

\* MySQL: the offset is applied and forgotten; no epoch that kept its literal
paraInstanteMySQL(v) ==
  CASE v.tipo = "time.Time" -> {v}
    [] v.tipo = "texto" -> IF v.forma \in {"rfc3339", "sql", "dia"} THEN {ComoUTC(lidoComo(v))} ELSE {}
    [] v.tipo \in Epoca -> {Instante(v.n, 0)}
    [] OTHER -> {}

paraNumeric(v) ==
  CASE v.tipo # "texto" -> {v}
    [] v.tipo = "texto" /\ v.forma = "NaN" -> {V("numeric", "NaN", 0, 0)}
    [] v.tipo = "texto" /\ v.forma = "decimal" -> {V("numeric", "finito", v.n, 0)}
    [] OTHER -> {}

\* a string is the document itself; anything else is encoded
documento(v) == IF v.tipo \in {"texto", "[]byte"} THEN {Texto(v.forma, v.n, 0)} ELSE {Texto("documento", v.n, 0)}

\* Truncate cuts at the day of UTC and keeps the offset
Truncate(v) == Instante(24 * Dia(v.n), v.z)

paraColuna(v, tipo) ==
  CASE v = Nil -> {Nil}
    [] v # Nil /\ tipo = "timestamp" -> paraInstante(v)
    [] v # Nil /\ tipo = "date" -> {Truncate(t) : t \in paraInstante(v)}
    [] v # Nil /\ tipo = "numeric" -> paraNumeric(v)
    [] v # Nil /\ tipo = "json" -> documento(v)
    [] OTHER -> {v}

paraColunaMySQL(v, tipo) ==
  CASE v = Nil -> {Nil}
    [] v # Nil /\ tipo = "timestamp" -> paraInstanteMySQL(v)
    [] v # Nil /\ tipo = "date" -> {Format(t, "dia") : t \in paraInstanteMySQL(v)}
    [] v # Nil /\ tipo = "json" -> documento(v)
    [] OTHER -> {v}

\* One row, in the columns of the table: what it lacks is NULL, one value the column
\* refuses is the whole batch refused
Values(linha, tipos) ==
  IF \E c \in DOMAIN tipos : c \in DOMAIN linha /\ paraColuna(linha[c], tipos[c]) = {} THEN {}
  ELSE {[c \in DOMAIN tipos |-> IF c \in DOMAIN linha THEN CHOOSE v \in paraColuna(linha[c], tipos[c]) : TRUE ELSE Nil]}

--------------------------------------------------------------------------------
(* Names, addresses, statements                                                *)

\* A name is the parts between its dots; {} is refused
partirNome(nome) == CASE Len(nome) = 1 -> {<<"public", nome[1]>>}
                      [] Len(nome) = 2 -> {nome}
                      [] OTHER -> {}
\* MySQL: everything after the first dot is the table
partirNomeMySQL(nome) == IF Len(nome) = 1 THEN <<"", nome>> ELSE <<nome[1], Tail(nome)>>
\* each part is quoted on its own
qualificar(nome) == nome

\* parameters of an address: parseTime is added unless somebody chose
comParseTime(dsn) == IF \E p \in dsn : p[1] = "parseTime" THEN dsn ELSE dsn \cup {<<"parseTime", "true">>}

\* one group of placeholders per row, one placeholder per column
InsertSQL(colunas, linhas, ignorar) ==
  [verbo |-> IF ignorar THEN "INSERT IGNORE" ELSE "INSERT", colunas |-> colunas, grupos |-> linhas,
   marcas |-> linhas * Len(colunas)]

\* The unique index a merge needs: over ingestion_id and nothing else
conferirIndiceUnico(indices) == \E x \in indices : x.unico /\ x.colunas = <<"ingestion_id">>

\* a column the declaration lists and the table lacks; a table that is not there is not
\* an error yet
CheckDestination(declaradas, daTabela) == daTabela = {} \/ declaradas \subseteq daTabela

--------------------------------------------------------------------------------
(* A query: the rows in their order, until the consumer stops or the rows break *)

\* quebra: the row at which the connection ends, or the context that was cancelled (0: none)
Read(q, linhas, quebra, para) ==
  IF ~q.SQL \/ ~(q.DSN \/ q.Conn) THEN [entregues |-> <<>>, erro |-> TRUE, paginas |-> 0, amostra |-> <<>>]
  ELSE LET ha == IF quebra = 0 THEN Len(linhas) ELSE quebra - 1
           n == IF para # 0 /\ para <= ha THEN para ELSE ha
       IN [entregues |-> SubSeq(linhas, 1, n), erro |-> quebra # 0 /\ n = ha /\ ~(para # 0 /\ para <= ha),
           paginas |-> 1, amostra |-> SubSeq(linhas, 1, IF q.Preview < n THEN q.Preview ELSE n)]

\* MySQL: a Timeout ends with the call that opened the query, so the rows may break at any
\* point; DB is Conn
ReadMySQL(q, linhas, quebra, para) ==
  {Read(q, linhas, k, para) : k \in IF q.Timeout THEN {quebra} \cup 1..Len(linhas) + 1 ELSE {quebra}}

--------------------------------------------------------------------------------
(* Properties, over small inputs                                               *)

Horas == {0, 1, 23, 24, 47}
Fusos == {-3, 0, 2}
InstantesDoTexto == {Texto(f, n, z) : f \in {"rfc3339", "sqlz"}, n \in Horas, z \in Fusos}
                    \cup {Texto("sql", n, 0) : n \in Horas} \cup {Texto("dia", 24 * d, 0) : d \in 0..1}

\* A column copied to a column of the same type, of either database, holds what it held:
\* no digit of a number, no instant, no day and no document changes on the way
CopiaFiel ==
  /\ \A n \in Horas, z \in Fusos :
       /\ paraColuna(converter(V("timestamptz", "", n, z), ""), "timestamp") = {Instante(n, 0)}
       /\ paraColunaMySQL(converter(V("timestamptz", "", n, z), ""), "timestamp") = {Instante(n, 0)}
       /\ paraColuna(ParaJSON(V("[]byte", "sql", n, 0), "DATETIME"), "timestamp") = {Instante(n, 0)}
       /\ paraColunaMySQL(ParaJSON(Instante(n, 0), "DATETIME"), "timestamp") = {Instante(n, 0)}
  /\ \A d \in 0..1 :
       /\ paraColuna(converter(Instante(24 * d, 0), "date"), "date") = {Instante(24 * d, 0)}
       /\ paraColunaMySQL(ParaJSON(V("[]byte", "dia", 24 * d, 0), "DATE"), "date") = {Texto("dia", 24 * d, 0)}
  /\ \A f \in {"finito", "NaN"}, n \in {0} :
       paraColuna(converter(V("numeric", f, n, 0), ""), "numeric") = {V("numeric", f, n, 0)}
  /\ \A t \in {"numeric", "timestamptz", "uuid", "pgtype.Date"}, c \in {"numeric", "timestamp", "date", "json", "text"} :
       paraColuna(converter(V(t, "invalido", 0, 0), ""), c) = {Nil}
  /\ \A f \in {"documento", "quebrado"} :
       paraColuna(converter(V("json.RawMessage", f, 1, 0), ""), "json") = {Texto(IF f = "documento" THEN f ELSE "bruto", 1, 0)}
  /\ \A s \in {<<V("timestamptz", "", 1, 2)>>, <<V("numeric", "finito", 5, 0), V("numeric", "invalido", 0, 0)>>} :
       converter(V("array", "", s, 0), "").n = [k \in DOMAIN s |-> converter(s[k], "")]

\* A text is one instant, the one it writes, in both databases; a day is the day of UTC
\* unless the text is told west of it, where Postgres takes the day before
InstanteDoTexto ==
  \A v \in InstantesDoTexto :
    /\ \A t \in paraInstante(v) \cup paraInstanteMySQL(v) : t.n = v.n
    /\ v.forma # "sqlz" => paraInstante(v) # {} /\ paraInstanteMySQL(v) # {}
    /\ \A d \in paraColuna(v, "date") : Dia(d.n + d.z) = (IF v.z < 0 THEN Dia(v.n) - 1 ELSE Dia(v.n))
    /\ \A d \in paraColunaMySQL(v, "date") : Dia(d.n) = Dia(v.n)

\* A refused value refuses its batch: no row is written with a value in another's place
LinhaInteira ==
  \A t \in [{"a", "b"} -> {"timestamp", "numeric", "text"}],
     l \in UNION {[S -> {Nil, Texto("decimal", 5, 0), Texto("rfc3339", 1, 0)}] : S \in SUBSET {"a", "b"}} :
    LET r == Values(l, t)
    IN /\ r = {} <=> \E c \in DOMAIN l : paraColuna(l[c], t[c]) = {}
       /\ \A v \in r, c \in {"a", "b"} : v[c] = Nil <=> (c \notin DOMAIN l \/ l[c] = Nil)

\* The name, the address and the statement say what was declared
DeclaradoESoIsso ==
  /\ \A n \in {<<"t">>, <<"s", "t">>, <<"a", "s", "t">>} :
       /\ partirNome(n) # {} => \A p \in partirNome(n) : Last(p) = Last(n)
       /\ LET p == partirNomeMySQL(n) IN Len(n) > 1 => <<p[1]>> \o p[2] = qualificar(n)
  /\ \A d \in SUBSET {<<"parseTime", "false">>, <<"tls", "true">>} :
       d \subseteq comParseTime(d) /\ Cardinality({p \in comParseTime(d) : p[1] = "parseTime"}) = 1
  /\ \A k \in 1..3, n \in 1..3, i \in BOOLEAN :
       LET s == InsertSQL([j \in 1..k |-> j], n, i) IN s.marcas = k * n /\ s.grupos = n
  /\ \A x \in SUBSET [unico : BOOLEAN, colunas : {<<"ingestion_id">>, <<"ingestion_id", "a">>}] :
       conferirIndiceUnico(x) => [unico |-> TRUE, colunas |-> <<"ingestion_id">>] \in x

\* A reading that ends without an error and was not stopped delivered every row, and one
\* that breaks says so; the preview is of rows that were delivered
NadaFaltaSemAviso ==
  \A q \in [SQL : BOOLEAN, DSN : BOOLEAN, Conn : BOOLEAN, Timeout : BOOLEAN, Preview : 0..2], n \in 0..3, b, para \in 0..4 :
    LET linhas == [k \in 1..n |-> k]
        quebra == IF b > n + 1 THEN 0 ELSE b
    IN \A r \in {Read(q, linhas, quebra, para)} \cup ReadMySQL(q, linhas, quebra, para) :
         /\ ~r.erro /\ para = 0 => r.entregues = linhas
         /\ IsPrefix(r.entregues, linhas) /\ IsPrefix(r.amostra, r.entregues)
         /\ r.erro /\ r.paginas > 0 => quebra # 0 \/ q.Timeout

TiposFieis == CopiaFiel /\ InstanteDoTexto /\ LinhaInteira /\ DeclaradoESoIsso /\ NadaFaltaSemAviso
================================================================================
