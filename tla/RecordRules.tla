------------------------------- MODULE RecordRules -------------------------------
(***************************************************************************)
(* What happens to a record between the source and the destination, as     *)
(* functions: the values a document decodes to, the records a response     *)
(* holds, the transformers of a chain, the text of a key and the identity  *)
(* of a row.                                                               *)
(*   src/sdk/transform.go, expand.go, mapping.go, ingestion.go, sdk.go,    *)
(*   src/sdk/pycompat, src/sdk/internal/core/response.go, types.go         *)
(* A refusal is an empty set of outcomes.  A text is a sequence of words.  *)
(***************************************************************************)
LOCAL INSTANCE Integers
LOCAL INSTANCE Sequences
LOCAL INSTANCE FiniteSets
LOCAL INSTANCE SequencesExt
LOCAL INSTANCE Functions
LOCAL INSTANCE TLC

--------------------------------------------------------------------------------
(* Values.  `ponto`: the literal of a number was written with a decimal point   *)

Valor(tipo, n, ponto, s) == [tipo |-> tipo, n |-> n, ponto |-> ponto, s |-> s]
Nulo == Valor("nulo", 0, FALSE, <<>>)
Bool(b) == Valor("bool", IF b THEN 1 ELSE 0, FALSE, <<>>)
Texto_(s) == Valor("texto", 0, FALSE, s)
Lista(s) == Valor("lista", 0, FALSE, s)
Obj(f) == Valor("objeto", 0, FALSE, f)
\* a number as the source writes it
Literal(n, ponto) == Valor("literal", n, ponto, <<>>)

\* What a number decodes to: its literal is lost unless Source.PreserveNumbers is on
decodificar(v, preservar) ==
  CASE v.tipo = "literal" /\ preservar -> [v EXCEPT !.tipo = "json.Number"]
    [] v.tipo = "literal" /\ ~preservar -> Valor("float64", v.n, FALSE, <<>>)
    [] OTHER -> v

\* the same, of what is inside an array or an object
decodificarTudo(v, preservar) ==
  IF v.tipo \in {"lista", "objeto"}
  THEN [v EXCEPT !.s = [k \in DOMAIN @ |-> decodificar(@[k], preservar)]] ELSE decodificar(v, preservar)

Digitos(v) == <<ToString(v.n)>> \o (IF v.ponto THEN <<".0">> ELSE <<>>)

\* The default text of a value in a key; other types are printed as Go prints them
asText(v) ==
  CASE v.tipo = "texto" -> v.s
    [] v.tipo = "nulo" -> <<>>
    [] v.tipo = "bool" -> IF v.n = 1 THEN <<"true">> ELSE <<"false">>
    [] v.tipo \in {"float64", "json.Number"} -> Digitos(v)
    [] OTHER -> <<"[">>

--------------------------------------------------------------------------------
(* pycompat: the text Python's str() gives, or a refusal                        *)

\* 10^16 stands for the numbers CPython writes with an exponent
Grande == 16
forcaExpoente(n) == n = Grande

floatPython(v) == IF forcaExpoente(v.n) THEN {} ELSE {Digitos([v EXCEPT !.ponto = TRUE])}

\* Mutant: a float64 is taken for Python's float
PyTextoComFloat(v) ==
  CASE v.tipo = "nulo" -> {<<"None">>}
    [] v.tipo = "bool" -> {IF v.n = 1 THEN <<"True">> ELSE <<"False">>}
    [] v.tipo = "texto" -> {v.s}
    [] v.tipo = "json.Number" -> IF v.ponto THEN floatPython(v) ELSE {Digitos(v)}
    [] v.tipo = "float64" -> floatPython(v)
    [] OTHER -> {}

PyTexto(v) ==
  CASE v.tipo = "nulo" -> {<<"None">>}
    [] v.tipo = "bool" -> {IF v.n = 1 THEN <<"True">> ELSE <<"False">>}
    [] v.tipo = "texto" -> {v.s}
    [] v.tipo = "json.Number" -> IF v.ponto THEN floatPython(v) ELSE {Digitos(v)}
    [] OTHER -> {}

falsoNoPython(v) ==
  \/ v.tipo = "nulo"
  \/ v.tipo \in {"bool", "json.Number", "float64"} /\ v.n = 0
  \/ v.tipo \in {"texto", "lista"} /\ v.s = <<>>
  \/ v.tipo = "objeto" /\ DOMAIN v.s = {}

TextoOuVazio(v) == IF falsoNoPython(v) THEN {<<>>} ELSE PyTexto(v)
TextoAceitandoFloat64(v) == IF v.tipo = "float64" THEN floatPython(v) ELSE PyTexto(v)

\* json.dumps(sort_keys=True, separators=(",", ":")): keys in one order, and of each value
\* one text.  A number is what PyTexto makes of it
RECURSIVE JSONCanonico(_)
JSONCanonico(v) ==
  LET Elementos(s) == {f \in [DOMAIN s -> UNION {JSONCanonico(s[k]) : k \in DOMAIN s}] :
                         \A k \in DOMAIN s : f[k] \in JSONCanonico(s[k])}
      Entre(textos) == FoldLeft(LAMBDA a, t : a \o t \o <<",">>, <<>>, textos)
      chaves == SetToSeq(DOMAIN v.s)
  IN CASE v.tipo = "nulo" -> {<<"null">>}
       [] v.tipo = "bool" -> {IF v.n = 1 THEN <<"true">> ELSE <<"false">>}
       [] v.tipo = "texto" -> {<<"'">> \o v.s \o <<"'">>}
       [] v.tipo = "lista" -> {<<"[">> \o Entre(f) \o <<"]">> : f \in Elementos(v.s)}
       [] v.tipo = "objeto" -> {<<"{">> \o Entre([k \in DOMAIN chaves |-> <<chaves[k], ":">> \o f[chaves[k]]]) \o <<"}">> :
                                  f \in Elementos(v.s)}
       [] OTHER -> PyTexto(v)

--------------------------------------------------------------------------------
(* Responses: Object, RejectIf, RequireFields, ParallelArrays, ArrayAt          *)

\* Response.Object: the decoder that keeps literals stops at the end of the first
\* document, the other one refuses what follows
Object(corpo, preservar) ==
  IF corpo.doc.tipo # "objeto" \/ (corpo.sobra /\ ~preservar) THEN {}
  ELSE {[k \in DOMAIN corpo.doc.s |-> decodificar(corpo.doc.s[k], preservar)]}

\* a number that kept its literal is always truthy
truthy(v) ==
  CASE v.tipo = "bool" -> v.n = 1
    [] v.tipo = "texto" -> v.s \notin {<<>>, <<"false">>, <<"0">>}
    [] v.tipo = "float64" -> v.n # 0
    [] v.tipo = "nulo" -> FALSE
    [] OTHER -> TRUE

RejectIf(docs, campos) == {d \in docs : \A c \in campos \cap DOMAIN d : ~truthy(d[c])}
RequireFields(docs, campos) == {d \in docs : campos \subseteq DOMAIN d}

\* One record per index; fields outside the block go on every record, but for objects
ParallelArrays(doc, bloco, campos) ==
  LET temBloco == bloco # ""
      bom == campos # {} /\ (temBloco => bloco \in DOMAIN doc /\ doc[bloco].tipo = "objeto")
      fonte == IF temBloco THEN doc[bloco].s ELSE doc
      comuns == IF temBloco THEN {k \in DOMAIN doc : k # bloco /\ doc[k].tipo # "objeto"} ELSE {}
      tamanho == Len(fonte[CHOOSE c \in campos : TRUE].s)
  IN IF ~bom THEN {}
     ELSE IF \E c \in campos : c \notin DOMAIN fonte \/ fonte[c].tipo # "lista" THEN {}
     ELSE IF \E c \in campos : Len(fonte[c].s) # tamanho THEN {}
     ELSE {[i \in 1..tamanho |-> [c \in campos \cup comuns |->
                                   IF c \in campos THEN fonte[c].s[i] ELSE doc[c]]]}

\* {}: a step of the path is missing or is not an object, or the end is not an array
ArrayAt(doc, caminho) ==
  LET passo(v, c) == IF v.tipo = "objeto" /\ c \in DOMAIN v.s THEN v.s[c] ELSE Nulo
      fim == FoldLeft(passo, Obj(doc), caminho)
  IN IF fim.tipo = "lista" THEN {fim.s} ELSE {}

--------------------------------------------------------------------------------
(* Transformers: of a payload, the outcomes.  "pula" drops the record           *)

Registro(f) == [tipo |-> "objeto", campos |-> f]
NaoObjeto == [tipo |-> "outro", campos |-> <<>>]
Pula == [tipo |-> "pula", campos |-> <<>>]
SeObjeto(p, novos) == IF p.tipo = "objeto" THEN novos ELSE {p}

Accept(p, campos) ==
  SeObjeto(p, IF campos \subseteq DOMAIN p.campos THEN {Registro(Restrict(p.campos, campos))} ELSE {})

Without(p, campos) == SeObjeto(p, {Registro(Restrict(p.campos, DOMAIN p.campos \ campos))})

SkipWithout(p, campos) ==
  IF campos = {} THEN {}
  ELSE SeObjeto(p, IF \E c \in campos : c \notin DOMAIN p.campos \/ p.campos[c] = Nulo
                   THEN {Pula} ELSE {p})

\* All is read before anything is written.  Two names that become one: the order of
\* the map decides which value stays
Rename(p, nomes) ==
  LET f == p.campos
      trocados == DOMAIN nomes \cap DOMAIN f
      novos == {nomes[a] : a \in trocados}
      choca == \E a \in trocados : nomes[a] \in DOMAIN f \ {a}
      quem == {g \in [novos -> trocados] : \A b \in novos : nomes[g[b]] = b}
  IN SeObjeto(p, IF choca THEN {}
                 ELSE {Registro([k \in (DOMAIN f \ trocados) \cup novos |->
                                   IF k \in novos THEN f[g[k]] ELSE f[k]]) : g \in quem})

\* Mutant: a field that is there is overwritten
ComputeSobrescreve(p, nome, valores) ==
  IF p.tipo # "objeto" THEN {} ELSE {Registro((nome :> v) @@ p.campos) : v \in valores}

Compute(p, nome, valores) ==
  IF p.tipo # "objeto" \/ nome \in DOMAIN p.campos THEN {}
  ELSE {Registro((nome :> v) @@ p.campos) : v \in valores}

\* Source.Snapshot: the record as the source gave it, under a name of its own
comRetrato(p, nome) ==
  SeObjeto(p, IF nome \in DOMAIN p.campos THEN {} ELSE {Registro((nome :> Obj(p.campos)) @@ p.campos)})

--------------------------------------------------------------------------------
(* Keys and identity                                                           *)

Juntar(textos) == FoldLeft(LAMBDA a, t : a \o <<"|">> \o t, Head(textos), Tail(textos))

\* How a value is written into a key: asText unless the fetcher asks for Python's
Renderer(render, v) == IF render = "python" THEN PyTexto(v) ELSE {asText(v)}

\* of each field its one text, or none at all
Textos(render, f, nomes) ==
  IF \E k \in DOMAIN nomes : nomes[k] \notin DOMAIN f \/ Renderer(render, f[nomes[k]]) = {} THEN {}
  ELSE {[k \in DOMAIN nomes |-> CHOOSE t \in Renderer(render, f[nomes[k]]) : TRUE]}

KeyWith(render, p, nomes) ==
  IF nomes = <<>> \/ p.tipo # "objeto" THEN {} ELSE {Juntar(t) : t \in Textos(render, p.campos, nomes)}

Key(p, nomes) == KeyWith("go", p, nomes)
FixedKey(p, texto) == {texto}
Field(p, nome) == Key(p, <<nome>>)

\* provider|entity|source_key|record_ts in a namespace, through a hash with no collision
ComputeIngestionIDNo(espaco, partes) == <<espaco>> \o Juntar(partes)

defaultIDFields == <<"provider", "entity", "source_key", "record_ts">>

ingestionIDCom(render, p, espaco, nomes) ==
  IF Len(nomes) # 4 \/ p.tipo # "objeto" THEN {}
  ELSE IF "ingestion_id" \in DOMAIN p.campos THEN {}
  ELSE {Registro(("ingestion_id" :> Texto_(ComputeIngestionIDNo(espaco, t))) @@ p.campos) :
          t \in {u \in Textos(render, p.campos, nomes) : u[3] # <<>>}}

IngestionID(p) == ingestionIDCom("go", p, "padrao", defaultIDFields)
IngestionIDWith(render, p) == ingestionIDCom(render, p, "padrao", defaultIDFields)
Namespace(p, espaco, nomes) == ingestionIDCom("go", p, espaco, nomes)

IngestionLoadedAt(p, agora) ==
  IF p.tipo # "objeto" \/ "ingestion_loaded_at" \in DOMAIN p.campos THEN {}
  ELSE {Registro(("ingestion_loaded_at" :> Texto_(agora)) @@ p.campos)}

\* The identity of an envelope, composed without a chain
EnvelopeIngestionID(e) ==
  IF e.SourceKey = <<>> THEN {}
  ELSE {ComputeIngestionIDNo("padrao", <<e.Provider, e.Entity, e.SourceKey, e.RecordTS>>)}

--------------------------------------------------------------------------------
(* Properties, over small inputs                                               *)

Numeros == {Literal(n, b) : n \in {0, 1, 19, Grande}, b \in BOOLEAN}
Palavras == {<<>>, <<"a">>, <<"b">>, <<"a", "|", "b">>}
Documento == Numeros \cup {Nulo, Bool(TRUE), Bool(FALSE), Lista(<<>>)} \cup {Texto_(s) : s \in Palavras}

\* What str() of Python gives for a value its json module decoded
StrDoPython(v) ==
  CASE v.tipo = "literal" -> IF v.ponto /\ v.n = Grande THEN <<"1e+16">> ELSE Digitos(v)
    [] v.tipo = "nulo" -> <<"None">>
    [] v.tipo = "bool" -> IF v.n = 1 THEN <<"True">> ELSE <<"False">>
    [] v.tipo = "texto" -> v.s
    [] OTHER -> <<"[]">>

\* A key composed the way Python did is Python's key or a refusal, however the numbers
\* of the document were decoded (pycompat: a key that fails loudly, never one that differs)
ChaveDoPython ==
  \A v \in Documento, p \in BOOLEAN :
    /\ \A t \in PyTexto(decodificar(v, p)) : t = StrDoPython(v)
    /\ \A t \in TextoOuVazio(decodificar(v, p)) :
         t = IF v.n = 0 /\ v.s = <<>> THEN <<>> ELSE StrDoPython(v)
    /\ v.ponto => \A t \in TextoAceitandoFloat64(decodificar(v, p)) : t = StrDoPython(v)

contemNumero(v) ==
  \/ v.tipo = "literal"
  \/ v.tipo \in {"lista", "objeto"} /\ \E k \in DOMAIN v.s : v.s[k].tipo = "literal"
Aninhados == Documento \cup {Lista(<<v>>) : v \in Documento}
             \cup {Obj(f) : f \in {("a" :> v) : v \in Documento}
                                   \cup {("a" :> v) @@ ("b" :> Bool(TRUE)) : v \in Documento}}

\* Two documents have one canonical text only when they are one document; a number whose
\* literal was lost is refused at any depth
CanonicoDistingue ==
  LET texto == [v \in Aninhados |-> JSONCanonico(decodificarTudo(v, TRUE))]
      perdido(v) == JSONCanonico(decodificarTudo(v, FALSE))
  IN /\ \A v, w \in Aninhados : texto[v] \cap texto[w] # {} => v = w
     /\ \A v \in Aninhados : IF contemNumero(v) THEN perdido(v) = {} ELSE perdido(v) = texto[v]

\* A guard refuses a document that says it failed, and whether numbers keep their
\* literal matters only for a zero
RecusaEstavel ==
  \A v \in Documento :
    LET passa(p) == RejectIf(Object([doc |-> Obj("error" :> v), sobra |-> FALSE], p), {"error"}) # {}
    IN /\ passa(TRUE) => passa(FALSE)
       /\ v \notin {Literal(0, b) : b \in BOOLEAN} => passa(TRUE) = passa(FALSE)
       /\ v = Bool(TRUE) => ~passa(FALSE)

\* Readings are paired by their index and none is lost or invented
LeiturasPareadas ==
  LET series == {Lista(SubSeq(<<Nulo, Bool(TRUE), Bool(FALSE)>>, 1, n)) : n \in 0..3}
  IN \A x, y \in series, b \in {"", "h"} :
       LET medidas == ("x" :> x) @@ ("y" :> y)
           doc == IF b = "" THEN medidas ELSE ("h" :> Obj(medidas)) @@ ("lat" :> Bool(TRUE)) @@ ("u" :> Obj("x" :> Nulo))
           saida == ParallelArrays(doc, b, {"x", "y"})
       IN /\ saida # {} <=> Len(x.s) = Len(y.s)
          /\ \A s \in saida : /\ [i \in DOMAIN s |-> s[i]["x"]] = x.s
                              /\ [i \in DOMAIN s |-> s[i]["y"]] = y.s
                              /\ \A i \in DOMAIN s : ("lat" \in DOMAIN s[i]) = (b # "") /\ "u" \notin DOMAIN s[i]

Campos == {"a", "b", "c"}
Payloads == {Registro(f) : f \in UNION {[S -> {Nulo, Bool(TRUE)}] : S \in SUBSET {"a", "b"}}} \cup {NaoObjeto}
Trocas == UNION {[S -> Campos] : S \in SUBSET {"a", "b"}}

\* A transformer outside of the list of what is dropped loses no value: the fields that
\* are not named come out as they went in, renaming keeps every value unless two names
\* become one, and nothing that was there is overwritten by what is computed
NadaSobrescrito ==
  \A p \in Payloads : p.tipo = "objeto" =>
    LET f == p.campos
        valores(g) == {<<v, Cardinality({k \in DOMAIN g : g[k] = v})>> : v \in Range(g)}
    IN /\ \A c \in Campos, v \in {Nulo, Bool(FALSE)} : \A q \in Compute(p, c, {v}) :
            Restrict(q.campos, DOMAIN f) = f /\ q.campos[c] = v
       /\ \A n \in Trocas : IsInjective(Restrict(n, DOMAIN n \cap DOMAIN f)) =>
            /\ Cardinality(Rename(p, n)) <= 1
            /\ \A q \in Rename(p, n) :
                 valores(q.campos) = valores(f) /\ \A k \in DOMAIN f \ DOMAIN n : q.campos[k] = f[k]
       /\ \A S \in SUBSET Campos :
            /\ \A q \in Accept(p, S) : DOMAIN q.campos = S
            /\ \A q \in Without(p, S) : \A g \in Accept(p, DOMAIN f \ S) : q = g
            /\ \A q \in SkipWithout(p, S) : q = Pula \/ (q = p /\ \A c \in S : f[c] # Nulo)
       /\ \A q \in comRetrato(p, "c") : \A r \in Without(q, {"a"}) \cup Compute(q, "d", {Nulo}) :
            r.campos["c"] = Obj(f)

Linhas == {Registro([k \in {"provider", "entity", "source_key", "record_ts"} |->
                       CASE k = "provider" -> a [] k = "source_key" -> b [] k = "record_ts" -> c
                         [] OTHER -> Texto_(<<"e">>)]) :
             a \in {Texto_(s) : s \in Palavras}, b \in {Texto_(s) : s \in Palavras} \cup {Literal(1, TRUE)}, c \in {Nulo, Texto_(<<"b">>)}}
IdDe(p) == {q.campos["ingestion_id"].s : q \in p}

\* One row, one identity: the same four values give the same id whatever else the row
\* carries and whether the chain or the envelope computes it, a row without a source key
\* gets none, and two rows of one id differ only by where a "|" of a value falls.  Rendered
\* Python's way it is the id the fetcher in Python wrote for the same row, or none
IdentidadeEstavel ==
  LET Lida(r, preservar) == [r EXCEPT !.campos = [k \in DOMAIN @ |-> decodificar(@[k], preservar)]]
  IN
  /\ \A o \in Linhas, preservar \in BOOLEAN :
       IdDe(IngestionIDWith("python", Lida(o, preservar))) \subseteq
         {ComputeIngestionIDNo("padrao", [k \in 1..4 |-> StrDoPython(o.campos[defaultIDFields[k]])])}
  /\ \A p, q \in {Lida(r, TRUE) : r \in Linhas} :
    LET partes(r) == [k \in 1..4 |-> asText(r.campos[defaultIDFields[k]])]
        e == [Provider |-> partes(p)[1], Entity |-> partes(p)[2], SourceKey |-> partes(p)[3], RecordTS |-> partes(p)[4]]
    IN /\ IdDe(IngestionID(p)) = EnvelopeIngestionID(e)
       /\ \A r \in IngestionLoadedAt(p, <<"agora">>) : IdDe(IngestionID(r)) = IdDe(IngestionID(p))
       /\ IngestionID(p) = {} <=> partes(p)[3] = <<>>
       /\ \A r \in IngestionID(p) : IngestionID(r) = {}
       /\ IdDe(IngestionID(p)) \cap IdDe(IngestionID(q)) # {} =>
            \/ partes(p) = partes(q)
            \/ \E k \in 1..4 : "|" \in ToSet(partes(p)[k]) \cup ToSet(partes(q)[k])
       /\ IdDe(Namespace(p, "outro", defaultIDFields)) \cap IdDe(IngestionID(q)) = {}

\* What a record is on its way to the destination
RegistroFiel == ChaveDoPython /\ CanonicoDistingue /\ RecusaEstavel /\ LeiturasPareadas /\ NadaSobrescrito /\ IdentidadeEstavel
================================================================================
