-------------------------------- MODULE HttpRules --------------------------------
(***************************************************************************)
(* What a source over HTTP decides without asking anybody: whether its     *)
(* declaration can work, how a stored credential is wrapped, which cookies *)
(* a request carries, what a page says of the next one, how long a retry   *)
(* waits and what a log may show.                                          *)
(*   src/sdk/internal/core/auth.go, credenvelope.go, credstore.go,         *)
(*   src/sdk/extract/extract.go, auth.go, credjar.go, src/sdk/from/http.go *)
(***************************************************************************)
LOCAL INSTANCE Integers
LOCAL INSTANCE Sequences
LOCAL INSTANCE FiniteSets
LOCAL INSTANCE SequencesExt
LOCAL INSTANCE FiniteSetsExt

Vazio == ""

--------------------------------------------------------------------------------
(* The declaration of a source                                                 *)

Estrategias == {"FollowLinks", "CursorKey", "PageKey", "OffsetKey"}
\* one strategy at most, and no field that only another one would read
checkPagination(s) ==
  /\ Cardinality(s.campos \cap Estrategias) <= 1
  /\ "PageSize" \in s.campos => "OffsetKey" \in s.campos
  /\ "FirstPage" \in s.campos => "PageKey" \in s.campos

\* Credential.Check over the fields that are set; loja is CheckStore of the store
Check(c, loja) ==
  /\ Cardinality(c \cap {"Value", "Login"}) = 1
  /\ "Login" \in c => {"Login.URL", "Login.Token"} \subseteq c
  /\ "Apply" \in c
  /\ "Refresh" \in c =>
       /\ "Refresh.URL" \in c
       /\ "Store" \in c => loja
       /\ "WarnAfter" \in c => "ExpiresAt" \in c

\* the declaration says twice where the records are
fetch(s, c, loja) ==
  /\ "URL" \in s.campos
  /\ ~({"Records", "DataKey"} \subseteq s.campos)
  /\ checkPagination(s)
  /\ c # {} => Check(c, loja)

\* FileStore: nothing configured is off; a name that is a path, a key that is none and a
\* directory others can read are refused
resolver(f) ==
  CASE f.nome # "simples" -> "erro"
    [] f.nome = "simples" /\ f.dir = "nenhum" -> "desligado"
    [] f.nome = "simples" /\ f.dir # "nenhum" /\ f.chave = "torta" -> "erro"
    [] f.nome = "simples" /\ f.dir \in {"aberto", "arquivo"} /\ f.chave # "torta" -> "erro"
    [] OTHER -> "ligado"
CheckStore(f) == resolver(f) # "erro"

--------------------------------------------------------------------------------
(* The stored value: a line with the version, then the body                    *)

Claro == <<"brevis-cred/1p">>
Cifrado == <<"brevis-cred/1">>
\* a sealed body: the nonce, then the text under a key with its tag
Seal(chave, valor) == IF chave = Vazio THEN Claro \o <<"n">> \o valor
                      ELSE Cifrado \o <<"n", "nonce">> \o <<<<chave, valor>>>>

\* Mutant: what does not decrypt is used as it is
OpenAssimMesmo(chave, bruto) ==
  IF Len(bruto) < 2 THEN <<>> ELSE SubSeq(bruto, 3, Len(bruto))

\* <<>> is no value: an unknown version, a truncated body, another key
Open(chave, bruto) ==
  IF Len(bruto) < 2 \/ bruto[2] # "n" THEN <<>>
  ELSE LET corpo == SubSeq(bruto, 3, Len(bruto))
       IN CASE bruto[1] = Claro[1] -> corpo
            [] bruto[1] = Cifrado[1] ->
                 IF chave = Vazio \/ Len(corpo) < 2 THEN <<>>
                 ELSE IF corpo[2][1] = chave THEN corpo[2][2] ELSE <<>>
            [] OTHER -> <<>>

\* What the file may hold after the process dies between two steps of Save: the temporary
\* is written, synced and closed before it takes the name
Save(antes, conteudo) == << antes, antes, antes, antes, conteudo >>

--------------------------------------------------------------------------------
(* Cookies: a header is a sequence of name and value                            *)

NomesDe(cookies) == {cookies[k][1] : k \in DOMAIN cookies}
\* what carries the credential stays off the jar; the last value a name was set to counts
SetCookies(jar, nomes, postos) ==
  [rotacoes |-> [n \in DOMAIN jar.rotacoes \cup (nomes \cap NomesDe(postos)) |->
                  IF n \in NomesDe(postos) THEN postos[Max({k \in DOMAIN postos : postos[k][1] = n})][2]
                  ELSE jar.rotacoes[n]],
   inner |-> [n \in DOMAIN jar.inner \cup (NomesDe(postos) \ nomes) |->
               IF n \in NomesDe(postos) THEN postos[Max({k \in DOMAIN postos : postos[k][1] = n})][2]
               ELSE jar.inner[n]]]
Vazias == [n \in {} |-> 0]
JarNovo == [rotacoes |-> Vazias, inner |-> Vazias]
\* Rotacoes: given once
Rotacoes(jar) == [jar EXCEPT !.rotacoes = Vazias]

\* by name; the cookies the renewal did not touch stay
aplicarRotacao(cabecalho, rotacoes) ==
  [k \in DOMAIN cabecalho |-> IF cabecalho[k][1] \in DOMAIN rotacoes THEN <<cabecalho[k][1], rotacoes[cabecalho[k][1]]>>
                              ELSE cabecalho[k]]
\* the cookies of a request: the header, and the jar
Enviados(cabecalho, jar) == cabecalho \o SetToSeq({<<n, jar.inner[n]>> : n \in DOMAIN jar.inner})

--------------------------------------------------------------------------------
(* Documents: a leaf of a kind, or an object                                   *)

Folha(tipo) == [tipo |-> tipo, campos |-> Vazias]
Obj(campos) == [tipo |-> "objeto", campos |-> campos]
\* walking a path; {} is an error that names where it stopped
RECURSIVE Seguir(_, _)
Seguir(doc, caminho) ==
  IF caminho = <<>> THEN {doc}
  ELSE IF doc.tipo # "objeto" \/ Head(caminho) \notin DOMAIN doc.campos THEN {}
  ELSE Seguir(doc.campos[Head(caminho)], Tail(caminho))

\* a token is a text or a number, and login refuses an empty one
CampoJSON(doc, caminho) == {d \in Seguir(doc, caminho) : d.tipo \in {"texto", "numero"}}
\* null ends a walk; a field that is not there is an error
lerTemMais(doc, caminho) ==
  {d.tipo = "verdadeiro" : d \in {d \in Seguir(doc, caminho) : d.tipo \in {"verdadeiro", "falso", "nulo"}}}
\* a time in RFC 3339 at the root
JSONField(doc, nome) == {d \in Seguir(doc, <<nome>>) : d.tipo = "instante"}

\* the next cursor ("" ends the walk) and the rows; {} is an error
unwrapPage(doc, cursorKey, dataKey) ==
  IF doc.tipo \notin {"objeto", "nulo"} \/ (dataKey # Vazio /\ dataKey \notin DOMAIN doc.campos) THEN {}
  ELSE {[cursor |-> IF cursorKey \in DOMAIN doc.campos /\ doc.campos[cursorKey].tipo # "nulo"
                    THEN doc.campos[cursorKey].tipo ELSE Vazio,
         rows |-> IF dataKey = Vazio THEN doc ELSE doc.campos[dataKey]]}

\* Link: each piece between commas is a target in angle brackets and its parameters.  A
\* target that has a comma or a semicolon is cut where it is and read as none
parseLinkNext(links) ==
  LET serve(l) == ~l.cortado /\ "next" \in l.rel
  IN IF \E k \in DOMAIN links : serve(links[k]) THEN links[Min({k \in DOMAIN links : serve(links[k])})].alvo ELSE Vazio

\* a query: its names and values
withQuery(query, nome, valor) == [n \in DOMAIN query \cup {nome} |-> IF n = nome THEN valor ELSE query[n]]
firstPageURL(query, nome, primeira) ==
  IF nome \in DOMAIN query THEN query ELSE withQuery(query, nome, IF primeira = 0 THEN 1 ELSE primeira)
currentOffset(query, nome) == IF nome \in DOMAIN query THEN query[nome] ELSE 0

--------------------------------------------------------------------------------
(* Retries                                                                     *)

shouldRetryStatus(status) == status = 429 \/ status >= 500
shouldRetry(erro) == erro \in {"connection", "timeout", "temporary"}

\* a duration is a signed integer of Largura bits, and the product wraps around
Largura == 12
EmDuracao(n) == ((n + 2^(Largura - 1)) % 2^Largura) - 2^(Largura - 1)
\* the waits there may be: the jitter adds up to a fraction (in tenths) of the backoff
calculateBackoff(attempt, cfg) ==
  LET cheio == EmDuracao(2^attempt * cfg.InitialBackoff)
      backoff == IF cfg.MaxBackoff > 0 /\ cheio > cfg.MaxBackoff THEN cfg.MaxBackoff ELSE cheio
      span == (backoff * cfg.JitterFraction) \div 10
  IN IF backoff <= 0 \/ span <= 0 THEN {backoff} ELSE backoff..(backoff + span - 1)
\* what the server asks for, in seconds or as a time to come, comes first
retryAfter(pedido, attempt, cfg) ==
  IF pedido.forma = "segundos" \/ (pedido.forma = "data" /\ pedido.n > 0) THEN {pedido.n}
  ELSE calculateBackoff(attempt, cfg)

\* One request outside the pages, a renewal or a login: each answer is a status or an
\* error; every attempt carries the whole body
requisitar(respostas, MaxAttempts) ==
  LET de(k) == respostas[k]
      deNovo(k) == k < MaxAttempts /\ (IF de(k).tipo = "erro" THEN shouldRetry(de(k).v) ELSE shouldRetryStatus(de(k).v))
      fim == Min({k \in 1..MaxAttempts : ~deNovo(k)})
  IN [pedidos |-> fim, corpos |-> fim, bom |-> de(fim).tipo = "status" /\ de(fim).v \in 200..299]

--------------------------------------------------------------------------------
(* What a log shows of an address                                              *)

Marcadores == {"key", "token", "secret", "password", "passwd", "pwd",
               "auth", "credential", "signature", "sig", "session", "cookie"}
Contem(s, m) == \E k \in 0..(Len(s) - Len(m)) : SubSeq(s, k + 1, k + Len(m)) = m
Caixa == [x \in {"API", "Api", "api", "KEY", "Key", "key", "page", "monkey", "access", "Token"} |->
           CASE x \in {"API", "Api"} -> "api" [] x \in {"KEY", "Key"} -> "key" [] x = "Token" -> "token" [] OTHER -> x]
\* a name is its words and separators: case folded, separators dropped
isSecret(nome) == \E m \in Marcadores :
  Contem(FoldLeft(LAMBDA s, p : IF p \in {"_", "-", ".", " "} THEN s ELSE s \o Caixa[p], Vazio, nome), m)
\* an address: the password of its user, and its query
redactURL(u) == [senha |-> IF u.senha = Vazio THEN Vazio ELSE "REDACTED",
                 query |-> [n \in DOMAIN u.query |-> IF isSecret(n) THEN "REDACTED" ELSE u.query[n]]]

--------------------------------------------------------------------------------
(* What is expected of them                                                    *)

CamposDeFonte == {"URL", "Records", "DataKey", "PageSize", "FirstPage"} \cup Estrategias
CamposDeAuth == {"Value", "Login", "Login.URL", "Login.Token", "Apply", "Refresh", "Refresh.URL", "Store",
                 "ExpiresAt", "WarnAfter"}
Lojas == [nome : {"simples", "a/b"}, dir : {"nenhum", "novo", "fechado", "aberto", "arquivo"}, chave : {Vazio, "boa", "torta"}]

\* A declaration that is accepted has one way to the next page, one place for the records
\* and one source of the secret, every field it sets is read by somebody, and its store
\* will take the value or is off (extract.go fetch, checkPagination, auth.go Check,
\* credstore.go resolver)
DeclaracaoServe ==
  /\ \A s \in SUBSET CamposDeFonte : fetch([campos |-> s], {}, TRUE) =>
       /\ \A a, b \in s \cap Estrategias : a = b
       /\ \A campo \in s : CASE campo = "PageSize" -> "OffsetKey" \in s [] campo = "FirstPage" -> "PageKey" \in s
                             [] campo = "DataKey" -> "Records" \notin s [] OTHER -> TRUE
  /\ \A c \in SUBSET CamposDeAuth : c # {} /\ fetch([campos |-> {"URL"}], c, FALSE) =>
       /\ "Apply" \in c /\ ("Value" \in c <=> "Login" \notin c)
       /\ {"WarnAfter", "Refresh"} \subseteq c => "ExpiresAt" \in c
       /\ ~({"Refresh", "Store"} \subseteq c)
  /\ \A f \in Lojas : CheckStore(f) => resolver(f) = "desligado" \/ (f.dir \in {"novo", "fechado"} /\ f.chave # "torta")

Chaves == {Vazio, "k1", "k2"}
Valores == {<<"v">>, <<"v", "w">>}
Brutos(valor) == {Seal(k, valor) : k \in Chaves} \cup {<<"brevis-cred/2", "n", "v">>, <<>>}

\* A stored value is read back by whoever has its key; read with another key, with none,
\* cut anywhere or written by another version it is no value, never a wrong one.  A save
\* that dies leaves the former value or the new one (credenvelope.go, credstore.go Save)
CofreFiel ==
  \A v \in Valores, chave \in Chaves :
    /\ Open(chave, Seal(chave, v)) = v
    /\ \A b \in Brutos(v) : Open(chave, b) \in {<<>>, v}
    /\ \A k \in Chaves \ {Vazio} : \A n \in 0..(Len(Seal(k, v)) - 1) : Open(chave, SubSeq(Seal(k, v), 1, n)) = <<>>
    /\ \A b \in Brutos(<<"antes">>) : \A passo \in DOMAIN Save(b, Seal(chave, v)) :
         Open(chave, Save(b, Seal(chave, v))[passo]) \in {Open(chave, b), v}

Postos == UNION {[1..k -> {"s", "t", "u"} \X {1, 2}] : k \in 0..2}
Cabecalhos == {<<<<"s", 0>>>>, <<<<"s", 0>>, <<"t", 0>>>>}

\* After any answers a request carries every cookie once, the credential's in the header
\* in their order and with the last value reissued, the others in the jar, and a value
\* that was applied is not applied again over a newer one (credjar.go, auth.go aplicarRotacao)
CookieUmaVez ==
  \A cab \in Cabecalhos, p1, p2 \in Postos :
    LET nomes == NomesDe(cab)
        j1 == SetCookies(JarNovo, nomes, p1)
        c1 == aplicarRotacao(cab, j1.rotacoes)
        j2 == SetCookies(Rotacoes(j1), nomes, p2)
        c2 == aplicarRotacao(c1, j2.rotacoes)
        todos == p1 \o p2
        vai == Enviados(c2, j2)
    IN /\ Len(c2) = Len(cab) /\ \A k \in DOMAIN cab : c2[k][1] = cab[k][1]
       /\ \A a, b \in DOMAIN vai : vai[a][1] = vai[b][1] => a = b
       /\ NomesDe(vai) = nomes \cup NomesDe(todos)
       /\ \A a \in DOMAIN vai : LET ks == {k \in DOMAIN todos : todos[k][1] = vai[a][1]}
                                IN ks # {} => vai[a][2] = todos[Max(ks)][2]

Tipos == {"texto", "numero", "verdadeiro", "falso", "nulo", "instante"}
Docs == {Folha(t) : t \in Tipos} \cup {Obj([n \in {"a"} |-> Folha(t)]) : t \in Tipos}
        \cup {Obj([n \in {"a", "b"} |-> IF n = "a" THEN Obj([x \in {"c"} |-> Folha(t)]) ELSE Folha(u)]) : t, u \in Tipos}
CaminhosJSON == {<<"a">>, <<"b">>, <<"a", "c">>, <<"a", "c", "d">>}
Alvos == [alvo : {"p1", "p2"}, rel : SUBSET {"next", "last"}, cortado : BOOLEAN]

\* A walk ends only where the page says so: what is missing, or of another kind, is an
\* error and not an end; a page number or an offset goes on the address and leaves the
\* rest of it alone, and the caller's own number wins (extract.go lerTemMais, unwrapPage,
\* parseLinkNext, firstPageURL, withQuery, currentOffset; auth.go CampoJSON, JSONField)
FimSoDito ==
  /\ \A d \in Docs, c \in CaminhosJSON :
       /\ FALSE \in lerTemMais(d, c) => \E x \in Seguir(d, c) : x.tipo \in {"falso", "nulo"}
       /\ Cardinality(CampoJSON(d, c)) <= 1 /\ CampoJSON(d, c) \cap JSONField(d, Head(c)) = {}
       /\ \A p \in unwrapPage(d, Head(c), Vazio) :
            p.cursor = Vazio => Seguir(d, <<Head(c)>>) \in {{}, {Folha("nulo")}}
       /\ \A p \in unwrapPage(d, Vazio, Head(c)) : {p.rows} = Seguir(d, <<Head(c)>>)
  /\ \A ls \in UNION {[1..k -> Alvos] : k \in 0..2} :
       /\ parseLinkNext(ls) # Vazio => \E k \in DOMAIN ls : ls[k].alvo = parseLinkNext(ls) /\ "next" \in ls[k].rel
       /\ (\A k \in DOMAIN ls : ~ls[k].cortado) /\ parseLinkNext(ls) = Vazio => \A k \in DOMAIN ls : "next" \notin ls[k].rel
  /\ \A ns \in SUBSET {"page", "q"}, primeira \in 0..2 :
       LET q == [n \in ns |-> 7]
           u == firstPageURL(q, "page", primeira)
       IN /\ \A n \in ns : u[n] = q[n]
          /\ currentOffset(u, "page") = (IF "page" \in ns THEN 7 ELSE IF primeira = 0 THEN 1 ELSE primeira)

Respostas == [tipo : {"status"}, v : {200, 401, 429, 503}] \cup [tipo : {"erro"}, v : {"timeout", "dns"}]
Passageira(x) == IF x.tipo = "erro" THEN x.v = "timeout" ELSE x.v \in {429, 503}
Politicas == [InitialBackoff : 0..3, MaxBackoff : {0, 2, 60}, JitterFraction : {0, 1, 5}]

\* A request is sent again only for what may pass, as often as allowed, with its body
\* whole, and the first answer that is final is the outcome; a wait is the one the server
\* asked for or grows up to its limit and the jitter, while the doubling fits a duration
\* (extract.go calculateBackoff, retryAfter; auth.go requisitar)
RetentaComMedida ==
  /\ \A r \in [1..3 -> Respostas], max \in 1..3 :
       LET q == requisitar(r, max)
       IN /\ q.pedidos <= max /\ q.corpos = q.pedidos
          /\ \A k \in 1..(q.pedidos - 1) : Passageira(r[k])
          /\ IF q.bom THEN r[q.pedidos].tipo = "status" /\ r[q.pedidos].v = 200
             ELSE q.pedidos = max \/ ~Passageira(r[q.pedidos])
  /\ \A cfg \in Politicas, n \in 0..5 : \A w \in calculateBackoff(n, cfg) :
       /\ w >= 0
       /\ cfg.MaxBackoff > 0 => 10 * w <= cfg.MaxBackoff * (10 + cfg.JitterFraction)
       /\ cfg.MaxBackoff = 0 => w >= 2^n * cfg.InitialBackoff
       /\ \A p \in [forma : {"segundos", "data", "nada"}, n : {-1, 0, 9}] :
            p.forma # "nada" /\ p.n > 0 => retryAfter(p, n, cfg) = {p.n}

Nomes == {<<"API", "_", "KEY">>, <<"api", "-", "Key">>, <<"Api", ".", "Token">>, <<"access", "Token">>, <<"page">>, <<"monkey">>}

\* No spelling of the name of a secret lets its value into a log, nor does the password of
\* an address; what is shown of the others is what was sent (extract.go redactURL, isSecret)
SegredoNaoSai ==
  \A ns \in SUBSET Nomes, senha \in {Vazio, "s"} :
    LET r == redactURL([senha |-> senha, query |-> [n \in ns |-> "v"]])
    IN /\ r.senha # "s" /\ DOMAIN r.query = ns
       /\ \A n \in ns : r.query[n] = "v" <=> n = <<"page">>

HttpFiel == DeclaracaoServe /\ CofreFiel /\ CookieUmaVez /\ FimSoDito /\ RetentaComMedida /\ SegredoNaoSai
================================================================================
