-------------------------------- MODULE AccessRules --------------------------------
(***************************************************************************)
(* With which configuration a process starts, and who gets past its door:  *)
(* the environment it reads, the executors it ends up with, the command    *)
(* line, the brand, the session of the operator and the routes.            *)
(*   src/internal/config/config.go, src/internal/auth/auth.go,             *)
(*   src/internal/api/server.go, health.go, ui.go,                         *)
(*   src/internal/branding/branding.go, src/cmd/brevis/main.go             *)
(***************************************************************************)
LOCAL INSTANCE Integers
LOCAL INSTANCE Sequences
LOCAL INSTANCE FiniteSets
LOCAL INSTANCE SequencesExt
LOCAL INSTANCE FiniteSetsExt
LOCAL INSTANCE TLC

Vazio == ""
Vazias == [x \in {} |-> Vazio]

--------------------------------------------------------------------------------
(* The credential.  A user is what is between the bars of the cookie, usually  *)
(* one piece; a hash has a form, and the password it was made from              *)

\* four parts: the name of the algorithm, the iterations, the salt and the key
GerarHash(senha) == [forma |-> "inteira", senha |-> senha]
ConferirSenha(hash, senha) == hash.forma = "inteira" /\ hash.senha = senha

Ativa(c) == c.usuario # <<>> /\ c.hash.forma # "vazia"

\* Mutant: a credential without one of its halves is a credential that is off
ValidarSoAtiva(c) == Ativa(c) => c.hash.forma \in {"inteira", "cortada"} /\ c.segredo.bytes >= 32

\* only the name of the algorithm is looked at: a hash that was cut passes
Validar(c) ==
  IF ~Ativa(c) THEN c.usuario = <<>> /\ c.hash.forma = "vazia"
  ELSE c.hash.forma \in {"inteira", "cortada"} /\ c.segredo.bytes >= 32

--------------------------------------------------------------------------------
(* The configuration of a process                                              *)

\* lista: pieces between commas, the empty ones left out
lista(partes) == SelectSeq(partes, LAMBDA p : p # Vazio)
\* "chave=valor:efeito": an entry without one of its parts is left out
toleracoes(entradas) == SelectSeq(entradas, LAMBDA t : t.valor # Vazio /\ t.efeito # Vazio)
pares(entradas) ==
  FoldLeft(LAMBDA m, p : IF p.valor = Vazio THEN m
                         ELSE [k \in DOMAIN m \cup {p.chave} |-> IF k = p.chave THEN p.valor ELSE m[k]],
           Vazias, entradas)

Modos == {"auto", "on", "off"}
Load(a) ==
  /\ a.prazo # "texto"
  /\ a.banco
  /\ a.modo \in Modos
  /\ Validar(a.cred)
  /\ a.env # "local" => Ativa(a.cred)

DaPlataforma == {"BREVIS_DATABASE_URL", "BREVIS_AUTH_SEGREDO"}
Por(env, nome, valor) == [n \in DOMAIN env \cup {nome} |-> IF n = nome THEN valor ELSE env[n]]
\* an entry is "*", a name with a value or a name; one that does not exist is left out
AmbienteDasTasks(entradas, processo) ==
  FoldLeft(LAMBDA env, e :
             CASE e.forma = "*" ->
                    [n \in DOMAIN env \cup (DOMAIN processo \ DaPlataforma) |->
                       IF n \in DOMAIN processo \ DaPlataforma THEN processo[n] ELSE env[n]]
               [] e.forma = "literal" -> Por(env, e.nome, e.valor)
               [] e.forma = "nome" /\ e.nome \in DOMAIN processo -> Por(env, e.nome, processo[e.nome])
               [] OTHER -> env,
           [n \in {"PATH", "HOME"} |-> IF n \in DOMAIN processo THEN processo[n] ELSE Vazio], entradas)

\* executorDePods: the cluster is there, is not there, or is there and cannot be used
executorDePods(modo, cluster) ==
  CASE modo = "off" -> {}
    [] modo # "off" /\ cluster = "dentro" -> {"pod"}
    [] modo = "auto" /\ cluster = "fora" -> {}
    [] OTHER -> {"erro"}
\* local.New refuses any environment but local, and the scheduler goes on without it
executores(env, modo, cluster) ==
  (IF env = "local" THEN {"processo"} ELSE {}) \cup executorDePods(modo, cluster)

--------------------------------------------------------------------------------
(* The command line                                                            *)

\* --param: {} is an error, an entry without "=" or without a name
paramsDaLinha(entradas) ==
  IF \E k \in DOMAIN entradas : ~entradas[k].igual \/ entradas[k].chave = Vazio THEN {}
  ELSE {FoldLeft(LAMBDA m, e : Por(m, e.chave, e.valor), Vazias, entradas)}

\* files as they are given, directories by the YAML files in them, in order; {} is an error
expandir(alvos, disco) ==
  LET de(a) == IF disco[a].tipo = "arquivo" THEN <<a>> ELSE disco[a].yamls
      todos == FlattenSeq([k \in DOMAIN alvos |-> de(alvos[k])])
  IN IF (\E k \in DOMAIN alvos : alvos[k] \notin DOMAIN disco) \/ todos = <<>> THEN {}
     ELSE {SortSeq(todos, LAMBDA a, b : a < b)}

\* Parse decides for both: validate tells of every file, publish stops at the first bad one
cmdValidate(arquivos, bons) == \A k \in DOMAIN arquivos : arquivos[k] \in bons
publicados(arquivos, bons) ==
  LET ruins == {k \in DOMAIN arquivos : arquivos[k] \notin bons}
  IN IF ruins = {} THEN arquivos ELSE SubSeq(arquivos, 1, Min(ruins) - 1)

\* at least twelve characters, from the terminal and never from an argument
cmdHash(senha) == IF Len(senha) < 12 THEN {} ELSE {GerarHash(senha)}

--------------------------------------------------------------------------------
(* The brand: a title, a logo and colours, each with a default                 *)

Hex == {"#abc", "#aabbcc", "#aabbccdd"}
Derivadas == [line |-> <<"tinta", "1a">>, line_soft |-> <<"tinta", "0d">>, gold_wash |-> <<"destaque", "14">>]
Padrao == [titulo |-> "Brevis", logo |-> "/assets/logo.svg", tinta |-> "#21180f", destaque |-> "#aa8450"]
Cores == {"tinta", "destaque"}

validarLogo(logo) == logo \in {Vazio, "/assets/logo.svg", "https://x/logo.png"}
ValidarMarca(m) == m.titulo \notin {Vazio, " "} /\ (\A c \in Cores : m[c] \in Hex \cup {Padrao[c]}) /\ validarLogo(m.logo)

\* read over the default; a missing file is the default, a bad one too, with an error
Carregar(arquivo) ==
  LET m == [c \in DOMAIN Padrao |-> IF c \in DOMAIN arquivo.campos THEN arquivo.campos[c] ELSE Padrao[c]]
  IN CASE arquivo.tipo = "ausente" -> [marca |-> Padrao, erro |-> FALSE]
       [] arquivo.tipo = "yaml" /\ ValidarMarca(m) -> [marca |-> m, erro |-> FALSE]
       [] OTHER -> [marca |-> Padrao, erro |-> TRUE]
\* brevis marca: a path that does not exist is an error there
cmdMarca(arquivo) == arquivo.tipo # "ausente" /\ ~Carregar(arquivo).erro

comAlfa(cor, alfa) == IF Len(cor) # 7 THEN cor ELSE cor \o alfa
\* nothing at all for the default theme
CSS(m) ==
  IF \A c \in Cores : m[c] = Padrao[c] THEN Vazias
  ELSE [v \in Cores \cup DOMAIN Derivadas |->
          IF v \in Cores THEN m[v] ELSE comAlfa(m[Derivadas[v][1]], Derivadas[v][2])]

--------------------------------------------------------------------------------
(* The session: the user and the end of it, signed with the secret             *)

ValidadeDaSessao == 3
SemCookie == [corpo |-> <<>>, assinatura |-> <<>>]
assinar(c, corpo) == <<c.segredo.valor, corpo>>
emitir(c, agora) ==
  LET corpo == c.usuario \o <<agora + ValidadeDaSessao>>
  IN [corpo |-> corpo, assinatura |-> assinar(c, corpo)]
\* the user is cut at the first bar, what is left has to be one number
conferirSessao(c, cookie, agora) ==
  /\ cookie.assinatura = assinar(c, cookie.corpo)
  /\ Len(cookie.corpo) = 2 /\ <<cookie.corpo[1]>> = c.usuario
  /\ agora < cookie.corpo[2]

\* where a click goes after the login: only a path of this site
escaparDestino(alvo) == IF alvo.onde = "caminho" THEN alvo ELSE [onde |-> "caminho", caminho |-> "/", query |-> <<>>]
Destino(alvo) == escaparDestino(alvo)
\* ?de= takes the address as it is: the parameters after the first are read as those of the login
deNoLogin(alvo) == [escaparDestino(alvo) EXCEPT !.query = SubSeq(@, 1, Min({1, Len(@)}))]

livre(caminho) == caminho \in {"/health", "/ready", "/login", "/logout", "/assets/app.css"}

\* what the door does with a request: lets it through, refuses it, or asks to log in
Portao(c, p, agora) ==
  IF ~Ativa(c) \/ livre(p.alvo.caminho) THEN [faz |-> "passa", operador |-> <<>>]
  ELSE IF conferirSessao(c, p.cookie, agora) THEN [faz |-> "passa", operador |-> c.usuario]
  ELSE IF p.metodo # "GET" THEN [faz |-> "recusa", operador |-> <<>>]
  ELSE [faz |-> "login", operador |-> <<>>]

\* the cookie of a login; SemCookie when the user or the password is another
Entrar(c, usuario, senha, agora) ==
  IF usuario = c.usuario /\ ConferirSenha(c.hash, senha) THEN emitir(c, agora) ELSE SemCookie
Sair == SemCookie

\* Registrar and RegistrarLogin: what changes something is a POST, and the routes of the
\* session are there only with a credential
Rotas(c) ==
  ({"GET"} \X {"/", "/runs", "/workflows", "/projects", "/workflows/w", "/runs/r", "/api/workflows/w/graph",
               "/api/runs/r/graph", "/assets/app.css", "/health", "/ready"})
  \cup ({"POST"} \X {"/workflows/w/toggle", "/workflows/w/trigger"})
  \cup (IF Ativa(c) THEN {<<"GET", "/login">>, <<"POST", "/login">>, <<"POST", "/logout">>} ELSE {})
Muda(metodo, caminho) == metodo = "POST" /\ caminho \in {"/workflows/w/toggle", "/workflows/w/trigger"}

\* ServeHTTP: the door, when there is one, then the route
Atender(c, p, agora) ==
  LET porta == Portao(c, p, agora)
  IN IF porta.faz # "passa" THEN porta.faz
     ELSE IF <<p.metodo, p.alvo.caminho>> \in Rotas(c) THEN "serve" ELSE "nao ha"

\* ready asks every dependency and says which one failed; health asks none
ready(checkers) == [ok |-> \A n \in DOMAIN checkers : checkers[n], checks |-> checkers]
health == [ok |-> TRUE, checks |-> [x \in {} |-> TRUE]]

\* voltar: a path, then an address of this host by its path and query, then the list
voltar(ref) ==
  CASE ref.onde = "caminho" -> ref
    [] ref.onde = "mesmo" -> [ref EXCEPT !.onde = "caminho"]
    [] OTHER -> [onde |-> "caminho", caminho |-> "/workflows", query |-> <<>>]

\* disparar: the fields of the form that are parameters, by the first value of each; then
\* what the scheduler answers: an error, a click that was already taken, or a run
disparar(form, resposta) ==
  [params |-> [n \in {f[2] : f \in {f \in DOMAIN form : f[1] = "param." /\ form[f] # <<>>}} |-> form[<<"param.", n>>][1]],
   para |-> CASE resposta = "erro" -> "400" [] resposta = "repetida" -> "volta" [] resposta = "run" -> "run"]

--------------------------------------------------------------------------------
(* What is expected of them                                                    *)

Usuarios == {<<>>, <<"ana">>, <<"bia">>, <<"a", "b">>}
Hashes == {[forma |-> f, senha |-> s] : f \in {"vazia", "outra", "cortada", "inteira"}, s \in {"s1", "s2"}}
Credenciais == [usuario : Usuarios, hash : Hashes, segredo : [valor : {"k1", "k2"}, bytes : {0, 31, 32}]]
Postas == {c \in Credenciais : Ativa(c) /\ Validar(c)}
Ambientes == [env : {"local", "dev", "prod"}, banco : BOOLEAN, modo : Modos \cup {"pods"}, prazo : {"texto", "15"},
              cred : {c \in Credenciais : c.segredo.valor = "k1" /\ c.hash.senha = "s1"}]
Entradas == [forma : {"*"}, nome : {"x"}, valor : {Vazio}]
            \cup [forma : {"literal"}, nome : {"A", "HOME"}, valor : {"1"}]
            \cup [forma : {"nome"}, nome : {"A", "SEM", "BREVIS_DATABASE_URL"}, valor : {Vazio}]
Processo == [n \in {"PATH", "HOME", "A", "B"} \cup DaPlataforma |-> n]

\* A process that starts has a door wherever it is not on the machine of a developer, and
\* whoever filled in one half of a credential was told; what it hands a step is what was
\* named for it, the last word on a name counts, and the wildcard never hands on the
\* platform's own; where pods were demanded no step runs beside the scheduler for lack of
\* a cluster (config.go Load, AmbienteDasTasks; main.go executorDePods)
BootServe ==
  /\ \A a \in Ambientes : Load(a) =>
       /\ a.env # "local" => a.cred \in Postas
       /\ (a.cred.usuario # <<>>) <=> (a.cred.hash.forma # "vazia")
       /\ \A p \in [alvo : {[onde |-> "caminho", caminho |-> "/runs", query |-> <<>>]}, metodo : {"GET", "POST"},
                    cookie : {SemCookie}] : a.env # "local" => Portao(a.cred, p, 0).faz # "passa"
  /\ \A es \in UNION {[1..k -> Entradas] : k \in 0..3} :
       LET env == AmbienteDasTasks(es, Processo)
           ditos == {es[k].nome : k \in {k \in DOMAIN es : es[k].forma # "*"}}
       IN /\ DOMAIN env \cap DaPlataforma \subseteq ditos
          /\ \A n \in DOMAIN env : n \in {"PATH", "HOME"} \cup ditos \/ \E k \in DOMAIN es : es[k].forma = "*"
          /\ \A k \in DOMAIN es : es[k].forma = "literal" /\ (\A j \in (k + 1)..Len(es) : es[j].nome # es[k].nome /\ es[j].forma # "*")
                                  => env[es[k].nome] = es[k].valor
          /\ "SEM" \notin DOMAIN env
  /\ \A env \in {"local", "prod"}, modo \in Modos, cluster \in {"dentro", "fora", "quebrado"} :
       LET x == executores(env, modo, cluster)
       IN /\ "processo" \in x <=> env = "local"
          /\ modo = "on" => x \cap {"pod", "erro"} # {}
          /\ cluster = "quebrado" /\ modo # "off" => "erro" \in x
  /\ \A es \in UNION {[1..k -> [chave : {"a", "b"}, valor : {Vazio, "v"}, efeito : {Vazio, "e"}]] : k \in 0..2} :
       /\ \A k \in DOMAIN es : (\E j \in DOMAIN toleracoes(es) : toleracoes(es)[j] = es[k]) <=> (es[k].valor # Vazio /\ es[k].efeito # Vazio)
       /\ DOMAIN pares(es) = {es[k].chave : k \in {k \in DOMAIN es : es[k].valor # Vazio}}
  /\ \A ps \in UNION {[1..k -> {Vazio, "x", "y"}] : k \in 0..3} : Vazio \notin {lista(ps)[k] : k \in DOMAIN lista(ps)}

Permutacoes(s) == {[k \in DOMAIN s |-> s[p[k]]] :
                     p \in {p \in [DOMAIN s -> DOMAIN s] : \A a, b \in DOMAIN s : p[a] = p[b] => a = b}}
Disco == [x \in {1, 2, 3, 9} |-> IF x = 9 THEN [tipo |-> "pasta", yamls |-> <<2, 3>>] ELSE [tipo |-> "arquivo", yamls |-> <<>>]]

\* A parameter of the command line is taken or the command is refused, and the last value
\* of a name counts; a form gives the parameters it names and no other field; what
\* validate accepts publish publishes whole, in an order that does not depend on how the
\* files were named (main.go paramsDaLinha, expandir; ui.go disparar)
LinhaServe ==
  /\ \A es \in UNION {[1..k -> [chave : {Vazio, "p", "q"}, igual : BOOLEAN, valor : {"1", "2"}]] : k \in 0..2} :
       \A m \in paramsDaLinha(es) :
         /\ DOMAIN m = {es[k].chave : k \in DOMAIN es}
         /\ \A n \in DOMAIN m : m[n] = es[Max({k \in DOMAIN es : es[k].chave = n})].valor
  /\ \A fs \in SUBSET ({"param.", "outro."} \X {"p", "q"}), vs \in {<<>>, <<"1">>, <<"1", "2">>} :
       LET ps == disparar([f \in fs |-> vs], "run").params
       IN DOMAIN ps = {n \in {"p", "q"} : <<"param.", n>> \in fs /\ vs # <<>>} /\ \A n \in DOMAIN ps : ps[n] = "1"
  /\ \A as \in UNION {[1..k -> {1, 2, 9, 7}] : k \in 0..3}, bons \in SUBSET {1, 2, 3} :
       LET fs == expandir(as, Disco)
       IN /\ (7 \in {as[k] : k \in DOMAIN as} \/ as = <<>>) <=> (fs = {})
          /\ \A f \in fs :
               /\ \A p \in Permutacoes(as) : expandir(p, Disco) = fs
               /\ cmdValidate(f, bons) <=> publicados(f, bons) = f
               /\ \A k \in DOMAIN publicados(f, bons) : publicados(f, bons)[k] = f[k] /\ f[k] \in bons
  /\ \A s \in {"curta", "doze letras!"}, outra \in {"curta", "doze letras!"} :
       \A h \in cmdHash(s) : Len(s) >= 12 /\ (ConferirSenha(h, outra) <=> s = outra)

Campos == [titulo : {Vazio, " ", "Cliente"}, logo : {Vazio, "https://x/logo.png", "data:x"},
           tinta : Hex \cup {"azul"}, destaque : Hex \cup {"#12"}]
Arquivos == [tipo : {"ausente", "torto"}, campos : {Vazias}]
            \cup {[tipo |-> "yaml", campos |-> [c \in ks |-> f[c]]] : f \in Campos, ks \in SUBSET DOMAIN Padrao}

\* Whatever the brand file holds the pages have a title and colours the browser accepts,
\* a field that is left out is the default, and the file the command refuses is the one
\* the server leaves aside (branding.go Carregar, Validar, CSS)
MarcaServe ==
  \A a \in Arquivos :
    LET r == Carregar(a)
    IN /\ r.marca.titulo \notin {Vazio, " "} /\ r.marca.logo # "data:x"
       /\ \A v \in DOMAIN CSS(r.marca) : Len(CSS(r.marca)[v]) \in {4, 7, 9}
       /\ r.marca # Padrao => \A c \in DOMAIN Padrao : r.marca[c] = (IF c \in DOMAIN a.campos THEN a.campos[c] ELSE Padrao[c])
       /\ a.tipo # "ausente" => (cmdMarca(a) <=> ~r.erro)
       /\ CSS(r.marca) # Vazias <=> \E c \in Cores : r.marca[c] # Padrao[c]

Alvos == [onde : {"caminho"}, caminho : {"/runs", "/health", "/login", "/workflows/w/trigger"},
          query : {<<>>, <<"estado=failed">>, <<"estado=failed", "pagina=2">>}]
Forjados == [corpo : {<<"ana", 99>>, <<"a", "b", 99>>}, assinatura : {<<"outra", <<"ana", 99>>>>, <<>>}] \cup {SemCookie, Sair}

\* Only a session that this credential's user and secret signed, and only before its end,
\* opens a route that is not free, and the route sees the operator; what changes something
\* is never reached without one, nor turned into a page to log in; a login is given to the
\* user and the password together, opens the door until its end, and leads back to the page
\* that was asked for (auth.go, server.go, ui.go RegistrarLogin)
PortaServe ==
  /\ \A c, d \in Postas, t0 \in {0, 2}, agora \in {0, 2, 3, 4, 5}, alvo \in {a \in Alvos : a.query = <<>>}, metodo \in {"GET", "POST"} :
       \A k \in Forjados \cup {emitir(d, t0)} :
         LET p == [metodo |-> metodo, alvo |-> alvo, cookie |-> k]
             porta == Portao(c, p, agora)
             boa == k = emitir(d, t0) /\ d.usuario = c.usuario /\ d.segredo.valor = c.segredo.valor
                    /\ Len(c.usuario) = 1 /\ agora < t0 + ValidadeDaSessao
         IN /\ porta.faz = "passa" <=> boa \/ livre(alvo.caminho)
            /\ porta.operador # <<>> => boa /\ porta.operador = c.usuario
            /\ porta.faz = "login" => metodo = "GET"
            /\ Muda(metodo, alvo.caminho) /\ Atender(c, p, agora) = "serve" => boa
  /\ \A c \in Postas, u \in Usuarios, s \in {"s1", "s2"} :
       LET k == Entrar(c, u, s, 0)
           entrou == u = c.usuario /\ c.hash = GerarHash(s)
       IN /\ k # SemCookie <=> entrou
          /\ \A agora \in 0..4 : Portao(c, [metodo |-> "POST", alvo |-> [onde |-> "caminho", caminho |-> "/runs", query |-> <<>>],
                                            cookie |-> k], agora).faz = "passa"
               <=> entrou /\ agora < ValidadeDaSessao /\ Len(u) = 1
  /\ \A alvo \in Alvos :
       /\ Destino(deNoLogin(alvo)).caminho = alvo.caminho
       /\ IsPrefix(Destino(deNoLogin(alvo)).query, alvo.query)
       /\ voltar([alvo EXCEPT !.onde = "mesmo"]) = alvo
       /\ \A onde \in {"fora", "caminho", "mesmo"} :
            Destino([alvo EXCEPT !.onde = onde]).onde = "caminho" /\ voltar([alvo EXCEPT !.onde = onde]).onde = "caminho"
  /\ \A ok \in [{"postgres", "fila"} -> BOOLEAN] : health.ok /\ ready(ok).checks = ok /\ (ready(ok).ok <=> \A n \in DOMAIN ok : ok[n])

AcessoFiel == BootServe /\ LinhaServe /\ MarcaServe /\ PortaServe
================================================================================
