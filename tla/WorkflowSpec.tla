------------------------------ MODULE WorkflowSpec ------------------------------
(***************************************************************************)
(* From the file of a workflow to what a step gets: Parse and its parts    *)
(* (src/internal/application/workflow/spec.go), Validate and inheritance   *)
(* (src/internal/domain/workflow/workflow.go), parameters (param.go) and   *)
(* their way into a command (src/internal/execution/render.go).            *)
(*                                                                         *)
(* A text whose form matters is a sequence of character classes: "a" and   *)
(* "A" letters, "1" a digit, " " a space, "/" and ";" (one the shell       *)
(* interprets).  Other texts are atoms.  What may fail, or depends on the  *)
(* order of a Go map, gives the set of its outcomes: none is an error.     *)
(***************************************************************************)
EXTENDS StepGraph, SequencesExt

Vazio == <<>>
SemMapa == [n \in {} |-> Vazio]

\* strings.TrimSpace
Aparar(t) ==
  LET meio == {i \in DOMAIN t : t[i] # " "}
  IN IF meio = {} THEN Vazio
     ELSE SubSeq(t, CHOOSE i \in meio : \A j \in meio : i <= j,
                    CHOOSE i \in meio : \A j \in meio : j <= i)

--------------------------------------------------------------------------------
(* Validate                                                                    *)

Letras == {"a", "A"}

validarNomeDeVar(n) == n # Vazio /\ n[1] # "1" /\ Range(n) \subseteq Letras \cup {"1"}

\* secret/key, by the one slash with something on both sides
Coordenada(c) ==
  \E i \in DOMAIN c : c[i] = "/" /\ i > 1 /\ i < Len(c) /\ \A j \in DOMAIN c : c[j] = "/" => j = i

validarAmbiente(env, secrets) ==
  /\ \A n \in DOMAIN env \cup DOMAIN secrets : validarNomeDeVar(n)
  /\ DOMAIN env \cap DOMAIN secrets = {}
  /\ \A n \in DOMAIN secrets : Coordenada(secrets[n])

\* a Kubernetes quantity, or nothing declared
validarRecursos(r) == \A c \in DOMAIN r : r[c] \in {"", "200m", "1Gi"}

sobrepor(base, cima) ==
  [n \in DOMAIN base \cup DOMAIN cima |-> IF n \in DOMAIN cima THEN cima[n] ELSE base[n]]
EnvDe(w, n) == sobrepor(w.env, n.env)
SecretsDe(w, n) == sobrepor(w.secrets, n.secrets)

\* field by field, so that a step may ask for more memory only
ComPadrao(r, p) == [c \in DOMAIN r |-> IF r[c] = "" THEN p[c] ELSE r[c]]
RecursosDe(w, n) == ComPadrao(n.recursos, w.recursos)

\* `run` or `action`, one of them, and `with` for an action only
FormaDoPasso(n) == (n.run # n.action) /\ (n.run => ~n.with)

\* encontrarCiclo: depth first along the edges in the order of the file; the path
\* back to the step that is met again, or nothing
RECURSIVE Visitar(_, _, _, _)
Visitar(es, ids, caminho, prontos) ==
  IF ids = Vazio THEN [achado |-> Vazio, prontos |-> prontos]
  ELSE LET id == Head(ids)
           onde == {i \in DOMAIN caminho : caminho[i] = id}
           saida == SelectSeq(es, LAMBDA e : e[1] = id)
           dentro == Visitar(es, [k \in DOMAIN saida |-> saida[k][2]], Append(caminho, id), prontos)
           depois(feitos) == Visitar(es, Tail(ids), caminho, feitos)
       IN IF onde # {}
            THEN [achado |-> Append(SubSeq(caminho, CHOOSE i \in onde : TRUE, Len(caminho)), id),
                  prontos |-> prontos]
          ELSE IF id \in prontos THEN depois(prontos)
          ELSE IF dentro.achado # Vazio THEN dentro
          ELSE depois(dentro.prontos \cup {id})

\* Mutant: the search starts at the first step only
encontrarCicloDoPrimeiro(ids, es) == Visitar(es, <<ids[1]>>, Vazio, {}).achado
encontrarCiclo(ids, es) == Visitar(es, ids, Vazio, {}).achado

--------------------------------------------------------------------------------
(* Parameters.  A pattern is the set of texts it matches; none is {}.          *)

nomeDeParam(n) == n # Vazio /\ n[1] = "a" /\ Range(n) \subseteq {"a", "1"}
Seguro(t) == ";" \notin Range(t)
Booleanos == {<<"a">>}              \* the text `true` or `false`
Inteiro(t) == t # Vazio /\ Range(t) = {"1"}

\* Mutant: a text without enum and pattern is taken as it is
AceitaSemSeguro(p, v) ==
  CASE p.tipo = "boolean" -> v \in Booleanos
    [] p.tipo = "integer" -> Inteiro(v)
    [] p.tipo = "string" /\ p.enum # {} -> v \in p.enum
    [] p.tipo = "string" /\ p.enum = {} -> p.pattern = {} \/ v \in p.pattern

\* Param.Aceita: the type, then the enum, then the pattern, then the safe characters
Aceita(p, v) ==
  CASE p.tipo = "boolean" -> v \in Booleanos
    [] p.tipo = "integer" -> Inteiro(v)
    [] p.tipo = "string" /\ p.enum # {} -> v \in p.enum
    [] p.tipo = "string" /\ p.enum = {} /\ p.pattern # {} -> v \in p.pattern
    [] OTHER -> Seguro(v)

\* Mutant: the default is not tried
ValidarSemPadrao(p) == nomeDeParam(p.nome) /\ p.tipo \in {"string", "boolean", "integer"}

\* Param.Validar: an empty default is not tried
Validar(p) ==
  /\ nomeDeParam(p.nome)
  /\ p.tipo \in {"string", "boolean", "integer"}
  /\ p.padrao # Vazio => Aceita(p, p.padrao)

\* Workflow.Resolver: an unknown name is an error, what is missing has its default
Resolver(params, informados) ==
  LET Nomes == {p.nome : p \in ToSet(params)}
      valor(p) == IF p.nome \in DOMAIN informados THEN informados[p.nome] ELSE p.padrao
  IN IF DOMAIN informados \subseteq Nomes /\ \A p \in ToSet(params) : Aceita(p, valor(p))
       THEN {[n \in Nomes |-> valor(CHOOSE p \in ToSet(params) : p.nome = n)]}
       ELSE {}

\* Renderizar, of a command that uses the parameters `usa`: the texts that go into
\* the shell; a parameter that is missing is an error
Renderizar(usa, valores) == IF usa \subseteq DOMAIN valores THEN {{valores[n] : n \in usa}} ELSE {}

--------------------------------------------------------------------------------
(* Parse                                                                       *)

\* Mutant: what a step declares is checked, not what it inherits
AmbientesSemHeranca(w) ==
  /\ validarAmbiente(w.env, w.secrets)
  /\ \A n \in ToSet(w.nodes) : validarAmbiente(n.env, n.secrets)
AmbientesValidos(w) ==
  /\ validarAmbiente(w.env, w.secrets)
  /\ \A n \in ToSet(w.nodes) : validarAmbiente(EnvDe(w, n), SecretsDe(w, n))

Validate(w) ==
  LET ids == [k \in DOMAIN w.nodes |-> w.nodes[k].id]
      nomes == [k \in DOMAIN w.params |-> w.params[k].nome]
  IN /\ w.nodes # Vazio /\ IsInjective(ids) /\ \A k \in DOMAIN ids : ids[k] # ""
     /\ \A n \in ToSet(w.nodes) : FormaDoPasso(n) /\ validarRecursos(n.recursos)
     /\ w.maxAtivos >= 0 /\ validarRecursos(w.recursos)
     /\ \A e \in ToSet(w.edges) : {e[1], e[2]} \subseteq Range(ids) /\ e[1] # e[2]
     /\ IsInjective(nomes) /\ \A p \in ToSet(w.params) : Validar(p)
     /\ AmbientesValidos(w)
     /\ encontrarCiclo(ids, w.edges) = Vazio

\* names and values are trimmed, empty names dropped; of two names that are one
\* when trimmed the order of the map decides
aparar(m) ==
  LET Nomes == {Aparar(k) : k \in DOMAIN m} \ {Vazio}
      Candidatos(n) == {Aparar(m[k]) : k \in {j \in DOMAIN m : Aparar(j) = n}}
  IN {f \in [Nomes -> UNION {Candidatos(n) : n \in Nomes}] : \A n \in Nomes : f[n] \in Candidatos(n)}

parseKind(t) == CASE t \in {"", "dag"} -> {"dag"} [] t = "chain" -> {"chain"} [] OTHER -> {}

\* Mutant: every step of a chain hangs on the first
arestasEmLeque(kind, passos) ==
  IF kind = "chain" THEN [k \in 1..(Len(passos) - 1) |-> <<passos[1].id, passos[k + 1].id>>]
  ELSE FlattenSeq([k \in DOMAIN passos |->
         [d \in DOMAIN passos[k].dependsOn |-> <<passos[k].dependsOn[d], passos[k].id>>]])

\* a chain is one edge from each step to the next
arestas(kind, passos) ==
  IF kind = "chain" THEN [k \in 1..(Len(passos) - 1) |-> <<passos[k].id, passos[k + 1].id>>]
  ELSE FlattenSeq([k \in DOMAIN passos |->
         [d \in DOMAIN passos[k].dependsOn |-> <<passos[k].dependsOn[d], passos[k].id>>]])

No(p, e, x) == [id |-> p.id, run |-> p.run, action |-> p.action, with |-> p.with,
                recursos |-> p.recursos, env |-> e, secrets |-> x]
\* every outcome of trimming the maps of the steps, step by step
Nos1(p) == {No(p, e, x) : e \in aparar(p.env), x \in aparar(p.secrets)}
NosDe(passos) ==
  {ns \in [DOMAIN passos -> UNION {Nos1(p) : p \in ToSet(passos)}] :
     \A k \in DOMAIN ns : ns[k] \in Nos1(passos[k])}

\* Parse: the workflow a file becomes; a chain takes no depends_on
Parse(s) ==
  {w \in {[nodes |-> ns, edges |-> arestas(k, s.steps), params |-> s.params, maxAtivos |-> s.concurrency,
           recursos |-> s.recursos, env |-> e, secrets |-> x] :
             k \in parseKind(s.type), ns \in NosDe(s.steps), e \in aparar(s.env), x \in aparar(s.secrets)} :
     /\ s.type = "chain" => \A p \in ToSet(s.steps) : p.dependsOn = Vazio
     /\ Validate(w)}

--------------------------------------------------------------------------------
(* Bounded files                                                               *)

Passo(id, deps) == [id |-> id, run |-> TRUE, action |-> FALSE, with |-> FALSE, dependsOn |-> deps,
                    recursos |-> [cpu |-> "", memory |-> ""], env |-> SemMapa, secrets |-> SemMapa]
Arquivo(t, passos) == [type |-> t, concurrency |-> 0, recursos |-> [cpu |-> "1Gi", memory |-> ""],
                       env |-> SemMapa, secrets |-> SemMapa, params |-> <<>>, steps |-> passos]

\* what an `env` and a `secrets` may hold: names good and bad, one of them padded
Mapas == {SemMapa} \cup
  {[n \in N |-> v] : N \in SUBSET {<<"A">>, <<" ", "A">>, <<"1">>} \ {{}}, v \in {<<"a">>, <<"a", "/", "a">>}}
Ambientes ==
  {[Arquivo("", <<[Passo("a", <<>>) EXCEPT !.env = d, !.secrets = x, !.recursos = r]>>)
      EXCEPT !.env = e, !.secrets = y, !.recursos = q] :
     d \in Mapas, x \in {m \in Mapas : DOMAIN m \subseteq {<<"A">>}}, e \in Mapas,
     y \in {m \in Mapas : DOMAIN m \subseteq {<<" ", "A">>}},
     r \in {[cpu |-> "", memory |-> "200m"], [cpu |-> "?", memory |-> ""]},
     q \in {[cpu |-> "1Gi", memory |-> "200m"], [cpu |-> "1Gi", memory |-> "?"]}}

\* every order of every graph of three steps
Filas == {f \in [1..3 -> {"a", "b", "c"}] : IsInjective(f)}
Dags == {Arquivo("dag", [k \in 1..3 |-> Passo(f[k], d[k])]) :
           f \in Filas, d \in [1..3 -> {<<>>, <<"a">>, <<"b">>, <<"c", "a">>}]}
Chains == {Arquivo("chain", f) : f \in UNION {[1..k -> {Passo(i, <<>>) : i \in {"a", "b", "c"}}] : k \in 1..3}}

Textos == {<<>>, <<"a">>, <<"1">>, <<"a", ";">>}
Params ==
  [nome : {<<"a">>}, tipo : {"string", "boolean", "integer", "x"}, padrao : Textos,
   enum : {{}, {<<"1">>}}, pattern : {{}, {<<"a", ";">>}}]

--------------------------------------------------------------------------------
(* Properties                                                                  *)

\* A step of a published workflow never has one variable twice, one of them a
\* secret, nor a name or a quantity the cluster refuses, be they its own or
\* inherited (workflow.go: against the effective view, not the declared one)
PassoEfetivoValido ==
  \A s \in Ambientes : \A w \in Parse(s) : \A n \in ToSet(w.nodes) :
    /\ DOMAIN EnvDe(w, n) \cap DOMAIN SecretsDe(w, n) = {}
    /\ \A v \in DOMAIN EnvDe(w, n) \cup DOMAIN SecretsDe(w, n) : v = <<"A">>
    /\ \A v \in DOMAIN SecretsDe(w, n) : Coordenada(SecretsDe(w, n)[v])
    /\ validarRecursos(RecursosDe(w, n))

\* The search names a cycle exactly when the graph has one, and what it names is a
\* cycle: a closed path along the edges (workflow.go encontrarCiclo)
CicloTemCaminho ==
  \A s \in Dags :
    LET es == arestas("dag", s.steps)
        c == encontrarCiclo([k \in 1..3 |-> s.steps[k].id], es)
    IN /\ c # Vazio <=> \E S \in SUBSET {"a", "b", "c"} \ {{}} :
                           \A n \in S : \E m \in S : <<m, n>> \in ToSet(es)
       /\ c # Vazio => c[1] = Last(c) /\ \A k \in 1..(Len(c) - 1) : <<c[k], c[k + 1]>> \in ToSet(es)

\* A chain that is published has one step after the other, in the order of the file
ChainSegueArquivo ==
  \A s \in Chains : \A w \in Parse(s) : \A j, k \in DOMAIN w.nodes :
    j < k <=> \E m \in 1..Len(w.nodes) : \E c \in [1..(m + 1) -> {n.id : n \in ToSet(w.nodes)}] :
                c[1] = w.nodes[j].id /\ c[m + 1] = w.nodes[k].id
                /\ \A i \in 1..m : <<c[i], c[i + 1]>> \in ToSet(w.edges)

\* What a trigger puts into a command has nothing the shell interprets, unless the
\* author of the workflow asked for it with a pattern or an enum (param.go)
ValorNaoViraComando ==
  \A p \in Params, v \in {SemMapa} \cup {[n \in {<<"a">>} |-> t] : t \in Textos} : Validar(p) =>
    \A r \in Resolver(<<p>>, v) : \A c \in Renderizar({p.nome}, r) : \A t \in c :
      Seguro(t) \/ (p.tipo = "string" /\ (t \in p.enum \/ p.pattern # {}))

\* A definition that was published, with a default for every parameter, can be
\* triggered by its schedule (param.go: a refused default would appear at night)
PadraoServe ==
  \A p \in Params : Validar(p) /\ p.padrao # Vazio => Resolver(<<p>>, SemMapa) # {}
\* A definition that is accepted can be run: its steps follow from the file, a cycle
\* is refused by name, the cluster takes what the steps declare or inherit, and the
\* schedule can trigger it with its defaults; no value becomes a command
DefinicaoAceitaRoda ==
  /\ PassoEfetivoValido /\ CicloTemCaminho /\ ChainSegueArquivo
  /\ PadraoServe /\ ValorNaoViraComando
================================================================================
