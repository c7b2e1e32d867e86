----------------------------- MODULE PublisherProofs -----------------------------
(***************************************************************************)
(* Proofs about Publisher, for any number of projects, slugs and deploys,  *)
(* killed or not.                                                          *)
(***************************************************************************)
EXTENDS Publisher, SequenceTheorems, TLAPS

(***************************************************************************)
(* The inductive invariant                                                 *)
(***************************************************************************)

\* What is in `workflows` was put there by a deploy of its project
SoDosProjetos == \A w \in workflows : \E d \in Deploys : w[1] = projeto[d]

EmCurso(d) == fase[d] \in {"publicar", "podar"}

\* An installation that deploys one at a time has one deploy under way
UmDeCadaVez == umPorVez => \A d, e \in Deploys : EmCurso(d) /\ EmCurso(e) => d = e

\* Between the two statements of Podar, what the first took out is out: nobody
\* published it again, if deploys come one at a time
RemovidosForam ==
  umPorVez => \A d \in Deploys : fase[d] = "podar" =>
    \A s \in removidos[d] : <<projeto[d], s>> \notin workflows

Indutivo ==
  /\ TypeOK
  /\ AgendaTemDefinicao
  /\ GrafoTemAgenda
  /\ SoDosProjetos
  /\ UmDeCadaVez
  /\ RemovidosForam

\* It holds before any deploy
LEMMA InicioIndutivo == Init => Indutivo
BY DEF Init, Indutivo, TypeOK, AgendaTemDefinicao, GrafoTemAgenda, SoDosProjetos,
       UmDeCadaVez, EmCurso, RemovidosForam, Agendados

(***************************************************************************)
(* Types                                                                   *)
(***************************************************************************)

\* Every step keeps the types
LEMMA TiposFicam == TypeOK /\ [Next]_vars => TypeOK'
<1> SUFFICES ASSUME TypeOK, [Next]_vars PROVE TypeOK'
  OBVIOUS
<1> USE DEF TypeOK
<1>1. CASE UNCHANGED vars
  BY <1>1 DEF vars
<1>2. ASSUME NEW d \in Deploys, Comecar(d) PROVE TypeOK'
  BY <1>2 DEF Comecar
<1>3. ASSUME NEW d \in Deploys, PublicarArquivo(d) PROVE TypeOK'
  <2>1. PICK s \in aPublicar[d], temCron \in BOOLEAN :
          /\ Publicar(projeto[d], s, temCron)
          /\ comCron' = IF temCron THEN comCron \cup {<<projeto[d], s>>}
                                   ELSE comCron \ {<<projeto[d], s>>}
          /\ aPublicar' = [aPublicar EXCEPT ![d] = @ \ {s}]
          /\ publicados' = [publicados EXCEPT ![d] = @ \cup {s}]
    BY <1>3 DEF PublicarArquivo
  <2>2. s \in Slugs /\ projeto[d] \in Projetos
    BY <2>1
  <2>3. workflows' \subseteq Projetos \X Slugs /\ comCron' \subseteq Projetos \X Slugs
    BY <2>1, <2>2 DEF Publicar
  <2>4. agenda' \in [Slugs -> Linha \cup {SemAgenda}]
    BY <2>1, <2>2 DEF Publicar, Linha, Nulo
  <2> QED
    BY <1>3, <2>1, <2>2, <2>3, <2>4 DEF PublicarArquivo
<1>4. ASSUME NEW d \in Deploys, PodarDefinicoes(d) PROVE TypeOK'
  <2> DEFINE fora == Podaveis(projeto[d], publicados[d])
  <2>1. fora \in SUBSET Slugs
    BY DEF Podaveis
  <2> HIDE DEF fora
  <2>2. removidos' \in [Deploys -> SUBSET Slugs]
    <3>1. removidos' = [removidos EXCEPT ![d] = fora] \/ removidos' = removidos
      BY <1>4 DEF PodarDefinicoes, fora
    <3> QED
      BY <2>1, <3>1
  <2>3. workflows' \subseteq Projetos \X Slugs
    BY <1>4 DEF PodarDefinicoes, PodarWorkflows
  <2>4. fase' \in [Deploys -> {"inicio", "publicar", "podar", "fim", "morto"}]
    BY <1>4 DEF PodarDefinicoes
  <2> QED
    BY <1>4, <2>2, <2>3, <2>4 DEF PodarDefinicoes
<1>5. ASSUME NEW d \in Deploys, PodarOrfas(d) PROVE TypeOK'
  BY <1>5 DEF PodarOrfas, PodarAgendas
<1>6. ASSUME NEW d \in Deploys, Interromper(d) PROVE TypeOK'
  BY <1>6 DEF Interromper
<1> QED
  BY <1>1, <1>2, <1>3, <1>4, <1>5, <1>6 DEF Next

(***************************************************************************)
(* What one publication leaves in the tables                               *)
(***************************************************************************)

\* The file is published, its schedule is there exactly when it has a cron, and
\* nothing else has changed
LEMMA OQuePublicarFaz ==
  ASSUME TypeOK, NEW p \in Projetos, NEW s \in Slugs, NEW temCron \in BOOLEAN,
         Publicar(p, s, temCron)
  PROVE  /\ workflows' = workflows \cup {<<p, s>>}
         /\ s \in Agendados' <=> temCron
         /\ \A z \in Slugs \ {s} : agenda'[z] = agenda[z]
<1>1. agenda' \in [Slugs -> Linha \cup {SemAgenda}] /\ \A z \in Slugs \ {s} : agenda'[z] = agenda[z]
  BY DEF Publicar, TypeOK, Linha, Nulo
<1>2. CASE temCron
  <2>1. agenda'[s] \in Linha
    BY <1>2 DEF Publicar, TypeOK, Linha, Nulo
  <2> QED
    BY <1>1, <1>2, <2>1, SemAgendaNaoELinha DEF Agendados, Publicar
<1>3. CASE ~temCron
  BY <1>1, <1>3 DEF Agendados, Publicar, TypeOK
<1> QED
  BY <1>2, <1>3

(***************************************************************************)
(* The invariant is kept                                                   *)
(***************************************************************************)

\* A deploy that starts waits for the others where they come one at a time, and
\* touches no table
LEMMA ComecarMantem ==
  ASSUME Indutivo, TypeOK', NEW d \in Deploys, Comecar(d)
  PROVE  Indutivo'
<1>1. /\ TypeOK /\ fase[d] = "inicio"
      /\ fase' = [fase EXCEPT ![d] = "publicar"]
      /\ workflows' = workflows /\ agenda' = agenda /\ projeto' = projeto
      /\ umPorVez' = umPorVez /\ removidos' = removidos /\ comCron' = comCron
  BY DEF Comecar, Indutivo
<1>2. \A e \in Deploys : fase'[e] \in {"podar", "morto"} <=> fase[e] \in {"podar", "morto"}
  BY <1>1 DEF TypeOK
<1>3. AgendaTemDefinicao' /\ GrafoTemAgenda' /\ SoDosProjetos'
  BY <1>1, <1>2 DEF Indutivo, AgendaTemDefinicao, GrafoTemAgenda, SoDosProjetos,
                    Agendados, TemDefinicao
<1>4. UmDeCadaVez'
  BY <1>1 DEF Comecar, TypeOK, UmDeCadaVez, EmCurso
<1>5. RemovidosForam'
  BY <1>1 DEF Indutivo, TypeOK, RemovidosForam
<1> QED
  BY <1>3, <1>4, <1>5 DEF Indutivo

\* A deploy killed while pruning is remembered by what it had taken out
LEMMA InterromperMantem ==
  ASSUME Indutivo, TypeOK', NEW d \in Deploys, Interromper(d)
  PROVE  Indutivo'
BY DEF Indutivo, TypeOK, Interromper, AgendaTemDefinicao, GrafoTemAgenda, SoDosProjetos,
       UmDeCadaVez, EmCurso, RemovidosForam, Agendados, TemDefinicao

\* A publication gives a definition to the only schedule it touches, and takes a
\* schedule only from the file it publishes
LEMMA PublicarMantem ==
  ASSUME Indutivo, TypeOK', NEW d \in Deploys, PublicarArquivo(d)
  PROVE  Indutivo'
<1>1. TypeOK /\ fase' = fase /\ projeto' = projeto /\ umPorVez' = umPorVez /\ removidos' = removidos
  BY DEF PublicarArquivo, Indutivo
<1>2. PICK s \in aPublicar[d], temCron \in BOOLEAN :
        /\ Publicar(projeto[d], s, temCron)
        /\ comCron' = IF temCron THEN comCron \cup {<<projeto[d], s>>}
                                 ELSE comCron \ {<<projeto[d], s>>}
  BY DEF PublicarArquivo
<1>3. s \in Slugs /\ projeto[d] \in Projetos /\ fase[d] = "publicar"
  BY <1>1 DEF TypeOK, PublicarArquivo
<1>4. /\ workflows' = workflows \cup {<<projeto[d], s>>}
      /\ s \in Agendados' <=> temCron
      /\ \A z \in Slugs \ {s} : agenda'[z] = agenda[z]
  BY <1>1, <1>2, <1>3, OQuePublicarFaz
<1>5. AgendaTemDefinicao'
  <2> SUFFICES ASSUME NEW z \in Agendados'
               PROVE  \/ TemDefinicao(z)'
                      \/ \E e \in Deploys : fase'[e] \in {"podar", "morto"} /\ z \in removidos'[e]
    BY DEF AgendaTemDefinicao
  <2>1. CASE z = s
    BY <1>3, <1>4, <2>1 DEF TemDefinicao
  <2>2. CASE z # s
    <3>1. z \in Agendados
      BY <1>4, <2>2 DEF Agendados
    <3> QED
      BY <3>1, <1>1, <1>4 DEF Indutivo, AgendaTemDefinicao, TemDefinicao
  <2> QED
    BY <2>1, <2>2
<1>6. GrafoTemAgenda'
  <2> SUFFICES ASSUME umPorVez, \A e, f \in Deploys : projeto[e] = projeto[f],
                      NEW w \in workflows' \cap comCron'
               PROVE  w[2] \in Agendados'
    BY <1>1 DEF GrafoTemAgenda
  <2>1. w \in Projetos \X Slugs
    BY DEF TypeOK
  <2>2. w[1] = projeto[d]
    BY <1>4, <2>1 DEF Indutivo, SoDosProjetos
  <2>3. CASE w[2] = s
    BY <1>2, <1>4, <2>1, <2>2, <2>3
  <2>4. CASE w[2] # s
    <3>1. w \in workflows \cap comCron
      BY <1>2, <1>4, <2>4
    <3>2. w[2] \in Agendados
      BY <3>1 DEF Indutivo, GrafoTemAgenda
    <3> QED
      BY <1>4, <2>1, <2>4, <3>2 DEF Agendados
  <2> QED
    BY <2>3, <2>4
<1>7. SoDosProjetos'
  BY <1>1, <1>4 DEF Indutivo, SoDosProjetos
<1>8. UmDeCadaVez'
  BY <1>1 DEF Indutivo, UmDeCadaVez, EmCurso
<1>9. RemovidosForam'
  <2> SUFFICES ASSUME umPorVez, NEW e \in Deploys, fase[e] = "podar", NEW z \in removidos[e]
               PROVE  <<projeto[e], z>> \notin workflows'
    BY <1>1 DEF RemovidosForam
  <2>1. e # d
    BY <1>3
  <2>2. FALSE
    BY <1>3, <2>1 DEF Indutivo, UmDeCadaVez, EmCurso
  <2> QED
    BY <2>2
<1> QED
  BY <1>5, <1>6, <1>7, <1>8, <1>9 DEF Indutivo

\* The first statement leaves schedules without a workflow, and answers for them
LEMMA PodarDefinicoesMantem ==
  ASSUME Indutivo, TypeOK', NEW d \in Deploys, PodarDefinicoes(d)
  PROVE  Indutivo'
<1>1. /\ TypeOK /\ fase[d] = "publicar"
      /\ agenda' = agenda /\ projeto' = projeto /\ umPorVez' = umPorVez /\ comCron' = comCron
  BY DEF PodarDefinicoes, Indutivo
<1>2. CASE /\ removidos' = [removidos EXCEPT ![d] = Podaveis(projeto[d], publicados[d])]
           /\ PodarWorkflows(projeto[d], publicados[d])
           /\ fase' = [fase EXCEPT ![d] = IF removidos'[d] = {} THEN "fim" ELSE "podar"]
  <2> DEFINE fora == Podaveis(projeto[d], publicados[d])
  <2>1. /\ removidos'[d] = fora
        /\ \A e \in Deploys \ {d} : removidos'[e] = removidos[e] /\ fase'[e] = fase[e]
        /\ fora # {} => fase'[d] = "podar"
        /\ fase'[d] \in {"fim", "podar"}
    BY <1>1, <1>2 DEF TypeOK
  <2>2. workflows' = workflows \ {<<projeto[d], s>> : s \in fora}
    BY <1>2 DEF PodarWorkflows
  <2> HIDE DEF fora
  <2>3. AgendaTemDefinicao'
    <3> SUFFICES ASSUME NEW z \in Agendados
                 PROVE  \/ TemDefinicao(z)'
                        \/ \E e \in Deploys : fase'[e] \in {"podar", "morto"} /\ z \in removidos'[e]
      BY <1>1 DEF AgendaTemDefinicao, Agendados
    <3>1. CASE z \in fora
      BY <2>1, <3>1
    <3>2. CASE z \notin fora
      <4>1. CASE TemDefinicao(z)
        BY <2>2, <3>2, <4>1 DEF TemDefinicao
      <4>2. CASE ~TemDefinicao(z)
        BY <1>1, <2>1, <4>2 DEF Indutivo, AgendaTemDefinicao
      <4> QED
        BY <4>1, <4>2
    <3> QED
      BY <3>1, <3>2
  <2>4. GrafoTemAgenda'
    BY <1>1, <2>2 DEF Indutivo, GrafoTemAgenda, Agendados
  <2>5. SoDosProjetos'
    BY <1>1, <2>2 DEF Indutivo, SoDosProjetos
  <2>6. UmDeCadaVez'
    BY <1>1, <2>1 DEF Indutivo, UmDeCadaVez, EmCurso
  <2>7. RemovidosForam'
    BY <1>1, <2>1, <2>2 DEF Indutivo, RemovidosForam
  <2> QED
    BY <2>3, <2>4, <2>5, <2>6, <2>7 DEF Indutivo
<1>3. CASE fase' = [fase EXCEPT ![d] = "fim"] /\ UNCHANGED <<workflows, removidos>>
  BY <1>1, <1>3 DEF Indutivo, TypeOK, AgendaTemDefinicao, GrafoTemAgenda, SoDosProjetos,
       UmDeCadaVez, EmCurso, RemovidosForam, Agendados, TemDefinicao
<1> QED
  BY <1>2, <1>3 DEF PodarDefinicoes

\* The second statement takes the schedules of what was taken out, and no other
LEMMA PodarOrfasMantem ==
  ASSUME Indutivo, TypeOK', NEW d \in Deploys, PodarOrfas(d)
  PROVE  Indutivo'
<1>1. /\ TypeOK /\ fase[d] = "podar"
      /\ workflows' = workflows /\ projeto' = projeto /\ umPorVez' = umPorVez
      /\ comCron' = comCron /\ removidos' = removidos
      /\ fase' = [fase EXCEPT ![d] = "fim"]
      /\ agenda' = [s \in Slugs |-> IF s \in removidos[d] THEN SemAgenda ELSE agenda[s]]
  BY DEF PodarOrfas, PodarAgendas, Indutivo
<1>2. Agendados' = Agendados \ removidos[d]
  BY <1>1 DEF Agendados
<1>3. AgendaTemDefinicao'
  BY <1>1, <1>2 DEF Indutivo, TypeOK, AgendaTemDefinicao, TemDefinicao
<1>4. GrafoTemAgenda'
  <2> SUFFICES ASSUME umPorVez, \A e, f \in Deploys : projeto[e] = projeto[f],
                      NEW w \in workflows \cap comCron
               PROVE  w[2] \in Agendados \ removidos[d]
    BY <1>1, <1>2 DEF GrafoTemAgenda
  <2>1. w[2] \in Agendados
    BY DEF Indutivo, GrafoTemAgenda
  <2>2. w = <<projeto[d], w[2]>>
    BY <1>1 DEF Indutivo, SoDosProjetos, TypeOK
  <2>3. w[2] \notin removidos[d]
    BY <1>1, <2>2 DEF Indutivo, RemovidosForam
  <2> QED
    BY <2>1, <2>3
<1>5. SoDosProjetos'
  BY <1>1 DEF Indutivo, SoDosProjetos
<1>6. UmDeCadaVez'
  BY <1>1 DEF Indutivo, TypeOK, UmDeCadaVez, EmCurso
<1>7. RemovidosForam'
  BY <1>1 DEF Indutivo, TypeOK, RemovidosForam
<1> QED
  BY <1>3, <1>4, <1>5, <1>6, <1>7 DEF Indutivo

\* Every step keeps the invariant
LEMMA PassoIndutivo == Indutivo /\ [Next]_vars => Indutivo'
<1> SUFFICES ASSUME Indutivo, [Next]_vars PROVE Indutivo'
  OBVIOUS
<1>1. TypeOK'
  BY TiposFicam DEF Indutivo
<1>2. CASE UNCHANGED vars
  BY <1>2 DEF vars, Indutivo, TypeOK, AgendaTemDefinicao, GrafoTemAgenda, SoDosProjetos,
       UmDeCadaVez, EmCurso, RemovidosForam, Agendados, TemDefinicao
<1>3. CASE Next
  <2>1. PICK d \in Deploys : Comecar(d) \/ PublicarArquivo(d) \/ PodarDefinicoes(d)
                               \/ PodarOrfas(d) \/ Interromper(d)
    BY <1>3 DEF Next
  <2> QED
    BY <1>1, <2>1, ComecarMantem, PublicarMantem, PodarDefinicoesMantem, PodarOrfasMantem,
       InterromperMantem
<1> QED
  BY <1>2, <1>3

(***************************************************************************)
(* Theorems                                                                *)
(***************************************************************************)

\* Whatever the deploys, and whichever of them is killed or runs beside another: a
\* schedule without its workflow is one that a prune cut short or under way answers
\* for, and, deployed one at a time by one project, a workflow published with a
\* cron keeps its schedule (WorkflowRepo.Publicar and Podar,
\* src/internal/infrastructure/postgres/schedules.go).
THEOREM CatalogoSempreCoerente == Spec => []CatalogoCoerente
<1>1. Indutivo => CatalogoCoerente
  BY DEF Indutivo, CatalogoCoerente
<1> QED
  BY InicioIndutivo, PassoIndutivo, <1>1, PTL DEF Spec

(***************************************************************************)
(* The door: what holds for every credential, request and instant          *)
(***************************************************************************)

Acesso == INSTANCE AccessRules

\* The user and the end of a session, put together, are a pair
LEMMA Par == ASSUME NEW u, NEW x PROVE <<u>> \o <<x>> = <<u, x>>
<1> DEFINE S == {u, x}
           s == <<u>> \o <<x>>
           t == <<u, x>>
<1>1. <<u>> \in Seq(S) /\ <<x>> \in Seq(S) /\ t \in Seq(S)
  OBVIOUS
<1>2. Len(<<u>>) = 1 /\ Len(<<x>>) = 1 /\ Len(t) = 2 /\ t[1] = u /\ t[2] = x
  OBVIOUS
<1> HIDE DEF S, t
<1>3. /\ s \in Seq(S)
      /\ Len(s) = 2
      /\ \A i \in 1..2 : s[i] = IF i <= 1 THEN <<u>>[i] ELSE <<x>>[i - 1]
  BY <1>1, <1>2, ConcatProperties
<1> HIDE DEF s
<1>4. s[1] = u /\ s[2] = x
  BY <1>3
<1>5. \A i \in 1..Len(s) : s[i] = t[i]
  <2>1. 1..Len(s) = {1, 2}
    BY <1>3
  <2>2. QED
    BY <2>1, <1>2, <1>4
<1>6. s = t
  BY <1>1, <1>2, <1>3, <1>5, SeqEqual
<1>7. QED
  BY <1>6 DEF s, t

\* A cookie issued to an operator of one piece is accepted under the credentials of that
\* operator with that secret and no other, and until its end (auth.go emitir, conferirSessao)
LEMMA SessaoEmitida ==
  ASSUME NEW c, NEW d, NEW u, d.usuario = <<u>>, NEW t0 \in Int, NEW agora \in Int
  PROVE  Acesso!conferirSessao(c, Acesso!emitir(d, t0), agora)
         <=> /\ c.usuario = d.usuario
             /\ c.segredo.valor = d.segredo.valor
             /\ agora < t0 + Acesso!ValidadeDaSessao
<1> DEFINE fim == t0 + Acesso!ValidadeDaSessao
           k == Acesso!emitir(d, t0)
<1>1. fim \in Int
  BY DEF Acesso!ValidadeDaSessao
<1>2. k = [corpo |-> <<u, fim>>, assinatura |-> <<d.segredo.valor, <<u, fim>>>>]
  BY Par DEF Acesso!emitir, Acesso!assinar
<1> HIDE DEF fim, k
<1>3. Acesso!conferirSessao(c, k, agora)
        <=> c.usuario = d.usuario /\ c.segredo.valor = d.segredo.valor /\ agora < fim
  BY <1>1, <1>2 DEF Acesso!conferirSessao, Acesso!assinar
<1>4. QED
  BY <1>3 DEF fim, k

\* Where a credential is configured, on every route that is not free and at any instant:
\* what passes carries a session of this operator, signed with this secret and not over,
\* and is told who the operator is; nothing else is; a request that is not a GET is
\* refused and never turned into the page of the login; what changes something is served
\* to the operator only; and of the cookies that were issued, to anybody and at any time,
\* exactly the operator's own open the door, until their end (auth.go ServeHTTP)
THEOREM PortaGuardada ==
  ASSUME NEW c, Acesso!Ativa(c), NEW p, ~Acesso!livre(p.alvo.caminho), NEW agora \in Int
  PROVE  LET porta == Acesso!Portao(c, p, agora)
             passa == porta.faz = "passa"
         IN /\ passa => /\ porta.operador = c.usuario
                        /\ <<p.cookie.corpo[1]>> = c.usuario
                        /\ p.cookie.assinatura = <<c.segredo.valor, p.cookie.corpo>>
                        /\ agora < p.cookie.corpo[2]
            /\ ~passa => porta.operador = <<>>
            /\ porta.faz = "login" => p.metodo = "GET"
            /\ Acesso!Muda(p.metodo, p.alvo.caminho) /\ Acesso!Atender(c, p, agora) = "serve"
                 => porta.operador = c.usuario
            /\ \A d, u : \A t0 \in Int :
                 d.usuario = <<u>> /\ p.cookie = Acesso!emitir(d, t0) =>
                   (passa <=> /\ c.usuario = d.usuario
                              /\ c.segredo.valor = d.segredo.valor
                              /\ agora < t0 + Acesso!ValidadeDaSessao)
<1> DEFINE porta == Acesso!Portao(c, p, agora)
           boa == Acesso!conferirSessao(c, p.cookie, agora)
<1>1. porta = IF boa THEN [faz |-> "passa", operador |-> c.usuario]
              ELSE IF p.metodo # "GET" THEN [faz |-> "recusa", operador |-> <<>>]
              ELSE [faz |-> "login", operador |-> <<>>]
  BY DEF Acesso!Portao
<1>2. boa => /\ <<p.cookie.corpo[1]>> = c.usuario
             /\ p.cookie.assinatura = <<c.segredo.valor, p.cookie.corpo>>
             /\ agora < p.cookie.corpo[2]
  BY DEF Acesso!conferirSessao, Acesso!assinar
<1>3. ASSUME NEW d, NEW u, NEW t0 \in Int, d.usuario = <<u>>, p.cookie = Acesso!emitir(d, t0)
      PROVE  boa <=> /\ c.usuario = d.usuario
                     /\ c.segredo.valor = d.segredo.valor
                     /\ agora < t0 + Acesso!ValidadeDaSessao
  <2>1. Acesso!conferirSessao(c, Acesso!emitir(d, t0), agora)
          <=> /\ c.usuario = d.usuario
              /\ c.segredo.valor = d.segredo.valor
              /\ agora < t0 + Acesso!ValidadeDaSessao
    BY <1>3, SessaoEmitida
  <2>2. QED
    BY <1>3, <2>1
<1> HIDE DEF boa
<1>4. (porta.faz = "passa" <=> boa) /\ (boa => porta.operador = c.usuario)
      /\ (~boa => porta.operador = <<>>) /\ (porta.faz = "login" => p.metodo = "GET")
  BY <1>1
<1>5. Acesso!Atender(c, p, agora) = "serve" => porta.faz = "passa"
  BY <1>1 DEF Acesso!Atender
<1> HIDE DEF porta
<1>6. QED
  BY <1>2, <1>3, <1>4, <1>5 DEF porta
================================================================================
