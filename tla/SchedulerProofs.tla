---------------------------- MODULE SchedulerProofs ----------------------------
(***************************************************************************)
(* Proofs about Scheduler.  Types, and the order in which a run becomes    *)
(* queued and enters the queue, for any number of processes; the order of  *)
(* the slots, and that none is left behind, for one `brevis scheduler` and *)
(* any number of operators; that a gap becomes one run without catchup,    *)
(* for any number of processes.                                            *)
(***************************************************************************)
EXTENDS Scheduler, LeastNatural

(***************************************************************************)
(* The inductive invariant                                                 *)
(***************************************************************************)

\* What a process is at: a process past Criar has its run, one past MarcarQueued has
\* it queued, and only a loop moves a marker
TrabalhoDe(p) ==
  /\ pc[p] \in {"criar", "transicionar", "enfileirar", "avancar"} => restantes[p] # {}
  /\ pc[p] # "livre" => (gatilho[p] = "schedule" <=> p \in Schedulers)
  /\ pc[p] = "avancar" => p \in Schedulers
  /\ pc[p] \in {"transicionar", "enfileirar", "avancar"} => Run(p) \in existe
  /\ pc[p] = "enfileirar" => status[Run(p)] = "queued"
  /\ lidas[p] # {} => momento[p] \in Instantes
Trabalho == \A p \in Processos : TrabalhoDe(p)

\* An item of the queue is of a run marked queued
ItemDeEnfileirado == \A r \in Runs : fila[r] # "fora" => status[r] = "queued"

\* The slots of a schedule that have their run
RunsDe(s) == {h \in Instantes : <<s, "schedule", h>> \in existe}

\* No slot with a run is further from the marker than the first instant after it
Alinhado(s, u) ==
  \A h \in RunsDe(s) : h <= u \/ \A k \in Horarios[s] : ~(u < k /\ k < h)

\* Nothing is created for an instant of the future, nor by a cycle for an instant
\* after it began
Relogio ==
  /\ \A s \in Slugs : \A h \in RunsDe(s) : h \in Horarios[s] /\ h <= agora
  /\ \A p \in Schedulers :
       /\ momento[p] <= agora
       /\ lidas[p] # {} \/ pc[p] # "livre" =>
            \A s \in Slugs : \A h \in RunsDe(s) : h <= momento[p]
       /\ pc[p] # "livre" =>
            \A h \in restantes[p] : h \in Horarios[alvo[p]] /\ h <= momento[p]

\* What a cycle has read and not evaluated yet is not stale where it matters
Linhas ==
  \A p \in Schedulers :
    /\ \A l, m \in lidas[p] : l[1] = m[1] => l = m
    /\ pc[p] # "livre" => \A l \in lidas[p] : l[1] # alvo[p]
    /\ \A l \in lidas[p] :
         /\ l[2].catchup /\ l[2].ultimo # Nulo => Alinhado(l[1], l[2].ultimo)
         /\ l[1] \in Agendados /\ agenda[l[1]].catchup =>
              l[2].catchup /\ l[2].ultimo = agenda[l[1]].ultimo

\* The marker of a schedule that catches up is at most one slot behind its runs
Marcador ==
  \A s \in Agendados : agenda[s].catchup /\ agenda[s].ultimo # Nulo
                         => Alinhado(s, agenda[s].ultimo)

\* A cycle goes forward, and takes every slot between the marker and its last one
Percurso ==
  \A p \in Schedulers : pc[p] # "livre" =>
    /\ \A h \in restantes[p], k \in RunsDe(alvo[p]) : k <= h
    /\ alvo[p] \in Agendados /\ agenda[alvo[p]].catchup =>
         \A h \in restantes[p], k \in Horarios[alvo[p]] :
           agenda[alvo[p]].ultimo < k /\ k < h => k \in restantes[p]

Base == TypeOK /\ Trabalho /\ ItemDeEnfileirado
Indutivo == Base /\ Relogio /\ Linhas /\ Marcador /\ Percurso /\ MarcadorSemLacuna

UmLoop == \A p, q \in Schedulers : p = q

(***************************************************************************)
(* Slots                                                                   *)
(***************************************************************************)

\* The slot a process is at is the first of those that remain
LEMMA MinimoServe ==
  ASSUME NEW S \in SUBSET Instantes, S # {}
  PROVE  Min(S) \in S /\ \A h \in S : Min(S) <= h
<1>1. S \in SUBSET Nat
  BY LimitesDoTempo DEF Instantes
<1>2. \E n \in S : \A m \in S : n <= m
  BY <1>1, MenorNatural
<1> QED
  BY <1>2 DEF Min

\* The latest slot of a gap
LEMMA MaximoServe ==
  ASSUME NEW S \in SUBSET Instantes, S # {}
  PROVE  Max(S) \in S /\ \A h \in S : h <= Max(S)
<1>1. S \in SUBSET (0..MaxTempo) /\ MaxTempo \in Nat
  BY LimitesDoTempo DEF Instantes
<1>2. \E n \in S : \A m \in S : m <= n
  BY <1>1, MaiorNatural
<1>3. \E n \in S : \A m \in S : n >= m
  BY <1>1, <1>2
<1>4. Max(S) \in S /\ \A m \in S : Max(S) >= m
  BY <1>3 DEF Max
<1> QED
  BY <1>1, <1>4

\* The first slots of a gap leave none out before their last
LEMMA PrimeirosSemSalto ==
  ASSUME NEW S \in SUBSET Instantes, NEW n \in Nat,
         NEW h \in Primeiros(S, n), NEW k \in S, k < h
  PROVE  k \in Primeiros(S, n)
<1> DEFINE A == {j \in S : j < k}
           B == {j \in S : j < h}
<1>1. S \subseteq 1..MaxTempo /\ IsFiniteSet(1..MaxTempo) /\ S \subseteq Nat
  <2>1. MaxTempo \in Nat
    BY LimitesDoTempo
  <2>2. IsFiniteSet(1..MaxTempo)
    BY <2>1, FS_Interval
  <2> QED
    BY <2>1, <2>2 DEF Instantes
<1>2. h \in S /\ Cardinality(B) < n
  BY DEF Primeiros
<1>3. IsFiniteSet(B)
  <2>1. B \subseteq 1..MaxTempo
    BY <1>1
  <2> QED
    BY <1>1, <2>1, FS_Subset
<1>4. A \subseteq B
  <2>1. h \in Nat /\ k \in Nat
    BY <1>1, <1>2
  <2>2. \A j \in Nat : j < k => j < h
    BY <2>1
  <2> QED
    BY <1>1, <2>2
<1>5. IsFiniteSet(A) /\ Cardinality(A) <= Cardinality(B)
  BY <1>3, <1>4, FS_Subset
<1>6. Cardinality(A) \in Nat /\ Cardinality(B) \in Nat
  BY <1>3, <1>5, FS_CardinalityType
<1>7. Cardinality(A) < n
  BY <1>2, <1>5, <1>6
<1> QED
  BY <1>7 DEF Primeiros

\* The slots of a line: fires of the cron after its marker and up to the instant
\* asked for; all of them up to the last one when it catches up, the latest otherwise
LEMMA SlotsServem ==
  ASSUME NEW s \in Slugs, NEW l \in Linha, l.ultimo # Nulo, NEW t \in 0..MaxTempo
  PROVE  /\ Disparos(s, l.ultimo, t) \in SUBSET Instantes
         /\ Slots(s, l, t, MaxPorCiclo) \subseteq Disparos(s, l.ultimo, t)
         /\ l.catchup => \A h \in Slots(s, l, t, MaxPorCiclo), k \in Disparos(s, l.ultimo, t) :
                          k < h => k \in Slots(s, l, t, MaxPorCiclo)
         /\ ~l.catchup => \A h \in Slots(s, l, t, MaxPorCiclo), k \in Disparos(s, l.ultimo, t) :
                          k <= h
<1> DEFINE D == Disparos(s, l.ultimo, t)
           S == Slots(s, l, t, MaxPorCiclo)
<1>1. D \in SUBSET Instantes
  BY LimitesDoTempo, HorariosSaoInstantes DEF Disparos, Instantes, Linha
<1>2. CASE l.catchup
  <2>1. S = Primeiros(D, MaxPorCiclo)
    BY <1>2 DEF Slots
  <2>2. S \subseteq D
    BY <2>1 DEF Primeiros
  <2>3. \A h \in S, k \in D : k < h => k \in S
    BY <1>1, <2>1, PrimeirosSemSalto, LimiteDoCiclo
  <2> QED
    BY <1>1, <1>2, <2>2, <2>3
<1>3. CASE ~l.catchup
  <2>1. S = IF D = {} THEN {} ELSE {Max(D)}
    BY <1>3 DEF Slots
  <2>2. D # {} => Max(D) \in D /\ \A k \in D : k <= Max(D)
    BY <1>1, MaximoServe
  <2> QED
    BY <1>1, <1>3, <2>1, <2>2
<1> QED
  BY <1>2, <1>3 DEF Linha

(***************************************************************************)
(* What the steps do                                                       *)
(***************************************************************************)

Pontos == {"livre", "definicao", "criar", "transicionar", "enfileirar", "avancar"}

\* A process with slots left is at the first one, and its run has a name
LEMMA RunServe ==
  ASSUME TypeOK, NEW p \in Processos, restantes[p] # {}
  PROVE  /\ Slot(p) \in restantes[p] /\ Slot(p) \in Instantes
         /\ \A h \in restantes[p] : Slot(p) <= h
         /\ Run(p) \in Runs /\ Run(p) = <<alvo[p], gatilho[p], Slot(p)>>
<1>1. restantes[p] \in SUBSET Instantes /\ alvo[p] \in Slugs /\ gatilho[p] \in Gatilhos
  BY DEF TypeOK
<1>2. Slot(p) \in restantes[p] /\ \A h \in restantes[p] : Slot(p) <= h
  BY <1>1, MinimoServe DEF Slot
<1> QED
  BY <1>1, <1>2, ChavesDosRuns DEF Run

\* Where a process goes when it is through with a statement
Rumo(p) ==
  /\ pc' = [pc EXCEPT ![p] = pc'[p]] /\ pc'[p] \in {"livre", "criar", "avancar"}
  /\ restantes' = [restantes EXCEPT ![p] = restantes'[p]]
  /\ restantes'[p] \subseteq restantes[p]
  /\ pc'[p] = "criar" => restantes'[p] # {} /\ restantes'[p] = restantes[p] \ {Slot(p)}
  /\ pc'[p] = "avancar" => restantes'[p] = restantes[p] /\ p \in Schedulers
  /\ pedido' \in [Processos -> (Instantes \X Instantes) \cup {<<>>}]
  /\ completos' \subseteq Slugs \X Instantes \X Instantes

\* It gives up, goes on to the next slot, or moves the marker
LEMMA RumoServe ==
  ASSUME TypeOK, NEW p \in Processos, Desistir(p) \/ ProximoSlot(p) \/ Seguir(p)
  PROVE  Rumo(p)
<1>1. CASE Desistir(p)
  BY <1>1 DEF Desistir, Rumo, TypeOK
<1>2. ASSUME ProximoSlot(p) PROVE Rumo(p)
  <2>1. /\ pc' = [pc EXCEPT ![p] = pc'[p]] /\ pc'[p] \in {"livre", "criar"}
        /\ restantes' = [restantes EXCEPT ![p] = restantes[p] \ {Slot(p)}]
        /\ pc'[p] = "criar" => restantes[p] \ {Slot(p)} # {}
    BY <1>2 DEF ProximoSlot, TypeOK
  <2>2. CASE pedido' = pedido /\ completos' = completos
    BY <2>1, <2>2 DEF Rumo, TypeOK
  <2>3. CASE /\ pedido[p] # <<>> /\ pedido' = [pedido EXCEPT ![p] = <<>>]
             /\ completos' = completos \cup {<<alvo[p], pedido[p][1], pedido[p][2]>>}
    <3>1. pedido[p] \in Instantes \X Instantes /\ alvo[p] \in Slugs
      BY <2>3 DEF TypeOK
    <3>2. completos' \subseteq Slugs \X Instantes \X Instantes
      BY <2>3, <3>1 DEF TypeOK
    <3>3. pedido' \in [Processos -> (Instantes \X Instantes) \cup {<<>>}]
      BY <2>3 DEF TypeOK
    <3> QED
      BY <2>1, <3>2, <3>3 DEF Rumo, TypeOK
  <2> QED
    BY <1>2, <2>2, <2>3 DEF ProximoSlot
<1>3. CASE Seguir(p) /\ p \in Schedulers
  BY <1>3 DEF Seguir, Rumo, TypeOK
<1>4. CASE Seguir(p) /\ p \notin Schedulers
  BY <1>2, <1>4 DEF Seguir
<1> QED
  BY <1>1, <1>2, <1>3, <1>4

\* The marker of a schedule only moves forward, and nothing else of the row changes
LEMMA AvancoServe ==
  ASSUME TypeOK, NEW s \in Slugs, NEW h \in Nat, AvancarSlot(s, h)
  PROVE  \/ agenda' = agenda
         \/ /\ s \in Agendados /\ agenda[s].ultimo < h
            /\ agenda' = [agenda EXCEPT ![s] = [agenda[s] EXCEPT !.ultimo = h]]
            /\ [agenda[s] EXCEPT !.ultimo = h] \in Linha
BY DEF AvancarSlot, TypeOK, Agendados, Linha

\* The rows of `schedules` keep their type
LEMMA AgendaTemTipo ==
  ASSUME TypeOK, NEW s \in Slugs,
         \/ Alternar(s)
         \/ \E h \in Nat : AvancarSlot(s, h)
         \/ \E p \in Projetos, c \in BOOLEAN : Publicar(p, s, c)
  PROVE  agenda' \in [Slugs -> Linha \cup {SemAgenda}]
<1>1. CASE Alternar(s)
  <2>1. agenda[s] \in Linha
    BY <1>1 DEF Alternar, TypeOK, Agendados
  <2>2. agenda' = [agenda EXCEPT ![s] = [agenda[s] EXCEPT !.ativo = ~agenda[s].ativo]]
    BY <1>1 DEF Alternar
  <2>3. (~agenda[s].ativo) \in BOOLEAN
    OBVIOUS
  <2>4. [agenda[s] EXCEPT !.ativo = ~agenda[s].ativo] \in Linha
    BY <2>1, <2>3 DEF Linha
  <2> QED
    BY <2>2, <2>4 DEF TypeOK
<1>2. ASSUME NEW h \in Nat, AvancarSlot(s, h) PROVE agenda' \in [Slugs -> Linha \cup {SemAgenda}]
  BY <1>2, AvancoServe DEF TypeOK
<1>3. ASSUME NEW p \in Projetos, NEW c \in BOOLEAN, Publicar(p, s, c)
      PROVE  agenda' \in [Slugs -> Linha \cup {SemAgenda}]
  <2>1. /\ [ativo |-> TRUE, catchup |-> FALSE, ultimo |-> Nulo] \in Linha
        /\ agenda[s] # SemAgenda => [agenda[s] EXCEPT !.catchup = FALSE] \in Linha
    BY DEF Linha, Nulo, TypeOK
  <2> QED
    BY <1>3, <2>1 DEF Publicar, TypeOK
<1> QED
  BY <1>1, <1>2, <1>3

(***************************************************************************)
(* Types, and what a process is at                                         *)
(***************************************************************************)

\* The cases of materializar
LEMMA AvaliarServe ==
  ASSUME TypeOK, Trabalho, NEW p \in Processos, NEW l \in lidas[p],
         lidas' = [lidas EXCEPT ![p] = @ \ {l}]
  PROVE  /\ l[1] \in Slugs /\ l[2] \in Linha /\ l = <<l[1], l[2]>>
         /\ momento[p] \in Instantes
         /\ lidas' \in [Processos -> SUBSET (Slugs \X Linha)]
         /\ l[2].ultimo # Nulo =>
              Slots(l[1], l[2], momento[p], MaxPorCiclo) \in SUBSET Instantes
<1>1. l \in Slugs \X Linha /\ lidas' \in [Processos -> SUBSET (Slugs \X Linha)]
  BY DEF TypeOK
<1>2. momento[p] \in Instantes /\ momento[p] \in 0..MaxTempo
  BY DEF Trabalho, TrabalhoDe, TypeOK
<1>3. l[2].ultimo # Nulo => Slots(l[1], l[2], momento[p], MaxPorCiclo) \in SUBSET Instantes
  <2>1. l[1] \in Slugs /\ l[2] \in Linha
    BY <1>1
  <2> QED
    BY <1>2, <2>1, SlotsServem
<1> QED
  BY <1>1, <1>2, <1>3

\* Every step keeps the types
LEMMA TiposFicam ==
  ASSUME TypeOK, Trabalho, [Next]_vars
  PROVE  TypeOK'
<1>t. MaxTempo \in Nat /\ agora \in Nat /\ MaxComandos \in Nat /\ MaxIntervencoes \in Nat
        /\ MaxQuedas \in Nat
  BY LimitesDoTempo DEF TypeOK, Instantes
<1>1. CASE UNCHANGED vars
  BY <1>1 DEF vars, TypeOK
<1>2. CASE Passar
  <2>1. agora' \in Instantes
    BY <1>2, <1>t DEF Passar, TypeOK, Instantes
  <2> QED
    BY <1>2, <2>1 DEF Passar, TypeOK, tabelas, local, contadores, hist
<1>3. CASE Intervir
  <2>1. PICK s \in Slugs :
          \/ Alternar(s) /\ UNCHANGED <<workflows, plantado>>
          \/ \E p \in Projetos, comCron \in BOOLEAN :
               /\ Publicar(p, s, comCron)
               /\ plantado' = IF comCron /\ s \in Agendados THEN plantado
                              ELSE [plantado EXCEPT ![s] = MaxTempo]
    BY <1>3 DEF Intervir
  <2>2. agenda' \in [Slugs -> Linha \cup {SemAgenda}]
    BY <2>1, AgendaTemTipo
  <2>3. workflows' \subseteq Projetos \X Slugs
    BY <2>1 DEF Publicar, TypeOK
  <2>4. MaxTempo \in Instantes
    BY LimitesDoTempo DEF Instantes
  <2>5. plantado' \in [Slugs -> Instantes]
    BY <2>1, <2>4 DEF TypeOK
  <2>6. intervencoes' \in 0..MaxIntervencoes
    BY <1>3, <1>t DEF Intervir, TypeOK
  <2> QED
    BY <1>3, <2>2, <2>3, <2>5, <2>6 DEF Intervir, TypeOK, local
<1> SUFFICES ASSUME NEW p \in Processos,
                    \/ IniciarCiclo(p) \/ AvaliarAgenda(p) \/ Disparar(p) \/ Avancar(p) \/ Cair(p)
                    \/ \E s \in Slugs, de, ate \in Instantes : AbrirBackfill(p, s, de, ate)
             PROVE  TypeOK'
  BY <1>1, <1>2, <1>3 DEF Next
<1>4. CASE IniciarCiclo(p)
  <2>1. {<<s, agenda[s]>> : s \in Ativas} \in SUBSET (Slugs \X Linha)
    BY DEF TypeOK, Ativas, Agendados
  <2>2. agora \in 0..MaxTempo
    BY <1>t DEF TypeOK, Instantes
  <2> QED
    BY <1>4, <2>1, <2>2 DEF IniciarCiclo, TypeOK, tabelas, contadores, hist
<1>5. CASE AvaliarAgenda(p)
  <2>1. PICK l \in lidas[p] :
          LET s == l[1]
              slots == Slots(s, l[2], momento[p], MaxPorCiclo)
          IN
          /\ lidas' = [lidas EXCEPT ![p] = @ \ {l}]
          /\ \/ /\ l[2].ultimo = Nulo
                /\ AvancarSlot(s, momento[p]) \/ (BancoFalha /\ UNCHANGED agenda)
                /\ plantado' = IF agenda' # agenda /\ agenda[s].ultimo = Nulo
                                 THEN [plantado EXCEPT ![s] = momento[p]] ELSE plantado
                /\ UNCHANGED <<pc, alvo, gatilho, restantes>>
             \/ /\ l[2].ultimo # Nulo
                /\ defeito[s] = "cron" \/ slots = {}
                /\ UNCHANGED <<agenda, pc, alvo, gatilho, restantes, plantado>>
             \/ /\ l[2].ultimo # Nulo
                /\ defeito[s] # "cron" /\ slots # {}
                /\ alvo' = [alvo EXCEPT ![p] = s]
                /\ gatilho' = [gatilho EXCEPT ![p] = "schedule"]
                /\ restantes' = [restantes EXCEPT ![p] = slots]
                /\ pc' = [pc EXCEPT ![p] = "definicao"]
                /\ UNCHANGED <<agenda, plantado>>
    BY <1>5 DEF AvaliarAgenda
  <2> DEFINE s == l[1]
             slots == Slots(s, l[2], momento[p], MaxPorCiclo)
  <2>2. /\ s \in Slugs /\ momento[p] \in Instantes
        /\ lidas' \in [Processos -> SUBSET (Slugs \X Linha)]
        /\ l[2].ultimo # Nulo => slots \in SUBSET Instantes
    BY <2>1, AvaliarServe
  <2> HIDE DEF s, slots
  <2>3. momento[p] \in Nat
    BY <1>t, <2>2 DEF Instantes
  <2>4. agenda' \in [Slugs -> Linha \cup {SemAgenda}]
    <3>1. AvancarSlot(s, momento[p]) \/ agenda' = agenda
      BY <2>1 DEF s
    <3> QED
      BY <3>1, <2>2, <2>3, AgendaTemTipo DEF TypeOK
  <2>5. plantado' \in [Slugs -> Instantes]
    BY <2>1, <2>2 DEF TypeOK, s
  <2>6. /\ alvo' \in [Processos -> Slugs]
        /\ gatilho' \in [Processos -> Gatilhos]
        /\ restantes' \in [Processos -> SUBSET Instantes]
        /\ pc' \in [Processos -> Pontos]
    <3>1. CASE UNCHANGED <<pc, alvo, gatilho, restantes>>
      BY <3>1 DEF TypeOK, Pontos
    <3>2. CASE /\ l[2].ultimo # Nulo
               /\ alvo' = [alvo EXCEPT ![p] = s]
               /\ gatilho' = [gatilho EXCEPT ![p] = "schedule"]
               /\ restantes' = [restantes EXCEPT ![p] = slots]
               /\ pc' = [pc EXCEPT ![p] = "definicao"]
      BY <3>2, <2>2 DEF TypeOK, Pontos, Gatilhos
    <3> QED
      BY <2>1, <3>1, <3>2 DEF s, slots
  <2>7. UNCHANGED <<workflows, existe, status, fila, defeito, agora, momento, pedido,
                    contadores, completos>>
    BY <1>5 DEF AvaliarAgenda
  <2> QED
    BY <2>2, <2>4, <2>5, <2>6, <2>7 DEF TypeOK, Pontos, contadores
<1>6. CASE Disparar(p)
  <2>1. comandos' \in 0..MaxComandos
    BY <1>6, <1>t DEF Disparar, Comando, TypeOK
  <2> QED
    BY <1>6, <2>1 DEF Disparar, TypeOK, tabelas, hist, Gatilhos
<1>7. ASSUME NEW s \in Slugs, NEW de \in Instantes, NEW ate \in Instantes,
             AbrirBackfill(p, s, de, ate)
      PROVE  TypeOK'
  <2>1. comandos' \in 0..MaxComandos
    BY <1>7, <1>t DEF AbrirBackfill, Comando, TypeOK
  <2>2. Disparos(s, de - 1, ate) \in SUBSET Instantes
    BY <1>t, HorariosSaoInstantes DEF Disparos, Instantes
  <2> QED
    BY <1>7, <2>1, <2>2 DEF AbrirBackfill, TypeOK, tabelas, hist, Gatilhos
<1>8. CASE Avancar(p)
  <2>1. CASE LerDefinicao(p)
    <3>1. CASE pc' = [pc EXCEPT ![p] = "criar"] /\ UNCHANGED <<restantes, pedido, completos>>
      BY <2>1, <3>1 DEF LerDefinicao, TypeOK, tabelas, contadores
    <3>2. CASE Desistir(p)
      BY <2>1, <3>2 DEF LerDefinicao, Desistir, TypeOK, tabelas, contadores
    <3> QED
      BY <2>1, <3>1, <3>2 DEF LerDefinicao
  <2> SUFFICES ASSUME pc[p] \in {"criar", "transicionar", "enfileirar", "avancar"},
                      Criar(p) \/ MarcarQueued(p) \/ Enfileirar(p) \/ AvancarMarcador(p)
               PROVE  TypeOK'
    BY <1>8, <2>1 DEF Avancar, Criar, MarcarQueued, Enfileirar, AvancarMarcador
  <2>2. Run(p) \in Runs /\ alvo[p] \in Slugs /\ Slot(p) \in Nat
    <3>1. restantes[p] # {} /\ alvo[p] \in Slugs
      BY DEF Trabalho, TrabalhoDe, TypeOK
    <3>2. Run(p) \in Runs /\ Slot(p) \in Instantes
      BY <3>1, RunServe
    <3> QED
      BY <1>t, <3>1, <3>2 DEF Instantes
  <2>3. \/ Rumo(p)
        \/ \E v \in Pontos : pc' = [pc EXCEPT ![p] = v] /\ UNCHANGED <<restantes, pedido, completos>>
    BY RumoServe DEF Criar, MarcarQueued, Enfileirar, AvancarMarcador, Pontos
  <2>4. /\ pc' \in [Processos -> Pontos]
        /\ restantes' \in [Processos -> SUBSET Instantes]
        /\ pedido' \in [Processos -> (Instantes \X Instantes) \cup {<<>>}]
        /\ completos' \subseteq Slugs \X Instantes \X Instantes
    <3>1. CASE Rumo(p)
      <4>1. pc' \in [Processos -> Pontos]
        BY <3>1 DEF Rumo, Pontos, TypeOK
      <4>2. restantes' \in [Processos -> SUBSET Instantes]
        BY <3>1 DEF Rumo, TypeOK
      <4> QED
        BY <3>1, <4>1, <4>2 DEF Rumo
    <3>2. CASE \E v \in Pontos : pc' = [pc EXCEPT ![p] = v] /\ UNCHANGED <<restantes, pedido, completos>>
      BY <3>2 DEF Pontos, TypeOK
    <3> QED
      BY <2>3, <3>1, <3>2
  <2>5. existe' \subseteq Runs
    BY <2>2 DEF TypeOK, Criar, MarcarQueued, Enfileirar, AvancarMarcador
  <2>6. status' \in [Runs -> {"created", "queued"}]
    BY <2>2 DEF TypeOK, Criar, MarcarQueued, Enfileirar, AvancarMarcador, Transicionar
  <2>7. fila' \in [Runs -> {"fora", "livre"}]
    BY <2>2 DEF TypeOK, Criar, MarcarQueued, Enfileirar, AvancarMarcador, Enqueue
  <2>8. agenda' \in [Slugs -> Linha \cup {SemAgenda}]
    <3>1. AvancarSlot(alvo[p], Slot(p)) \/ agenda' = agenda
      BY DEF Criar, MarcarQueued, Enfileirar, AvancarMarcador
    <3> QED
      BY <3>1, <2>2, AgendaTemTipo DEF TypeOK
  <2> QED
    BY <2>4, <2>5, <2>6, <2>7, <2>8
       DEF Criar, MarcarQueued, Enfileirar, AvancarMarcador, TypeOK, Pontos, contadores
<1>9. CASE Cair(p)
  <2>1. quedas' \in 0..MaxQuedas
    BY <1>9, <1>t DEF Cair, TypeOK
  <2> QED
    BY <1>9, <2>1 DEF Cair, TypeOK, tabelas, hist
<1> QED
  BY <1>4, <1>5, <1>6, <1>7, <1>8, <1>9

\* A run is created, marked queued and put into the queue at most once, in this order
Entrega(r) ==
  /\ status'[r] # status[r] => r \in existe /\ status[r] = "created" /\ fila[r] = "fora"
                              /\ status'[r] = "queued"
  /\ fila'[r] # fila[r] => status[r] = "queued" /\ fila[r] = "fora"

\* No step does otherwise
LEMMA EntregaServe ==
  ASSUME Base, [Next]_vars
  PROVE  existe \subseteq existe' /\ \A r \in Runs : Entrega(r)
<1> USE DEF Base
<1>1. CASE UNCHANGED <<existe, status, fila>>
  BY <1>1 DEF Entrega
<1> SUFFICES ASSUME NEW p \in Processos, Criar(p) \/ MarcarQueued(p) \/ Enfileirar(p)
             PROVE  existe \subseteq existe' /\ \A r \in Runs : Entrega(r)
  <2>1. \/ UNCHANGED <<existe, status, fila>>
        \/ \E p \in Processos : Criar(p) \/ MarcarQueued(p) \/ Enfileirar(p)
    BY DEF Next, vars, Passar, Intervir, IniciarCiclo, AvaliarAgenda, Disparar, AbrirBackfill,
           Avancar, LerDefinicao, AvancarMarcador, Cair, tabelas
  <2> QED
    BY <1>1, <2>1
<1>2. CASE Criar(p)
  <2>1. existe \subseteq existe' /\ UNCHANGED <<status, fila>>
    BY <1>2 DEF Criar
  <2> QED
    BY <2>1 DEF Entrega
<1>3. CASE MarcarQueued(p)
  <2>1. UNCHANGED <<existe, fila>> /\ (Transicionar(Run(p), "queued") \/ UNCHANGED status)
    BY <1>3 DEF MarcarQueued
  <2>2. CASE UNCHANGED status
    BY <2>1, <2>2 DEF Entrega
  <2>3. CASE Transicionar(Run(p), "queued")
    <3>1. Run(p) \in existe /\ Run(p) \in Runs
      BY <1>3, RunServe DEF MarcarQueued, Trabalho, TrabalhoDe
    <3>2. status[Run(p)] = "created" /\ status' = [status EXCEPT ![Run(p)] = "queued"]
      BY <2>3, <3>1 DEF Transicionar, PodeIr, transicoes, TypeOK
    <3>3. fila[Run(p)] = "fora"
      BY <3>1, <3>2 DEF ItemDeEnfileirado
    <3> QED
      BY <2>1, <3>1, <3>2, <3>3 DEF Entrega, TypeOK
  <2> QED
    BY <2>1, <2>2, <2>3
<1>4. CASE Enfileirar(p)
  <2>1. UNCHANGED <<existe, status>> /\ (Enqueue(Run(p)) \/ UNCHANGED fila)
    BY <1>4 DEF Enfileirar
  <2>2. Run(p) \in Runs /\ status[Run(p)] = "queued"
    BY <1>4, RunServe DEF Enfileirar, Trabalho, TrabalhoDe
  <2> QED
    BY <2>1, <2>2 DEF Entrega, Enqueue, TypeOK
<1> QED
  BY <1>2, <1>3, <1>4

\* What is in the queue stays marked
LEMMA ItemFica ==
  ASSUME Base, [Next]_vars
  PROVE  ItemDeEnfileirado'
<1>1. \A r \in Runs : Entrega(r)
  BY EntregaServe
<1> SUFFICES ASSUME NEW r \in Runs, fila'[r] # "fora" PROVE status'[r] = "queued"
  BY DEF ItemDeEnfileirado
<1>2. status[r] = "queued"
  BY <1>1 DEF Entrega, Base, ItemDeEnfileirado
<1> QED
  BY <1>1, <1>2 DEF Entrega

\* A process that takes no step
Parado(q) ==
  /\ pc'[q] = pc[q] /\ lidas'[q] = lidas[q] /\ momento'[q] = momento[q] /\ alvo'[q] = alvo[q]
  /\ gatilho'[q] = gatilho[q] /\ restantes'[q] = restantes[q] /\ pedido'[q] = pedido[q]

\* The step of a process
Passo(p) ==
  \/ IniciarCiclo(p) \/ AvaliarAgenda(p) \/ Disparar(p) \/ Avancar(p) \/ Cair(p)
  \/ \E s \in Slugs, de, ate \in Instantes : AbrirBackfill(p, s, de, ate)

\* It leaves the memory of the others alone
LEMMA OutrosParados ==
  ASSUME Base, NEW p \in Processos, Passo(p), NEW q \in Processos, p # q
  PROVE  Parado(q)
<1>t. TypeOK /\ TrabalhoDe(p)
  BY DEF Base, Trabalho
<1>1. CASE Avancar(p)
  <2>1. \/ UNCHANGED pc
        \/ \E v \in Pontos : pc' = [pc EXCEPT ![p] = v]
    BY <1>1, RumoServe, <1>t DEF Avancar, LerDefinicao, Criar, MarcarQueued, Enfileirar,
       AvancarMarcador, TrabalhoDe, Rumo, Pontos, Desistir
  <2>2. \E R : restantes' = [restantes EXCEPT ![p] = R] \/ UNCHANGED restantes
    BY <1>1 DEF Avancar, LerDefinicao, Criar, MarcarQueued, Enfileirar, AvancarMarcador,
       Desistir, ProximoSlot, Seguir
  <2>3. \E R : pedido' = [pedido EXCEPT ![p] = R] \/ UNCHANGED pedido
    BY <1>1 DEF Avancar, LerDefinicao, Criar, MarcarQueued, Enfileirar, AvancarMarcador,
       Desistir, ProximoSlot, Seguir
  <2>4. UNCHANGED <<lidas, momento, alvo, gatilho>>
    BY <1>1 DEF Avancar, LerDefinicao, Criar, MarcarQueued, Enfileirar, AvancarMarcador
  <2> QED
    BY <1>t, <2>1, <2>2, <2>3, <2>4 DEF TypeOK, Parado
<1>2. CASE IniciarCiclo(p)
  BY <1>t, <1>2 DEF IniciarCiclo, TypeOK, Parado
<1>3. CASE AvaliarAgenda(p)
  BY <1>t, <1>3 DEF AvaliarAgenda, TypeOK, Parado
<1>4. CASE Disparar(p)
  BY <1>t, <1>4 DEF Disparar, TypeOK, Parado
<1>5. ASSUME NEW s \in Slugs, NEW de \in Instantes, NEW ate \in Instantes,
             AbrirBackfill(p, s, de, ate)
      PROVE  Parado(q)
  BY <1>t, <1>5 DEF AbrirBackfill, TypeOK, Parado
<1>6. CASE Cair(p)
  BY <1>t, <1>6 DEF Cair, TypeOK, Parado
<1> QED
  BY <1>1, <1>2, <1>3, <1>4, <1>5, <1>6 DEF Passo

\* What a process is at, for one that takes no step
LEMMA TrabalhoDosOutros ==
  ASSUME Base, [Next]_vars, NEW q \in Processos, Parado(q)
  PROVE  TrabalhoDe(q)'
<1>1. Run(q)' = Run(q)
  BY DEF Run, Slot, Parado
<1>2. existe \subseteq existe' /\ \A r \in Runs : Entrega(r)
  BY EntregaServe
<1>3. restantes[q] # {} => Run(q) \in Runs
  BY RunServe DEF Base
<1>4. pc[q] = "enfileirar" => Run(q) \in Runs /\ status[Run(q)] = "queued"
  BY <1>3 DEF Base, Trabalho, TrabalhoDe
<1>5. pc[q] = "enfileirar" => status'[Run(q)] = "queued"
  BY <1>2, <1>4 DEF Entrega
<1> QED
  BY <1>1, <1>2, <1>5 DEF Base, Trabalho, TrabalhoDe, Parado

\* Every step leaves each process at something it has to do
LEMMA TrabalhoFica ==
  ASSUME Base, [Next]_vars
  PROVE  Trabalho'
<1>t. \A q \in Processos : TrabalhoDe(q)
  BY DEF Base, Trabalho
<1>u. TypeOK'
  BY TiposFicam DEF Base
<1> SUFFICES ASSUME NEW q \in Processos PROVE TrabalhoDe(q)'
  BY DEF Trabalho
<1>1. CASE Parado(q)
  BY <1>1, TrabalhoDosOutros
<1>2. CASE UNCHANGED vars \/ Passar \/ Intervir
  BY <1>1, <1>2 DEF vars, Passar, Intervir, local, Parado
<1> SUFFICES ASSUME NEW p \in Processos,
                    \/ IniciarCiclo(p) \/ AvaliarAgenda(p) \/ Disparar(p) \/ Avancar(p) \/ Cair(p)
                    \/ \E s \in Slugs, de, ate \in Instantes : AbrirBackfill(p, s, de, ate)
             PROVE  TrabalhoDe(q)'
  BY <1>2 DEF Next
<1>3. CASE p # q
  BY <1>1, <1>3, OutrosParados DEF Passo
<1> SUFFICES ASSUME p = q PROVE TrabalhoDe(p)'
  BY <1>3
<1>4. CASE IniciarCiclo(p)
  BY <1>4 DEF IniciarCiclo, TrabalhoDe, Base, TypeOK
<1>5. CASE AvaliarAgenda(p)
  <2>1. momento[p] \in Instantes /\ UNCHANGED momento /\ pc[p] = "livre" /\ p \in Schedulers
    BY <1>5, <1>t DEF AvaliarAgenda, TrabalhoDe
  <2>2. \/ UNCHANGED pc
        \/ pc' = [pc EXCEPT ![p] = "definicao"] /\ gatilho' = [gatilho EXCEPT ![p] = "schedule"]
    BY <1>5 DEF AvaliarAgenda
  <2> QED
    BY <2>1, <2>2 DEF TrabalhoDe, Base, TypeOK
<1>6. CASE Disparar(p)
  <2>1. p \notin Schedulers
    BY <1>6, NomesDosProcessos DEF Disparar, Comando
  <2> QED
    BY <1>6, <1>t, <2>1 DEF Disparar, Comando, TrabalhoDe, Base, TypeOK
<1>7. ASSUME NEW s \in Slugs, NEW de \in Instantes, NEW ate \in Instantes,
             AbrirBackfill(p, s, de, ate)
      PROVE  TrabalhoDe(p)'
  <2>1. p \notin Schedulers
    BY <1>7, NomesDosProcessos DEF AbrirBackfill, Comando
  <2> QED
    BY <1>7, <1>t, <2>1 DEF AbrirBackfill, Comando, TrabalhoDe, Base, TypeOK
<1>8. CASE Avancar(p)
  <2>1. UNCHANGED <<lidas, momento, alvo, gatilho>>
    BY <1>8 DEF Avancar, LerDefinicao, Criar, MarcarQueued, Enfileirar, AvancarMarcador
  <2>2. pc[p] # "livre" /\ TrabalhoDe(p) /\ TypeOK
    BY <1>8, <1>t DEF Avancar, LerDefinicao, Criar, MarcarQueued, Enfileirar, AvancarMarcador, Base
  <2>3. CASE LerDefinicao(p)
    BY <2>1, <2>2, <2>3 DEF LerDefinicao, Desistir, TrabalhoDe, TypeOK
  <2>4. CASE pc[p] # "definicao" /\ Rumo(p)
    <3>1. pc[p] \in {"criar", "transicionar", "enfileirar", "avancar"}
      BY <2>2, <2>4 DEF TypeOK
    <3>2. restantes[p] # {}
      BY <2>2, <3>1 DEF TrabalhoDe
    <3>3. /\ pc'[p] \in {"livre", "criar", "avancar"}
          /\ pc'[p] = "criar" => restantes'[p] # {}
          /\ pc'[p] = "avancar" => restantes'[p] = restantes[p] /\ p \in Schedulers
      BY <2>4 DEF Rumo
    <3>4. pc'[p] = "avancar" => Run(p) \in existe'
      <4>1. CASE Criar(p)
        BY <2>2, <3>2, <4>1, EntregaServe DEF Criar, Desistir, Seguir, TypeOK, TrabalhoDe, ProximoSlot
      <4>2. CASE ~Criar(p)
        <5>1. pc[p] \in {"transicionar", "enfileirar", "avancar"}
          BY <1>8, <2>4, <4>2 DEF Avancar, LerDefinicao, MarcarQueued, Enfileirar, AvancarMarcador
        <5> QED
          BY <2>2, <5>1, EntregaServe DEF TrabalhoDe
      <4> QED
        BY <4>1, <4>2
    <3>5. restantes'[p] = restantes[p] => Run(p)' = Run(p)
      BY <2>1 DEF Run, Slot
    <3> QED
      BY <2>1, <2>2, <3>2, <3>3, <3>4, <3>5 DEF TrabalhoDe
  <2>5. CASE Criar(p) /\ ~Rumo(p)
    <3>1. /\ existe' = existe \cup {Run(p)} /\ pc' = [pc EXCEPT ![p] = "transicionar"]
          /\ UNCHANGED restantes /\ pc[p] = "criar"
      BY <2>5, <2>2, RumoServe DEF Criar
    <3>2. Run(p)' = Run(p) /\ pc'[p] = "transicionar"
      BY <2>1, <2>2, <3>1 DEF Run, Slot, TypeOK
    <3> QED
      BY <2>1, <2>2, <3>1, <3>2 DEF TrabalhoDe
  <2>6. CASE MarcarQueued(p) /\ ~Rumo(p)
    <3>1. /\ Transicionar(Run(p), "queued") /\ pc' = [pc EXCEPT ![p] = "enfileirar"]
          /\ UNCHANGED <<restantes, existe>> /\ pc[p] = "transicionar"
      BY <2>6, <2>2, RumoServe DEF MarcarQueued
    <3>2. Run(p)' = Run(p) /\ pc'[p] = "enfileirar"
      BY <2>1, <2>2, <3>1 DEF Run, Slot, TypeOK
    <3>3. Run(p) \in Runs /\ Run(p) \in existe /\ restantes[p] # {}
      BY <2>2, <3>1, RunServe DEF TrabalhoDe
    <3>4. status'[Run(p)] = "queued"
      BY <2>2, <3>1, <3>3 DEF Transicionar, TypeOK
    <3> QED
      BY <2>1, <2>2, <3>1, <3>2, <3>3, <3>4 DEF TrabalhoDe
  <2>7. CASE (Enfileirar(p) \/ AvancarMarcador(p)) /\ ~Rumo(p)
    BY <2>2, <2>7, RumoServe DEF Enfileirar, AvancarMarcador
  <2>8. CASE pc[p] = "definicao"
    BY <1>8, <2>3, <2>8 DEF Avancar, Criar, MarcarQueued, Enfileirar, AvancarMarcador
  <2> QED
    BY <1>8, <2>3, <2>4, <2>5, <2>6, <2>7, <2>8 DEF Avancar
<1>9. CASE Cair(p)
  BY <1>9, <1>t DEF Cair, TrabalhoDe, Base, TypeOK
<1> QED
  BY <1>4, <1>5, <1>6, <1>7, <1>8, <1>9

\* Types, work and queue, together
LEMMA BaseFica == Base /\ [Next]_vars => Base'
BY TiposFicam, TrabalhoFica, ItemFica DEF Base

\* They hold at the start
LEMMA BaseNoInicio == Init => Base
<1> SUFFICES ASSUME Init PROVE Base
  OBVIOUS
<1>1. MaxTempo \in Nat \ {0} /\ {0} \subseteq 0..MaxComandos /\ 0 \in 0..MaxIntervencoes
        /\ 0 \in 0..MaxQuedas /\ 1 \in Instantes /\ MaxTempo \in Instantes /\ 0 \in 0..MaxTempo
  BY LimitesDoTempo DEF Instantes
<1>2. (CHOOSE s \in Slugs : TRUE) \in Slugs
  BY AlgumSlug
<1>3. agenda \in [Slugs -> Linha \cup {SemAgenda}]
  <2> DEFINE L == {[ativo |-> TRUE, catchup |-> c,
                    ultimo |-> IF InicioComMarco THEN 1 ELSE Nulo] : c \in BOOLEAN}
  <2>1. \A c \in BOOLEAN : [ativo |-> TRUE, catchup |-> c,
                            ultimo |-> IF InicioComMarco THEN 1 ELSE Nulo] \in Linha
    BY DEF Linha, Nulo
  <2>2. L \subseteq Linha
    BY <2>1
  <2>3. agenda \in [Slugs -> L]
    BY DEF Init
  <2> QED
    BY <2>2, <2>3
<1>4. plantado \in [Slugs -> Instantes]
  BY <1>1 DEF Init
<1>5. TypeOK
  BY <1>1, <1>2, <1>3, <1>4 DEF Init, TypeOK, Gatilhos
<1>6. Trabalho
  BY DEF Init, Trabalho, TrabalhoDe
<1>7. ItemDeEnfileirado
  BY DEF Init, ItemDeEnfileirado
<1> QED
  BY <1>5, <1>6, <1>7 DEF Base

(***************************************************************************)
(* The order of the slots, with one loop                                   *)
(***************************************************************************)

Sequencia == Relogio /\ Linhas /\ Marcador /\ Percurso /\ MarcadorSemLacuna

\* Instants are numbers
LEMMA InstantesSaoNaturais ==
  ASSUME TypeOK
  PROVE  /\ Instantes \subseteq Nat /\ agora \in Nat
         /\ \A s \in Slugs : Horarios[s] \subseteq Nat /\ RunsDe(s) \subseteq Instantes
         /\ \A p \in Processos : momento[p] \in Nat /\ alvo[p] \in Slugs
                                 /\ restantes[p] \subseteq Instantes
         /\ \A s \in Agendados : s \in Slugs /\ agenda[s] \in Linha /\ agenda[s].ultimo \in Nat
<1>1. Instantes \subseteq Nat
  BY LimitesDoTempo DEF Instantes
<1>2. \A s \in Slugs : Horarios[s] \subseteq Nat
  BY HorariosSaoInstantes
<1>3. \A p \in Processos : momento[p] \in Nat
  BY LimitesDoTempo DEF TypeOK
<1>4. \A s \in Agendados : s \in Slugs /\ agenda[s] \in Linha /\ agenda[s].ultimo \in Nat
  BY DEF TypeOK, Agendados, Linha
<1> QED
  BY <1>1, <1>2, <1>3, <1>4 DEF TypeOK, RunsDe

\* A step that creates no run of a schedule, moves no marker and starts no loop
Calmo ==
  /\ agenda' = agenda /\ plantado' = plantado
  /\ \A s \in Slugs : RunsDe(s)' = RunsDe(s)
  /\ agora <= agora'
  /\ \A p \in Schedulers :
       /\ lidas'[p] \subseteq lidas[p] /\ momento'[p] = momento[p]
       /\ pc'[p] # "livre" => /\ pc[p] # "livre" /\ alvo'[p] = alvo[p]
                              /\ restantes'[p] = restantes[p]

\* It disturbs nothing
LEMMA CalmoServe ==
  ASSUME TypeOK, TypeOK', Sequencia, Calmo
  PROVE  Sequencia'
<1>n. /\ Instantes \subseteq Nat /\ agora \in Nat /\ agora' \in Nat
      /\ \A s \in Slugs : RunsDe(s) \subseteq Nat
      /\ \A p \in Schedulers : momento[p] \in Nat /\ alvo[p] \in Slugs
  <2>1. agora' \in Nat
    BY LimitesDoTempo DEF TypeOK, Instantes
  <2> QED
    BY <2>1, InstantesSaoNaturais DEF Processos
<1>1. Relogio'
  BY <1>n DEF Calmo, Sequencia, Relogio
<1>2. \A s \in Slugs, u \in Nat : Alinhado(s, u) => Alinhado(s, u)'
  BY DEF Calmo, Alinhado
<1>3. Linhas'
  <2>1. \A p \in Schedulers : \A l \in lidas[p] : l[1] \in Slugs /\ l[2].ultimo \in Nat
    BY DEF TypeOK, Processos, Linha
  <2>2. Agendados' = Agendados
    BY DEF Agendados, Calmo
  <2> QED
    BY <1>2, <2>1, <2>2 DEF Calmo, Sequencia, Linhas
<1>4. Marcador'
  BY <1>2, InstantesSaoNaturais DEF Calmo, Sequencia, Marcador, Agendados
<1>5. Percurso'
  BY <1>n DEF Calmo, Sequencia, Percurso, Agendados
<1>6. MarcadorSemLacuna'
  <2> SUFFICES ASSUME NEW s \in Agendados, agenda[s].catchup,
                      NEW h \in Disparos(s, plantado[s], agenda[s].ultimo)
               PROVE  <<s, "schedule", h>> \in existe'
    BY DEF MarcadorSemLacuna, Calmo, Agendados
  <2>1. <<s, "schedule", h>> \in existe /\ s \in Slugs
    BY DEF Sequencia, MarcadorSemLacuna, Agendados
  <2>2. h \in Instantes
    BY <2>1, ChavesDosRuns DEF TypeOK
  <2>3. h \in RunsDe(s)
    BY <2>1, <2>2 DEF RunsDe
  <2> QED
    BY <2>1, <2>3 DEF Calmo, RunsDe
<1> QED
  BY <1>1, <1>3, <1>4, <1>5, <1>6 DEF Sequencia

\* A pause or a publication: a row that still catches up kept its marker
LEMMA IntervirServe ==
  ASSUME TypeOK, TypeOK', Sequencia, Intervir
  PROVE  Sequencia'
<1>1. /\ UNCHANGED <<existe, agora, pc, lidas, momento, alvo, restantes>>
      /\ \A s \in Slugs : RunsDe(s)' = RunsDe(s)
      /\ \A s \in Slugs, u \in Nat : Alinhado(s, u)' <=> Alinhado(s, u)
  BY DEF Intervir, local, RunsDe, Alinhado
<1>2. ASSUME NEW s \in Agendados', agenda'[s].catchup
      PROVE  /\ s \in Agendados /\ agenda[s].catchup
             /\ agenda'[s].ultimo = agenda[s].ultimo /\ plantado'[s] = plantado[s]
  <2>0. s \in Slugs
    BY DEF Agendados
  <2>1. PICK t \in Slugs :
          \/ Alternar(t) /\ UNCHANGED <<workflows, plantado>>
          \/ \E p \in Projetos, comCron \in BOOLEAN :
               /\ Publicar(p, t, comCron)
               /\ plantado' = IF comCron /\ t \in Agendados THEN plantado
                              ELSE [plantado EXCEPT ![t] = MaxTempo]
    BY DEF Intervir
  <2>2. CASE Alternar(t) /\ UNCHANGED plantado
    BY <1>2, <2>0, <2>2 DEF Alternar, Agendados, TypeOK, Linha
  <2>3. ASSUME NEW p \in Projetos, NEW c \in BOOLEAN, Publicar(p, t, c),
               plantado' = IF c /\ t \in Agendados THEN plantado
                           ELSE [plantado EXCEPT ![t] = MaxTempo]
        PROVE  /\ s \in Agendados /\ agenda[s].catchup
               /\ agenda'[s].ultimo = agenda[s].ultimo /\ plantado'[s] = plantado[s]
    <3>1. s # t
      <4> SUFFICES ASSUME s = t PROVE FALSE
        OBVIOUS
      <4>1. agenda[t] \in Linha \cup {SemAgenda} /\ agenda'[t] # SemAgenda
        BY DEF TypeOK, Agendados
      <4>2. \/ agenda'[t] = SemAgenda
            \/ agenda'[t] = [ativo |-> TRUE, catchup |-> FALSE, ultimo |-> Nulo]
            \/ agenda[t] \in Linha /\ agenda'[t] = [agenda[t] EXCEPT !.catchup = FALSE]
        BY <2>3, <4>1 DEF Publicar, TypeOK
      <4>3. agenda'[t].catchup = FALSE
        BY <4>1, <4>2 DEF Linha
      <4> QED
        BY <1>2, <4>3
    <3>2. agenda'[s] = agenda[s] /\ plantado'[s] = plantado[s]
      BY <2>0, <2>3, <3>1 DEF Publicar, TypeOK
    <3> QED
      BY <1>2, <3>2, <2>0 DEF Agendados
  <2> QED
    BY <2>1, <2>2, <2>3
<1>3. Relogio'
  BY <1>1 DEF Sequencia, Relogio
<1>4. Linhas'
  <2>1. \A p \in Schedulers : \A l \in lidas[p] : l[1] \in Slugs /\ l[2].ultimo \in Nat
    BY DEF TypeOK, Processos, Linha
  <2> QED
    BY <1>1, <1>2, <2>1 DEF Sequencia, Linhas
<1>5. Marcador'
  <2> SUFFICES ASSUME NEW s \in Agendados', agenda'[s].catchup, agenda'[s].ultimo # Nulo
               PROVE  Alinhado(s, agenda[s].ultimo)'
    BY DEF Marcador
  <2>1. s \in Slugs
    BY DEF Agendados
  <2> QED
    BY <1>1, <1>2, <2>1, InstantesSaoNaturais DEF Sequencia, Marcador, Alinhado
<1>6. Percurso'
  BY <1>1, <1>2, InstantesSaoNaturais DEF Sequencia, Percurso, Processos
<1>7. MarcadorSemLacuna'
  BY <1>1, <1>2 DEF Sequencia, MarcadorSemLacuna
<1> QED
  BY <1>3, <1>4, <1>5, <1>6, <1>7 DEF Sequencia

\* A cycle begins: its lines are the rows
LEMMA IniciarServe ==
  ASSUME TypeOK, Sequencia, UmLoop, NEW p \in Processos, IniciarCiclo(p)
  PROVE  Sequencia'
<1>1. /\ p \in Schedulers /\ pc[p] = "livre" /\ \A q \in Schedulers : q = p
      /\ lidas'[p] = {<<s, agenda[s]>> : s \in Ativas} /\ momento'[p] = agora
      /\ UNCHANGED <<agenda, existe, plantado, agora, pc, alvo, restantes>>
  BY DEF IniciarCiclo, UmLoop, TypeOK, tabelas, hist
<1>2. /\ \A s \in Slugs : RunsDe(s)' = RunsDe(s)
      /\ \A s \in Slugs, u \in Nat : Alinhado(s, u)' <=> Alinhado(s, u)
  BY <1>1 DEF RunsDe, Alinhado
<1>3. Relogio'
  BY <1>1, <1>2, InstantesSaoNaturais DEF Sequencia, Relogio
<1>4. Linhas'
  <2>1. \A l \in lidas'[p] : l[1] \in Agendados /\ l[1] \in Slugs /\ l[2] = agenda[l[1]]
                            /\ l = <<l[1], l[2]>> /\ l[2].ultimo \in Nat
    BY <1>1, InstantesSaoNaturais DEF Ativas
  <2>2. \A l \in lidas'[p] : l[2].catchup /\ l[2].ultimo # Nulo => Alinhado(l[1], l[2].ultimo)'
    BY <1>2, <2>1 DEF Sequencia, Marcador
  <2>3. \A l, m \in lidas'[p] : l[1] = m[1] => l = m
    BY <2>1
  <2> QED
    BY <1>1, <2>1, <2>2, <2>3 DEF Linhas
<1>5. Marcador' /\ MarcadorSemLacuna'
  BY <1>1, <1>2, InstantesSaoNaturais DEF Sequencia, Marcador, MarcadorSemLacuna, Agendados
<1>6. Percurso'
  BY <1>1 DEF Percurso
<1> QED
  BY <1>3, <1>4, <1>5, <1>6 DEF Sequencia

\* A line is evaluated: the marker is planted, or the loop starts on its slots
LEMMA AvaliarOrdena ==
  ASSUME TypeOK, TypeOK', Trabalho, Sequencia, UmLoop, NEW p \in Processos, AvaliarAgenda(p)
  PROVE  Sequencia'
<1>1. PICK l \in lidas[p] :
        LET s == l[1]
            slots == Slots(s, l[2], momento[p], MaxPorCiclo)
        IN
        /\ lidas' = [lidas EXCEPT ![p] = @ \ {l}]
        /\ \/ /\ l[2].ultimo = Nulo
              /\ AvancarSlot(s, momento[p]) \/ (BancoFalha /\ UNCHANGED agenda)
              /\ plantado' = IF agenda' # agenda /\ agenda[s].ultimo = Nulo
                               THEN [plantado EXCEPT ![s] = momento[p]] ELSE plantado
              /\ UNCHANGED <<pc, alvo, gatilho, restantes>>
           \/ /\ l[2].ultimo # Nulo
              /\ defeito[s] = "cron" \/ slots = {}
              /\ UNCHANGED <<agenda, pc, alvo, gatilho, restantes, plantado>>
           \/ /\ l[2].ultimo # Nulo
              /\ defeito[s] # "cron" /\ slots # {}
              /\ alvo' = [alvo EXCEPT ![p] = s]
              /\ gatilho' = [gatilho EXCEPT ![p] = "schedule"]
              /\ restantes' = [restantes EXCEPT ![p] = slots]
              /\ pc' = [pc EXCEPT ![p] = "definicao"]
              /\ UNCHANGED <<agenda, plantado>>
  BY DEF AvaliarAgenda
<1> DEFINE s == l[1]
           u == l[2].ultimo
           t == momento[p]
           slots == Slots(s, l[2], t, MaxPorCiclo)
<1>2. /\ p \in Schedulers /\ \A q \in Schedulers : q = p
      /\ pc[p] = "livre" /\ UNCHANGED <<existe, momento, agora>>
      /\ lidas'[p] = lidas[p] \ {l}
  BY <1>1 DEF AvaliarAgenda, UmLoop, TypeOK
<1>3. /\ s \in Slugs /\ l[2] \in Linha /\ u \in Nat /\ t \in Instantes /\ t \in Nat
      /\ t \in 0..MaxTempo
  BY <1>1, AvaliarServe, InstantesSaoNaturais DEF Linha, TypeOK
<1>4. /\ \A r \in Slugs : RunsDe(r)' = RunsDe(r)
      /\ \A r \in Slugs, v \in Nat : Alinhado(r, v)' <=> Alinhado(r, v)
  BY <1>2 DEF RunsDe, Alinhado
<1>5. \A m \in lidas'[p] : m \in lidas[p] /\ m[1] # s /\ m[1] \in Slugs /\ m[2].ultimo \in Nat
  BY <1>2, <1>1 DEF Sequencia, Linhas, TypeOK, Linha
<1>6. \A h \in RunsDe(s) : h <= t /\ h \in Horarios[s]
  BY <1>2, <1>1, <1>3 DEF Sequencia, Relogio
<1>7. s \in Agendados /\ agenda[s].catchup => l[2].catchup /\ u = agenda[s].ultimo
  BY <1>2, <1>1 DEF Sequencia, Linhas
<1>8. l[2].catchup /\ u # Nulo => Alinhado(s, u)
  BY <1>2, <1>1 DEF Sequencia, Linhas
<1>9. /\ u = Nulo /\ UNCHANGED <<pc, alvo, restantes>> =>
           \/ agenda' = agenda /\ plantado' = plantado
           \/ /\ s \in Agendados /\ agenda' = [agenda EXCEPT ![s] = [agenda[s] EXCEPT !.ultimo = t]]
              /\ [agenda[s] EXCEPT !.ultimo = t] \in Linha
              /\ plantado' = IF agenda[s].ultimo = Nulo THEN [plantado EXCEPT ![s] = t] ELSE plantado
  <2> SUFFICES ASSUME u = Nulo
               PROVE  \/ agenda' = agenda /\ plantado' = plantado
                      \/ /\ s \in Agendados /\ agenda' = [agenda EXCEPT ![s] = [agenda[s] EXCEPT !.ultimo = t]]
                         /\ [agenda[s] EXCEPT !.ultimo = t] \in Linha
                         /\ plantado' = IF agenda[s].ultimo = Nulo THEN [plantado EXCEPT ![s] = t] ELSE plantado
    OBVIOUS
  <2>1. /\ AvancarSlot(s, t) \/ UNCHANGED agenda
        /\ plantado' = IF agenda' # agenda /\ agenda[s].ultimo = Nulo
                         THEN [plantado EXCEPT ![s] = t] ELSE plantado
    BY <1>1
  <2>2. CASE agenda' = agenda
    BY <2>1, <2>2
  <2>3. CASE agenda' # agenda
    BY <2>1, <2>3, <1>3, AvancoServe
  <2> QED
    BY <2>2, <2>3
<1> HIDE DEF s, u, t, slots
<1>10. CASE UNCHANGED <<agenda, plantado, pc, alvo, restantes>>
  <2>1. Calmo
    BY <1>2, <1>4, <1>5, <1>10, InstantesSaoNaturais DEF Calmo
  <2> QED
    BY <2>1, CalmoServe
<1>11. CASE /\ u = Nulo /\ UNCHANGED <<pc, alvo, restantes>>
            /\ s \in Agendados /\ agenda' = [agenda EXCEPT ![s] = [agenda[s] EXCEPT !.ultimo = t]]
            /\ [agenda[s] EXCEPT !.ultimo = t] \in Linha
            /\ plantado' = IF agenda[s].ultimo = Nulo THEN [plantado EXCEPT ![s] = t] ELSE plantado
  <2>1. /\ Agendados' = Agendados /\ agenda[s] \in Linha
        /\ agenda'[s].catchup = agenda[s].catchup /\ agenda'[s].ultimo = t
        /\ \A r \in Slugs : r # s => agenda'[r] = agenda[r] /\ plantado'[r] = plantado[r]
        /\ plantado'[s] = IF agenda[s].ultimo = Nulo THEN t ELSE plantado[s]
    <3>1. agenda[s] \in Linha
      BY <1>11, InstantesSaoNaturais
    <3>2. /\ agenda'[s] = [agenda[s] EXCEPT !.ultimo = t]
          /\ \A r \in Slugs : r # s => agenda'[r] = agenda[r]
      BY <1>3, <1>11 DEF TypeOK
    <3>3. agenda'[s].catchup = agenda[s].catchup /\ agenda'[s].ultimo = t
      BY <3>1, <3>2 DEF Linha
    <3>4. /\ \A r \in Slugs : r # s => plantado'[r] = plantado[r]
          /\ plantado'[s] = IF agenda[s].ultimo = Nulo THEN t ELSE plantado[s]
      BY <1>3, <1>11 DEF TypeOK
    <3>5. agenda'[s] # SemAgenda /\ agenda[s] # SemAgenda
      BY <1>11, <3>1, <3>2, SemAgendaNaoELinha
    <3>6. Agendados' = Agendados
      BY <3>2, <3>5 DEF Agendados
    <3> QED
      BY <3>1, <3>2, <3>3, <3>4, <3>6
  <2>2. Relogio'
    BY <1>2, <1>4, <1>11, <1>1 DEF Sequencia, Relogio
  <2>3. Linhas'
    <3>1. \A m \in lidas'[p] : agenda'[m[1]] = agenda[m[1]]
      BY <1>5, <2>1
    <3>2. \A m \in lidas'[p] : m[2].catchup /\ m[2].ultimo # Nulo => Alinhado(m[1], m[2].ultimo)'
      BY <1>2, <1>4, <1>5 DEF Sequencia, Linhas
    <3>3. \A m \in lidas'[p] : m[1] \in Agendados' /\ agenda'[m[1]].catchup =>
                               m[2].catchup /\ m[2].ultimo = agenda'[m[1]].ultimo
      BY <1>2, <1>5, <2>1, <3>1 DEF Sequencia, Linhas
    <3>4. \A m, n \in lidas'[p] : m[1] = n[1] => m = n
      BY <1>2, <1>5 DEF Sequencia, Linhas
    <3>5. pc'[p] = "livre"
      BY <1>2, <1>11
    <3> QED
      BY <1>2, <3>2, <3>3, <3>4, <3>5 DEF Linhas
  <2>4. Marcador'
    <3> SUFFICES ASSUME NEW r \in Agendados, agenda'[r].catchup, agenda'[r].ultimo # Nulo
                 PROVE  Alinhado(r, agenda[r].ultimo)'
      BY <2>1 DEF Marcador
    <3>1. CASE r = s
      <4>1. \A h \in RunsDe(s)' : h <= agenda'[s].ultimo
        BY <1>3, <1>4, <1>6, <2>1
      <4> QED
        BY <3>1, <4>1 DEF Alinhado
    <3>2. CASE r # s
      BY <1>4, <2>1, <3>2, InstantesSaoNaturais DEF Sequencia, Marcador, Alinhado
    <3> QED
      BY <3>1, <3>2
  <2>5. Percurso'
    BY <1>2, <1>11 DEF Percurso
  <2>6. MarcadorSemLacuna'
    <3> SUFFICES ASSUME NEW r \in Agendados, agenda'[r].catchup,
                        NEW h \in Disparos(r, plantado'[r], agenda'[r].ultimo)
                 PROVE  <<r, "schedule", h>> \in existe
      BY <1>2, <2>1 DEF MarcadorSemLacuna
    <3>1. CASE r = s
      <4>1. plantado'[s] = t
        BY <1>7, <1>11, <2>1, <3>1
      <4>2. h \in Nat /\ t < h /\ h <= t
        BY <4>1, <2>1, <3>1, <1>3, InstantesSaoNaturais DEF Disparos
      <4> QED
        BY <4>2, <1>3
    <3>2. CASE r # s
      BY <2>1, <3>2, InstantesSaoNaturais DEF Sequencia, MarcadorSemLacuna
    <3> QED
      BY <3>1, <3>2
  <2> QED
    BY <2>2, <2>3, <2>4, <2>5, <2>6 DEF Sequencia
<1>12. CASE /\ u # Nulo /\ UNCHANGED <<agenda, plantado>>
            /\ alvo' = [alvo EXCEPT ![p] = s]
            /\ restantes' = [restantes EXCEPT ![p] = slots]
            /\ pc' = [pc EXCEPT ![p] = "definicao"]
  <2>1. alvo'[p] = s /\ restantes'[p] = slots
    BY <1>2, <1>12 DEF TypeOK
  <2>2. /\ slots \subseteq Disparos(s, u, t)
        /\ l[2].catchup => \A h \in slots, k \in Disparos(s, u, t) : k < h => k \in slots
        /\ ~l[2].catchup => \A h \in slots, k \in Disparos(s, u, t) : k <= h
    BY <1>3, <1>12, SlotsServem DEF s, u, t, slots
  <2>3. \A h \in slots : h \in Horarios[s] /\ h \in Nat /\ u < h /\ h <= t
    BY <1>3, <2>2, InstantesSaoNaturais DEF Disparos
  <2>4. \A k \in RunsDe(s) : k \in Nat /\ k \in Horarios[s] /\ k <= t
    BY <1>3, <1>6, InstantesSaoNaturais
  <2>5. Relogio'
    BY <1>2, <1>4, <2>1, <2>3, <1>1 DEF Sequencia, Relogio, t
  <2>6. Linhas'
    BY <1>2, <1>4, <1>5, <1>12, <2>1 DEF Sequencia, Linhas, Agendados
  <2>7. Marcador' /\ MarcadorSemLacuna'
    BY <1>2, <1>4, <1>12, InstantesSaoNaturais DEF Sequencia, Marcador, MarcadorSemLacuna, Agendados
  <2>8. ASSUME NEW h \in slots, NEW k \in RunsDe(s) PROVE k <= h
    <3>1. CASE k <= u
      BY <3>1, <2>3, <2>4, <1>3
    <3>2. CASE u < k /\ ~l[2].catchup
      <4>1. k \in Disparos(s, u, t)
        BY <3>2, <2>4 DEF Disparos
      <4> QED
        BY <4>1, <3>2, <2>2
    <3>3. CASE u < k /\ l[2].catchup
      <4>1. Alinhado(s, u)
        BY <1>8, <1>12, <3>3
      <4>2. ~(u < h /\ h < k)
        BY <4>1, <2>3, <2>4, <3>3, <1>3 DEF Alinhado
      <4> QED
        BY <4>2, <2>3, <2>4, <1>3
    <3> QED
      BY <3>1, <3>2, <3>3, <2>4, <1>3
  <2>9. ASSUME s \in Agendados, agenda[s].catchup, NEW h \in slots, NEW k \in Horarios[s],
               agenda[s].ultimo < k, k < h
        PROVE  k \in slots
    <3>1. l[2].catchup /\ u < k
      BY <1>7, <2>9
    <3>2. k \in Nat /\ k <= t
      BY <2>3, <2>9, <1>3, InstantesSaoNaturais
    <3>3. k \in Disparos(s, u, t)
      BY <3>1, <3>2 DEF Disparos
    <3> QED
      BY <2>2, <2>9, <3>1, <3>3
  <2>10. Percurso'
    BY <1>2, <1>3, <1>4, <1>12, <2>1, <2>8, <2>9 DEF Percurso, Agendados
  <2> QED
    BY <2>5, <2>6, <2>7, <2>10 DEF Sequencia
<1> QED
  <2>1. CASE u # Nulo
    BY <1>1, <1>10, <1>12, <2>1 DEF s, u, t, slots
  <2>2. CASE u = Nulo
    <3>1. UNCHANGED <<pc, alvo, restantes>>
      BY <1>1, <2>2 DEF u
    <3> QED
      BY <1>9, <1>10, <1>11, <2>2, <3>1
  <2> QED
    BY <2>1, <2>2

\* A loop at its first slot has no run of the schedule behind it, and no slot to take
\* between the marker and it
LEMMA PrimeiroSlot ==
  ASSUME TypeOK, Trabalho, Sequencia, NEW p \in Schedulers,
         pc[p] \in {"criar", "transicionar", "enfileirar", "avancar"}
  PROVE  /\ alvo[p] \in Slugs /\ gatilho[p] = "schedule"
         /\ Slot(p) \in Instantes /\ Slot(p) \in Nat /\ Slot(p) \in restantes[p]
         /\ Run(p) = <<alvo[p], "schedule", Slot(p)>>
         /\ Slot(p) \in Horarios[alvo[p]] /\ Slot(p) <= momento[p]
         /\ \A h \in restantes[p] : h \in Nat /\ Slot(p) <= h
         /\ \A k \in RunsDe(alvo[p]) : k <= Slot(p)
         /\ alvo[p] \in Agendados /\ agenda[alvo[p]].catchup =>
              \A k \in Horarios[alvo[p]] : ~(agenda[alvo[p]].ultimo < k /\ k < Slot(p))
<1>1. p \in Processos /\ restantes[p] # {} /\ gatilho[p] = "schedule" /\ alvo[p] \in Slugs
  BY DEF Processos, Trabalho, TrabalhoDe, TypeOK
<1>2. /\ Slot(p) \in Instantes /\ Slot(p) \in restantes[p]
      /\ \A h \in restantes[p] : Slot(p) <= h
      /\ Run(p) = <<alvo[p], "schedule", Slot(p)>>
  BY <1>1, RunServe
<1>3. /\ Slot(p) \in Nat /\ \A h \in restantes[p] : h \in Nat
      /\ \A h \in Horarios[alvo[p]] : h \in Nat
  BY <1>1, <1>2, InstantesSaoNaturais
<1>4. Slot(p) \in Horarios[alvo[p]] /\ Slot(p) <= momento[p]
  BY <1>2 DEF Sequencia, Relogio
<1>5. \A k \in RunsDe(alvo[p]) : k <= Slot(p)
  BY <1>2 DEF Sequencia, Percurso
<1>6. ASSUME alvo[p] \in Agendados, agenda[alvo[p]].catchup, NEW k \in Horarios[alvo[p]],
             agenda[alvo[p]].ultimo < k, k < Slot(p)
      PROVE  FALSE
  <2>1. k \in restantes[p]
    BY <1>2, <1>6 DEF Sequencia, Percurso
  <2> QED
    BY <1>2, <1>3, <1>6, <2>1
<1> QED
  BY <1>1, <1>2, <1>3, <1>4, <1>5, <1>6

\* The loop creates the run of its slot
LEMMA CriarOrdena ==
  ASSUME TypeOK, TypeOK', Trabalho, Sequencia, UmLoop, NEW p \in Schedulers, pc[p] = "criar",
         existe' = existe \cup {Run(p)}, UNCHANGED <<agenda, plantado, agora, lidas, momento, alvo>>,
         pc'[p] # "livre" => restantes'[p] = restantes[p]
  PROVE  Sequencia'
<1> DEFINE s == alvo[p]
           h == Slot(p)
<1>1. /\ s \in Slugs /\ h \in Instantes /\ h \in Nat /\ Run(p) = <<s, "schedule", h>>
      /\ h \in restantes[p] /\ h \in Horarios[s] /\ h <= momento[p]
      /\ \A k \in restantes[p] : k \in Nat /\ h <= k
      /\ \A k \in RunsDe(s) : k <= h
      /\ s \in Agendados /\ agenda[s].catchup =>
           \A k \in Horarios[s] : ~(agenda[s].ultimo < k /\ k < h)
  BY PrimeiroSlot
<1>s. s' = s
  BY DEF s
<1> HIDE DEF s, h
<1>2. RunsDe(s)' = RunsDe(s) \cup {h} /\ \A r \in Slugs : r # s => RunsDe(r)' = RunsDe(r)
  <2>1. s' = s /\ UNCHANGED alvo
    BY DEF s
  <2>2. \A r \in Slugs, k \in Instantes :
          <<r, "schedule", k>> \in existe' <=> <<r, "schedule", k>> \in existe \/ (r = s /\ k = h)
    BY <1>1
  <2> QED
    BY <1>1, <2>1, <2>2 DEF RunsDe
<1>3. /\ \A q \in Schedulers : q = p
      /\ \A m \in lidas[p] : m[1] # s /\ m[1] \in Slugs /\ m[2].ultimo \in Nat
      /\ Agendados' = Agendados /\ momento[p] \in Nat /\ agora \in Nat /\ momento[p] <= agora
  <2>1. p \in Processos /\ lidas[p] \in SUBSET (Slugs \X Linha) /\ pc[p] # "livre"
    BY DEF TypeOK, Processos
  <2>2. \A m \in lidas[p] : m[1] \in Slugs /\ m[2].ultimo \in Nat
    BY <2>1 DEF Linha
  <2>3. \A m \in lidas[p] : m[1] # s
    BY <2>1 DEF Sequencia, Linhas, s
  <2>4. momento[p] \in Nat /\ agora \in Nat /\ momento[p] <= agora
    BY <2>1, InstantesSaoNaturais DEF Sequencia, Relogio
  <2>5. Agendados' = Agendados
    BY DEF Agendados
  <2> QED
    BY <2>2, <2>3, <2>4, <2>5 DEF UmLoop
<1>4. \A r \in Slugs, u \in Nat : r # s => (Alinhado(r, u)' <=> Alinhado(r, u))
  BY <1>2 DEF Alinhado
<1>5. Relogio'
  <2>1. \A r \in Slugs : \A k \in RunsDe(r)' : /\ k \in Horarios[r]
                                              /\ k <= momento[p] /\ k <= agora
    <3>1. h <= agora
      BY <1>1, <1>3
    <3>2. \A r \in Slugs : \A k \in RunsDe(r) : k \in Horarios[r] /\ k <= momento[p] /\ k <= agora
      BY <1>3 DEF Sequencia, Relogio
    <3>3. \A k \in RunsDe(s)' : k \in Horarios[s] /\ k <= momento[p] /\ k <= agora
      BY <1>1, <1>2, <3>1, <3>2
    <3>4. \A r \in Slugs : r # s => RunsDe(r)' = RunsDe(r)
      BY <1>2
    <3> QED
      BY <1>s, <3>2, <3>3, <3>4
  <2> QED
    BY <1>3, <2>1 DEF Sequencia, Relogio
<1>6. Linhas'
  BY <1>3, <1>4 DEF Sequencia, Linhas
<1>7. Marcador'
  <2> SUFFICES ASSUME NEW r \in Agendados, agenda[r].catchup, agenda[r].ultimo # Nulo
               PROVE  Alinhado(r, agenda[r].ultimo)'
    BY <1>3 DEF Marcador
  <2>1. Alinhado(r, agenda[r].ultimo) /\ r \in Slugs /\ agenda[r].ultimo \in Nat
    BY InstantesSaoNaturais DEF Sequencia, Marcador
  <2>2. CASE r # s
    BY <1>4, <2>1, <2>2 DEF Alinhado
  <2>3. CASE r = s
    <3>1. \A k \in RunsDe(s) : k <= agenda[s].ultimo
                             \/ \A j \in Horarios[s] : ~(agenda[s].ultimo < j /\ j < k)
      BY <2>1, <2>3 DEF Alinhado
    <3>2. \A j \in Horarios[s] : ~(agenda[s].ultimo < j /\ j < h)
      BY <1>1, <2>3
    <3>3. \A k \in RunsDe(s)' : k <= agenda[s].ultimo
                              \/ \A j \in Horarios[s] : ~(agenda[s].ultimo < j /\ j < k)
      BY <1>2, <3>1, <3>2
    <3> QED
      BY <1>s, <2>3, <3>3 DEF Alinhado
  <2> QED
    BY <2>2, <2>3
<1>8. Percurso'
  <2>1. \A k \in restantes[p], j \in RunsDe(s)' : j <= k
    BY <1>1, <1>2, <1>3 DEF Sequencia, Percurso, s
  <2> QED
    BY <1>3, <2>1 DEF Sequencia, Percurso, s
<1>9. MarcadorSemLacuna'
  BY <1>3 DEF Sequencia, MarcadorSemLacuna
<1> QED
  BY <1>5, <1>6, <1>7, <1>8, <1>9 DEF Sequencia

\* The loop moves the marker to its slot, whose run exists, and takes it off
LEMMA AvancarOrdena ==
  ASSUME TypeOK, TypeOK', Trabalho, Sequencia, UmLoop, NEW p \in Schedulers, pc[p] = "avancar",
         AvancarSlot(alvo[p], Slot(p)),
         UNCHANGED <<existe, plantado, agora, lidas, momento, alvo>>,
         pc'[p] # "livre" => restantes'[p] = restantes[p] \ {Slot(p)}
  PROVE  Sequencia'
<1> DEFINE s == alvo[p]
           h == Slot(p)
<1>1. /\ s \in Slugs /\ h \in Instantes /\ h \in Nat /\ Run(p) = <<s, "schedule", h>>
      /\ \A k \in restantes[p] : k \in Nat /\ h <= k
      /\ \A k \in RunsDe(s) : k <= h
      /\ s \in Agendados /\ agenda[s].catchup =>
           \A k \in Horarios[s] : ~(agenda[s].ultimo < k /\ k < h)
  BY PrimeiroSlot
<1>2. <<s, "schedule", h>> \in existe
  BY <1>1 DEF Trabalho, TrabalhoDe, Processos
<1>3. \/ agenda' = agenda
      \/ /\ s \in Agendados /\ agenda[s].ultimo < h
         /\ agenda' = [agenda EXCEPT ![s] = [agenda[s] EXCEPT !.ultimo = h]]
         /\ [agenda[s] EXCEPT !.ultimo = h] \in Linha
  BY <1>1, AvancoServe
<1>4. s' = s
  BY DEF s
<1> HIDE DEF s, h
<1>5. /\ Agendados' = Agendados
      /\ \A r \in Agendados : /\ agenda'[r].catchup = agenda[r].catchup
                             /\ (agenda'[r].ultimo = agenda[r].ultimo \/ (r = s /\ agenda'[r].ultimo = h))
                             /\ agenda[r].ultimo \in Nat /\ r \in Slugs
      /\ \A r \in Slugs : r # s => agenda'[r] = agenda[r]
      /\ s \in Agendados => agenda'[s].ultimo \in Nat /\ agenda[s].ultimo <= agenda'[s].ultimo
                            /\ h <= agenda'[s].ultimo
  <2>n. \A r \in Agendados : agenda[r].ultimo \in Nat /\ r \in Slugs /\ agenda[r] \in Linha
    BY InstantesSaoNaturais
  <2>1. CASE agenda' = agenda
    <3>1. s \in Agendados => h <= agenda[s].ultimo
      <4> SUFFICES ASSUME s \in Agendados, agenda[s].ultimo < h PROVE FALSE
        BY <2>n, <1>1
      <4>1. agenda' = [agenda EXCEPT ![s].ultimo = h]
        BY DEF AvancarSlot, s, h
      <4>2. agenda'[s].ultimo = h
        BY <4>1, <1>1, <2>n DEF TypeOK, Linha
      <4> QED
        BY <4>2, <2>1, <2>n, <1>1
    <3> QED
      BY <2>n, <2>1, <3>1 DEF Agendados
  <2>2. CASE /\ s \in Agendados /\ agenda[s].ultimo < h
             /\ agenda' = [agenda EXCEPT ![s] = [agenda[s] EXCEPT !.ultimo = h]]
             /\ [agenda[s] EXCEPT !.ultimo = h] \in Linha
    <3>1. /\ agenda'[s] = [agenda[s] EXCEPT !.ultimo = h] /\ agenda[s] \in Linha
          /\ \A r \in Slugs : r # s => agenda'[r] = agenda[r]
      BY <1>1, <2>2, <2>n DEF TypeOK
    <3>2. agenda'[s].catchup = agenda[s].catchup /\ agenda'[s].ultimo = h
      BY <3>1 DEF Linha
    <3>3. agenda'[s] # SemAgenda /\ agenda[s] # SemAgenda
      BY <2>2, <3>1, SemAgendaNaoELinha
    <3>4. Agendados' = Agendados
      BY <3>1, <3>3 DEF Agendados
    <3> QED
      BY <1>1, <2>2, <2>n, <3>1, <3>2, <3>4
  <2> QED
    BY <1>3, <2>1, <2>2
<1>6. /\ \A r \in Slugs : RunsDe(r)' = RunsDe(r)
      /\ \A r \in Slugs, u \in Nat : Alinhado(r, u)' <=> Alinhado(r, u)
  BY DEF RunsDe, Alinhado
<1>7. /\ \A q \in Schedulers : q = p
      /\ \A m \in lidas[p] : m[1] # s /\ m[1] \in Slugs /\ m[2].ultimo \in Nat
  <2>1. lidas[p] \in SUBSET (Slugs \X Linha) /\ pc[p] # "livre"
    BY DEF TypeOK, Processos
  <2>2. \A m \in lidas[p] : m[1] \in Slugs /\ m[2].ultimo \in Nat
    BY <2>1 DEF Linha
  <2>3. \A m \in lidas[p] : m[1] # s
    BY <2>1 DEF Sequencia, Linhas, s
  <2> QED
    BY <2>2, <2>3 DEF UmLoop
<1>8. Relogio'
  BY <1>6, <1>7 DEF Sequencia, Relogio
<1>9. Linhas'
  BY <1>5, <1>6, <1>7 DEF Sequencia, Linhas
<1>10. Marcador'
  <2> SUFFICES ASSUME NEW r \in Agendados, agenda'[r].catchup, agenda'[r].ultimo # Nulo
               PROVE  Alinhado(r, agenda[r].ultimo)'
    BY <1>5 DEF Marcador
  <2>1. CASE agenda'[r].ultimo = agenda[r].ultimo
    BY <1>5, <1>6, <2>1 DEF Sequencia, Marcador, Alinhado
  <2>2. CASE r = s /\ agenda'[r].ultimo = h
    BY <1>1, <1>6, <2>2 DEF Alinhado
  <2> QED
    BY <1>5, <2>1, <2>2
<1>11. Percurso'
  <2> SUFFICES ASSUME pc'[p] # "livre"
               PROVE  /\ \A j \in restantes'[p], k \in RunsDe(s) : k <= j
                      /\ s \in Agendados /\ agenda'[s].catchup =>
                           \A j \in restantes'[p], k \in Horarios[s] :
                             agenda'[s].ultimo < k /\ k < j => k \in restantes'[p]
    BY <1>1, <1>5, <1>6, <1>7 DEF Percurso, s
  <2>1. restantes'[p] = restantes[p] \ {h}
    BY DEF h
  <2>2. \A j \in restantes[p], k \in RunsDe(s) : k <= j
    BY DEF Sequencia, Percurso, s
  <2>3. s \in Agendados /\ agenda[s].catchup =>
          \A j \in restantes[p], k \in Horarios[s] : agenda[s].ultimo < k /\ k < j => k \in restantes[p]
    BY DEF Sequencia, Percurso, s
  <2>4. \A k \in Horarios[s] : k \in Nat
    BY <1>1, InstantesSaoNaturais
  <2>5. ASSUME s \in Agendados, agenda'[s].catchup, NEW j \in restantes'[p], NEW k \in Horarios[s],
               agenda'[s].ultimo < k, k < j
        PROVE  k \in restantes'[p]
    <3>1. agenda[s].ultimo < k /\ k # h
      BY <1>1, <1>5, <2>4, <2>5
    <3> QED
      BY <1>5, <2>1, <2>3, <2>5, <3>1
  <2> QED
    BY <2>1, <2>2, <2>5
<1>12. MarcadorSemLacuna'
  <2> SUFFICES ASSUME NEW r \in Agendados, agenda'[r].catchup,
                      NEW k \in Disparos(r, plantado[r], agenda'[r].ultimo)
               PROVE  <<r, "schedule", k>> \in existe
    BY <1>5 DEF MarcadorSemLacuna
  <2>1. k \in Nat /\ k \in Horarios[r] /\ plantado[r] < k /\ k <= agenda'[r].ultimo
    BY <1>5, InstantesSaoNaturais DEF Disparos
  <2>2. CASE k <= agenda[r].ultimo
    <3>1. k \in Disparos(r, plantado[r], agenda[r].ultimo)
      BY <2>1, <2>2 DEF Disparos
    <3> QED
      BY <1>5, <3>1 DEF Sequencia, MarcadorSemLacuna
  <2>3. CASE agenda[r].ultimo < k
    <3>1. r = s /\ k <= h
      BY <1>5, <2>1, <2>3
    <3>2. k = h
      BY <1>1, <1>5, <2>1, <2>3, <3>1
    <3> QED
      BY <1>2, <3>1, <3>2
  <2> QED
    BY <1>5, <2>1, <2>2, <2>3
<1> QED
  BY <1>8, <1>9, <1>10, <1>11, <1>12 DEF Sequencia

\* A statement of a process that is at work
LEMMA AvancarTodoOrdena ==
  ASSUME Base, TypeOK', Sequencia, UmLoop, NEW p \in Processos, Avancar(p)
  PROVE  Sequencia'
<1>1. /\ TypeOK /\ Trabalho /\ TrabalhoDe(p) /\ pc[p] # "livre"
      /\ UNCHANGED <<agora, lidas, momento, alvo, gatilho, plantado>>
  BY DEF Base, Trabalho, Avancar, LerDefinicao, Criar, MarcarQueued, Enfileirar, AvancarMarcador
<1>2. agora \in Nat
  BY <1>1, InstantesSaoNaturais
<1>3. ASSUME UNCHANGED agenda, \A s \in Slugs : RunsDe(s)' = RunsDe(s),
             p \notin Schedulers \/ pc'[p] = "livre" \/ UNCHANGED restantes,
             \E v \in Pontos : pc' = [pc EXCEPT ![p] = v],
             \E R : restantes' = [restantes EXCEPT ![p] = R] \/ UNCHANGED restantes
      PROVE  Sequencia'
  <2>1. \A q \in Schedulers : pc'[q] # "livre" => pc[q] # "livre" /\ restantes'[q] = restantes[q]
    BY <1>1, <1>3 DEF TypeOK, Processos
  <2>2. Calmo
    BY <1>1, <1>2, <1>3, <2>1 DEF Calmo
  <2> QED
    BY <1>1, <2>2, CalmoServe
<1>4. UNCHANGED existe => \A s \in Slugs : RunsDe(s)' = RunsDe(s)
  BY DEF RunsDe
<1>5. \E R : restantes' = [restantes EXCEPT ![p] = R] \/ UNCHANGED restantes
  BY DEF Avancar, LerDefinicao, Criar, MarcarQueued, Enfileirar, AvancarMarcador,
     Desistir, ProximoSlot, Seguir
<1>6. \E v \in Pontos : pc' = [pc EXCEPT ![p] = v]
  BY DEF Avancar, LerDefinicao, Criar, MarcarQueued, Enfileirar, AvancarMarcador,
     Desistir, ProximoSlot, Seguir, Pontos
<1>7. Desistir(p) => pc'[p] = "livre"
  BY <1>1 DEF Desistir, TypeOK
<1>8. Seguir(p) /\ p \in Schedulers => UNCHANGED restantes
  BY DEF Seguir
<1>9. CASE LerDefinicao(p)
  BY <1>3, <1>4, <1>5, <1>6, <1>7, <1>9 DEF LerDefinicao, tabelas
<1>10. CASE MarcarQueued(p) \/ Enfileirar(p)
  BY <1>3, <1>4, <1>5, <1>6, <1>7, <1>8, <1>10 DEF MarcarQueued, Enfileirar
<1>11. CASE Criar(p)
  <2>1. /\ UNCHANGED agenda /\ (UNCHANGED existe \/ existe' = existe \cup {Run(p)})
        /\ (p \in Schedulers => pc'[p] = "livre" \/ UNCHANGED restantes) /\ pc[p] = "criar"
    BY <1>7, <1>8, <1>11 DEF Criar
  <2>2. CASE UNCHANGED existe
    BY <1>3, <1>4, <1>5, <1>6, <2>1, <2>2
  <2>3. CASE p \notin Schedulers /\ existe' = existe \cup {Run(p)}
    <3>1. Run(p) = <<alvo[p], gatilho[p], Slot(p)>> /\ gatilho[p] # "schedule"
      BY <1>1, <2>3 DEF TrabalhoDe, Run
    <3>2. \A s \in Slugs, h \in Instantes :
            <<s, "schedule", h>> \in existe' <=> <<s, "schedule", h>> \in existe
      BY <2>3, <3>1
    <3>3. \A s \in Slugs : RunsDe(s)' = RunsDe(s)
      BY <3>2 DEF RunsDe
    <3> QED
      BY <1>3, <1>5, <1>6, <2>1, <2>3, <3>3
  <2>4. CASE p \in Schedulers /\ existe' = existe \cup {Run(p)}
    <3>1. pc'[p] # "livre" => restantes'[p] = restantes[p]
      BY <2>1, <2>4
    <3> QED
      BY <1>1, <2>1, <2>4, <3>1, CriarOrdena
  <2> QED
    BY <2>1, <2>2, <2>3, <2>4
<1>12. CASE AvancarMarcador(p)
  <2>1. p \in Schedulers /\ pc[p] = "avancar" /\ UNCHANGED existe
    BY <1>1, <1>12 DEF AvancarMarcador, TrabalhoDe
  <2>2. CASE UNCHANGED agenda /\ Desistir(p)
    BY <1>3, <1>4, <1>5, <1>6, <1>7, <2>1, <2>2
  <2>3. CASE AvancarSlot(alvo[p], Slot(p)) /\ (ProximoSlot(p) \/ Desistir(p))
    <3>1. pc'[p] # "livre" => restantes'[p] = restantes[p] \ {Slot(p)}
      BY <1>1, <1>7, <2>3 DEF ProximoSlot, TypeOK
    <3> QED
      BY <1>1, <2>1, <2>3, <3>1, AvancarOrdena
  <2> QED
    BY <1>12, <2>2, <2>3 DEF AvancarMarcador
<1> QED
  BY <1>9, <1>10, <1>11, <1>12 DEF Avancar

\* Every step keeps the order
LEMMA SequenciaFica == UmLoop /\ Base /\ Sequencia /\ [Next]_vars => Sequencia'
<1> SUFFICES ASSUME UmLoop, Base, Sequencia, [Next]_vars PROVE Sequencia'
  OBVIOUS
<1>1. TypeOK /\ TypeOK' /\ Trabalho
  BY BaseFica DEF Base
<1>2. agora \in Nat
  BY <1>1, InstantesSaoNaturais
<1>3. UNCHANGED existe => \A s \in Slugs : RunsDe(s)' = RunsDe(s)
  BY DEF RunsDe
<1>4. CASE UNCHANGED vars \/ Passar
  <2>1. agora <= agora' /\ UNCHANGED <<tabelas, local, hist>>
    BY <1>2, <1>4 DEF vars, Passar, tabelas, local, hist
  <2>2. Calmo
    BY <1>3, <2>1 DEF Calmo, tabelas, local, hist
  <2> QED
    BY <1>1, <2>2, CalmoServe
<1>5. CASE Intervir
  BY <1>1, <1>5, IntervirServe
<1> SUFFICES ASSUME NEW p \in Processos,
                    \/ IniciarCiclo(p) \/ AvaliarAgenda(p) \/ Disparar(p) \/ Avancar(p) \/ Cair(p)
                    \/ \E s \in Slugs, de, ate \in Instantes : AbrirBackfill(p, s, de, ate)
             PROVE  Sequencia'
  BY <1>4, <1>5 DEF Next
<1>6. CASE IniciarCiclo(p)
  BY <1>1, <1>6, IniciarServe
<1>7. CASE AvaliarAgenda(p)
  BY <1>1, <1>7, AvaliarOrdena
<1>8. CASE Avancar(p)
  BY <1>1, <1>8, AvancarTodoOrdena
<1>9. CASE Disparar(p)
  <2>1. p \notin Schedulers
    BY <1>9, NomesDosProcessos DEF Disparar, Comando
  <2>2. Calmo
    BY <1>1, <1>2, <1>3, <1>9, <2>1 DEF Disparar, Calmo, TypeOK, Processos, tabelas, hist
  <2> QED
    BY <1>1, <2>2, CalmoServe
<1>10. ASSUME NEW s \in Slugs, NEW de \in Instantes, NEW ate \in Instantes,
              AbrirBackfill(p, s, de, ate)
       PROVE  Sequencia'
  <2>1. p \notin Schedulers
    BY <1>10, NomesDosProcessos DEF AbrirBackfill, Comando
  <2>2. Calmo
    BY <1>1, <1>2, <1>3, <1>10, <2>1 DEF AbrirBackfill, Calmo, TypeOK, Processos, tabelas, hist
  <2> QED
    BY <1>1, <2>2, CalmoServe
<1>11. CASE Cair(p)
  <2>1. Calmo
    BY <1>1, <1>2, <1>3, <1>11 DEF Cair, Calmo, TypeOK, Processos, tabelas, hist
  <2> QED
    BY <1>1, <2>1, CalmoServe
<1> QED
  BY <1>6, <1>7, <1>8, <1>9, <1>10, <1>11

\* At the start no run exists, and no marker is past the place it was planted at
LEMMA SequenciaNoInicio == Init => Sequencia
<1> SUFFICES ASSUME Init PROVE Sequencia
  OBVIOUS
<1>1. \A s : RunsDe(s) = {}
  BY DEF Init, RunsDe
<1>2. Base /\ TypeOK
  BY BaseNoInicio DEF Base
<1>3. Relogio
  BY <1>1, LimitesDoTempo DEF Init, Relogio, Processos
<1>4. Linhas /\ Percurso
  BY <1>1 DEF Init, Linhas, Percurso, Processos
<1>5. Marcador
  BY <1>1 DEF Marcador, Alinhado
<1>6. MarcadorSemLacuna
  <2> SUFFICES ASSUME NEW s \in Agendados, NEW h \in Disparos(s, plantado[s], agenda[s].ultimo)
               PROVE  FALSE
    BY DEF MarcadorSemLacuna
  <2>1. s \in Slugs /\ h \in Nat /\ plantado[s] < h /\ h <= agenda[s].ultimo /\ MaxTempo \in Nat \ {0}
    BY <1>2, InstantesSaoNaturais, LimitesDoTempo DEF Disparos
  <2>2. agenda[s].ultimo = (IF InicioComMarco THEN 1 ELSE 0)
    BY <2>1 DEF Init, Nulo
  <2>3. plantado[s] = (IF InicioComMarco THEN 1 ELSE MaxTempo)
    BY <2>1 DEF Init
  <2> QED
    BY <2>1, <2>2, <2>3
<1> QED
  BY <1>3, <1>4, <1>5, <1>6 DEF Sequencia

(***************************************************************************)
(* Into the queue                                                          *)
(***************************************************************************)

\* The slots a backfill was asked for are still to come, or have their run
Cobre(p) ==
  /\ pc[p] # "livre" /\ gatilho[p] = "backfill"
  /\ \A h \in Horarios[alvo[p]] : pedido[p][1] <= h /\ h <= pedido[p][2] =>
       h \in restantes[p] \/ <<alvo[p], "backfill", h>> \in existe
Pedidos ==
  /\ \A p \in Processos : pedido[p] # <<>> => Cobre(p)
  /\ \A c \in completos : \A h \in Horarios[c[1]] :
       c[2] <= h /\ h <= c[3] => <<c[1], "backfill", h>> \in existe

\* No run is lost on its way into the queue
NadaNoCaminho == \A r \in existe : fila[r] # "fora" \/ EmMaos(r)

\* Nothing dies and no statement fails
SemFalhas == MaxQuedas = 0 /\ ~BancoFalha

\* A run leaves the hands of a process for the queue
LEMMA CaminhoFica ==
  ASSUME SemFalhas, Base, NadaNoCaminho, [Next]_vars
  PROVE  NadaNoCaminho'
<1>1. /\ existe \subseteq existe' /\ \A r \in Runs : Entrega(r)
      /\ TypeOK /\ TypeOK' /\ \A p \in Processos : TrabalhoDe(p)
  BY EntregaServe, BaseFica DEF Base, Trabalho
<1>2. ASSUME NEW q \in Processos, NEW r, pc[q] \in {"transicionar", "enfileirar"}, Run(q) = r,
             Parado(q)
      PROVE  EmMaos(r)'
  <2>1. Run(q)' = Run(q) /\ pc'[q] = pc[q]
    BY <1>2 DEF Parado, Run, Slot
  <2> QED
    BY <1>2, <2>1 DEF EmMaos
<1>3. ASSUME \A q \in Processos : Parado(q), UNCHANGED <<existe, fila>>
      PROVE  NadaNoCaminho'
  BY <1>2, <1>3 DEF NadaNoCaminho, EmMaos
<1>4. CASE UNCHANGED vars \/ Passar \/ Intervir
  BY <1>3, <1>4 DEF vars, Passar, Intervir, tabelas, local, Parado
<1> SUFFICES ASSUME NEW p \in Processos, Passo(p) PROVE NadaNoCaminho'
  BY <1>4 DEF Next, Passo
<1>5. ASSUME UNCHANGED <<existe, fila>>, pc[p] \notin {"transicionar", "enfileirar"}
      PROVE  NadaNoCaminho'
  <2> SUFFICES ASSUME NEW r \in existe, fila[r] = "fora" PROVE EmMaos(r)'
    BY <1>5 DEF NadaNoCaminho
  <2>1. PICK q \in Processos : pc[q] \in {"transicionar", "enfileirar"} /\ Run(q) = r
    BY DEF NadaNoCaminho, EmMaos
  <2>2. Parado(q)
    BY <1>5, <2>1, OutrosParados
  <2> QED
    BY <1>2, <2>1, <2>2
<1>6. CASE ~Avancar(p)
  <2>1. ~Cair(p)
    BY <1>1 DEF SemFalhas, Cair, TypeOK
  <2>2. UNCHANGED <<existe, fila>> /\ pc[p] = "livre"
    BY <1>6, <2>1 DEF Passo, IniciarCiclo, AvaliarAgenda, Disparar, AbrirBackfill, Comando, tabelas
  <2> QED
    BY <1>5, <2>2
<1>7. CASE LerDefinicao(p)
  BY <1>5, <1>7 DEF LerDefinicao, tabelas
<1>8. CASE AvancarMarcador(p)
  BY <1>5, <1>8 DEF AvancarMarcador
<1>9. CASE Criar(p)
  <2>1. CASE UNCHANGED existe
    BY <1>5, <1>9, <2>1 DEF Criar
  <2>2. CASE existe' # existe
    <3>1. /\ existe' = existe \cup {Run(p)} /\ pc' = [pc EXCEPT ![p] = "transicionar"]
          /\ UNCHANGED <<fila, alvo, gatilho, restantes>> /\ pc[p] = "criar"
      BY <1>9, <2>2 DEF Criar, SemFalhas
    <3>2. Run(p)' = Run(p) /\ pc'[p] = "transicionar"
      BY <1>1, <3>1 DEF Run, Slot, TypeOK
    <3> SUFFICES ASSUME NEW r \in existe', fila[r] = "fora" PROVE EmMaos(r)'
      BY <3>1 DEF NadaNoCaminho
    <3>3. CASE r = Run(p)
      BY <3>2, <3>3 DEF EmMaos
    <3>4. CASE r # Run(p)
      <4>1. PICK q \in Processos : pc[q] \in {"transicionar", "enfileirar"} /\ Run(q) = r
        BY <3>1, <3>4 DEF NadaNoCaminho, EmMaos
      <4>2. Parado(q)
        BY <3>1, <4>1, OutrosParados
      <4> QED
        BY <1>2, <4>1, <4>2
    <3> QED
      BY <3>3, <3>4
  <2> QED
    BY <2>1, <2>2
<1>10. CASE MarcarQueued(p) \/ Enfileirar(p)
  <2>1. /\ UNCHANGED existe /\ Run(p) \in Runs
        /\ \A r \in Runs : r # Run(p) => fila'[r] = fila[r]
    <3>1. Run(p) \in Runs
      BY <1>1, <1>10, RunServe DEF MarcarQueued, Enfileirar, TrabalhoDe
    <3>2. CASE MarcarQueued(p)
      BY <3>1, <3>2 DEF MarcarQueued
    <3>3. CASE Enfileirar(p)
      <4>1. UNCHANGED existe /\ (Enqueue(Run(p)) \/ UNCHANGED fila)
        BY <3>3 DEF Enfileirar
      <4> QED
        BY <1>1, <3>1, <4>1 DEF Enqueue, TypeOK
    <3> QED
      BY <1>10, <3>2, <3>3
  <2>2. ASSUME NEW r \in existe, r = Run(p) PROVE fila'[r] # "fora" \/ EmMaos(r)'
    <3>1. CASE Enfileirar(p)
      <4>1. Enqueue(Run(p))
        BY <3>1 DEF Enfileirar, SemFalhas
      <4> QED
        BY <1>1, <2>1, <2>2, <4>1 DEF Enqueue, TypeOK
    <3>2. CASE MarcarQueued(p)
      <4>1. pc' = [pc EXCEPT ![p] = "enfileirar"] /\ UNCHANGED <<alvo, gatilho, restantes>>
        BY <3>2 DEF MarcarQueued, SemFalhas
      <4>2. Run(p)' = Run(p) /\ pc'[p] = "enfileirar"
        BY <1>1, <4>1 DEF Run, Slot, TypeOK
      <4> QED
        BY <2>2, <4>2 DEF EmMaos
    <3> QED
      BY <1>10, <3>1, <3>2
  <2>3. ASSUME NEW r \in existe, r # Run(p), fila'[r] = "fora" PROVE EmMaos(r)'
    <3>1. fila[r] = "fora"
      BY <1>1, <2>1, <2>3 DEF TypeOK
    <3>2. PICK q \in Processos : pc[q] \in {"transicionar", "enfileirar"} /\ Run(q) = r
      BY <3>1 DEF NadaNoCaminho, EmMaos
    <3>3. Parado(q)
      BY <2>3, <3>2, OutrosParados
    <3> QED
      BY <1>2, <3>2, <3>3
  <2> QED
    BY <2>1, <2>2, <2>3 DEF NadaNoCaminho
<1> QED
  BY <1>6, <1>7, <1>8, <1>9, <1>10 DEF Avancar

\* A backfill takes a slot off only when it has its run
LEMMA PedidosFicam ==
  ASSUME Base, Pedidos, [Next]_vars
  PROVE  Pedidos'
<1>1. existe \subseteq existe' /\ TypeOK /\ TypeOK' /\ \A p \in Processos : TrabalhoDe(p)
  BY EntregaServe, BaseFica DEF Base, Trabalho
<1>2. ASSUME NEW q \in Processos, Parado(q), pedido'[q] # <<>> PROVE Cobre(q)'
  BY <1>1, <1>2 DEF Pedidos, Cobre, Parado
<1>3. CASE UNCHANGED vars \/ Passar \/ Intervir
  <2>1. UNCHANGED completos /\ \A q \in Processos : Parado(q)
    BY <1>3 DEF vars, Passar, Intervir, local, hist, Parado
  <2> QED
    BY <1>1, <1>2, <2>1 DEF Pedidos
<1> SUFFICES ASSUME NEW p \in Processos, Passo(p) PROVE Pedidos'
  BY <1>3 DEF Next, Passo
<1>4. ASSUME UNCHANGED completos, pedido'[p] # <<>> => Cobre(p)' PROVE Pedidos'
  BY <1>1, <1>2, <1>4, OutrosParados DEF Pedidos
<1>5. CASE IniciarCiclo(p) \/ AvaliarAgenda(p) \/ Disparar(p)
  <2>1. pc[p] = "livre" /\ UNCHANGED <<pedido, completos>>
    BY <1>5 DEF IniciarCiclo, AvaliarAgenda, Disparar, Comando, hist
  <2> QED
    BY <1>4, <2>1 DEF Pedidos, Cobre
<1>6. CASE Cair(p)
  BY <1>1, <1>4, <1>6 DEF Cair, TypeOK, hist
<1>7. ASSUME NEW s \in Slugs, NEW de \in Instantes, NEW ate \in Instantes,
             AbrirBackfill(p, s, de, ate)
      PROVE  Pedidos'
  <2>1. /\ pc'[p] = "definicao" /\ gatilho'[p] = "backfill" /\ alvo'[p] = s
        /\ pedido'[p] = <<de, ate>> /\ restantes'[p] = Disparos(s, de - 1, ate)
        /\ UNCHANGED completos
    BY <1>1, <1>7 DEF AbrirBackfill, TypeOK, hist
  <2>2. \A h \in Horarios[s] : de <= h /\ h <= ate => h \in Disparos(s, de - 1, ate)
    BY <1>1, InstantesSaoNaturais DEF Disparos
  <2> QED
    BY <1>4, <2>1, <2>2 DEF Cobre
<1>8. ASSUME Desistir(p) PROVE Pedidos'
  BY <1>1, <1>4, <1>8 DEF Desistir, TypeOK
<1>9. ASSUME UNCHANGED <<restantes, pedido, completos, alvo, gatilho>>, pc[p] # "livre",
             \E v \in Pontos \ {"livre"} : pc' = [pc EXCEPT ![p] = v]
      PROVE  Pedidos'
  <2>1. pc'[p] # "livre"
    BY <1>1, <1>9 DEF TypeOK
  <2>2. pedido[p] # <<>> => Cobre(p)
    BY DEF Pedidos
  <2> QED
    BY <1>1, <1>4, <1>9, <2>1, <2>2 DEF Cobre
<1>10. ASSUME ProximoSlot(p), Run(p) \in existe', UNCHANGED <<alvo, gatilho>>
       PROVE  Pedidos'
  <2> DEFINE resto == restantes[p] \ {Slot(p)}
  <2>1. restantes'[p] = resto /\ pc'[p] = IF resto = {} THEN "livre" ELSE "criar"
    BY <1>1, <1>10 DEF ProximoSlot, TypeOK
  <2>2. pedido[p] # <<>> =>
          /\ gatilho[p] = "backfill"
          /\ \A h \in Horarios[alvo[p]] : pedido[p][1] <= h /\ h <= pedido[p][2] =>
               h \in resto \/ <<alvo[p], "backfill", h>> \in existe'
    BY <1>1, <1>10 DEF Pedidos, Cobre, Run
  <2>3. CASE pedido[p] = <<>> \/ resto # {}
    <3>1. UNCHANGED <<pedido, completos>>
      BY <1>10, <2>3 DEF ProximoSlot
    <3> QED
      BY <1>4, <1>10, <2>1, <2>2, <2>3, <3>1 DEF Cobre
  <2>4. CASE pedido[p] # <<>> /\ resto = {}
    <3>1. /\ pedido' = [pedido EXCEPT ![p] = <<>>]
          /\ completos' = completos \cup {<<alvo[p], pedido[p][1], pedido[p][2]>>}
      BY <1>10, <2>4 DEF ProximoSlot
    <3>2. \A q \in Processos : pedido'[q] # <<>> => Cobre(q)'
      BY <1>1, <1>2, <3>1, OutrosParados DEF TypeOK
    <3>3. \A h \in Horarios[alvo[p]] : pedido[p][1] <= h /\ h <= pedido[p][2] =>
            <<alvo[p], "backfill", h>> \in existe'
      BY <2>2, <2>4
    <3>4. \A c \in completos' : \A h \in Horarios[c[1]] :
            c[2] <= h /\ h <= c[3] => <<c[1], "backfill", h>> \in existe'
      BY <1>1, <3>1, <3>3 DEF Pedidos
    <3> QED
      BY <3>2, <3>4 DEF Pedidos
  <2> QED
    BY <2>3, <2>4
<1>11. ASSUME Seguir(p), Run(p) \in existe', UNCHANGED <<alvo, gatilho>>, pc[p] # "livre"
       PROVE  Pedidos'
  BY <1>9, <1>10, <1>11 DEF Seguir, Pontos
<1>12. CASE Avancar(p)
  <2>1. UNCHANGED <<alvo, gatilho>> /\ pc[p] # "livre"
    BY <1>12 DEF Avancar, LerDefinicao, Criar, MarcarQueued, Enfileirar, AvancarMarcador
  <2>2. CASE LerDefinicao(p)
    BY <1>8, <1>9, <2>1, <2>2 DEF LerDefinicao, Pontos
  <2>3. CASE Criar(p)
    <3>1. Run(p) \in existe => Run(p) \in existe'
      BY <1>1
    <3> QED
      BY <1>8, <1>9, <1>11, <2>1, <2>3, <3>1 DEF Criar, Pontos
  <2>4. CASE MarcarQueued(p)
    BY <1>8, <1>9, <2>1, <2>4 DEF MarcarQueued, Pontos
  <2>5. CASE Enfileirar(p) \/ AvancarMarcador(p)
    <3>1. Run(p) \in existe'
      BY <1>1, <2>5 DEF TrabalhoDe, Enfileirar, AvancarMarcador
    <3> QED
      BY <1>8, <1>10, <1>11, <2>1, <2>5, <3>1 DEF Enfileirar, AvancarMarcador
  <2> QED
    BY <1>12, <2>2, <2>3, <2>4, <2>5 DEF Avancar
<1> QED
  BY <1>5, <1>6, <1>7, <1>12 DEF Passo

(***************************************************************************)
(* One slot for a gap                                                      *)
(***************************************************************************)

\* No publication changes `catchup`, nor takes a cron away; pauses are allowed
CatchupFixo == \A s \in Agendados : s \in Agendados' /\ agenda'[s].catchup = agenda[s].catchup

\* The line of a schedule says whether it catches up
LinhaDiz(l) == l[1] \in Agendados /\ (l[2].catchup <=> agenda[l[1]].catchup)

\* The slots a loop has left, without catchup: none of the gap comes after one of them
SoOUltimo(p) ==
  /\ alvo[p] \in Agendados
  /\ ~agenda[alvo[p]].catchup =>
       \A h \in restantes[p] : Disparos(alvo[p], h, momento[p]) = {}

\* A loop knows which schedules catch up, and has the latest slot alone of the others
Recente ==
  \A p \in Schedulers : /\ \A l \in lidas[p] : LinhaDiz(l)
                        /\ pc[p] # "livre" => SoOUltimo(p)

\* A step that gives a loop no line and no slot it did not have keeps what it knows
LEMMA RecenteDoLoop ==
  ASSUME TypeOK, Recente, CatchupFixo, NEW p \in Schedulers,
         lidas'[p] \subseteq lidas[p],
         pc'[p] # "livre" => /\ pc[p] # "livre" /\ restantes'[p] \subseteq restantes[p]
                             /\ alvo'[p] = alvo[p] /\ momento'[p] = momento[p]
  PROVE  /\ \A l \in lidas'[p] : LinhaDiz(l)'
         /\ pc'[p] # "livre" => SoOUltimo(p)'
<1>1. \A l \in lidas'[p] : LinhaDiz(l)'
  BY DEF Recente, LinhaDiz, CatchupFixo
<1>2. ASSUME pc'[p] # "livre" PROVE SoOUltimo(p)'
  <2>1. SoOUltimo(p) /\ alvo'[p] = alvo[p] /\ momento'[p] = momento[p]
    BY <1>2 DEF Recente
  <2>2. alvo[p] \in Agendados' /\ agenda'[alvo[p]].catchup = agenda[alvo[p]].catchup
    BY <2>1 DEF SoOUltimo, CatchupFixo
  <2> QED
    BY <1>2, <2>1, <2>2 DEF SoOUltimo, Disparos
<1> QED
  BY <1>1, <1>2

\* A loop that starts on the slots of a line: what comes after the latest is not in the gap
LEMMA RecenteAoAvaliar ==
  ASSUME Base, Recente, CatchupFixo, NEW p \in Schedulers, AvaliarAgenda(p)
  PROVE  /\ \A l \in lidas'[p] : LinhaDiz(l)'
         /\ pc'[p] # "livre" => SoOUltimo(p)'
<1>t. TypeOK /\ Trabalho /\ p \in Processos
  BY DEF Base, Processos
<1>1. PICK l \in lidas[p] :
        LET s == l[1]
            slots == Slots(s, l[2], momento[p], MaxPorCiclo)
        IN
        /\ lidas' = [lidas EXCEPT ![p] = @ \ {l}]
        /\ \/ UNCHANGED <<pc, alvo, restantes>>
           \/ /\ l[2].ultimo # Nulo
              /\ alvo' = [alvo EXCEPT ![p] = s]
              /\ restantes' = [restantes EXCEPT ![p] = slots]
              /\ pc' = [pc EXCEPT ![p] = "definicao"]
  BY DEF AvaliarAgenda
<1> DEFINE s == l[1]
           slots == Slots(s, l[2], momento[p], MaxPorCiclo)
<1>2. lidas'[p] = lidas[p] \ {l} /\ pc[p] = "livre" /\ momento'[p] = momento[p]
  BY <1>1, <1>t DEF AvaliarAgenda, TypeOK
<1>3. CASE UNCHANGED <<pc, alvo, restantes>>
  BY <1>2, <1>3, <1>t, RecenteDoLoop
<1>4. CASE l[2].ultimo # Nulo /\ alvo'[p] = s /\ restantes'[p] = slots
  <2>1. s \in Slugs /\ l[2] \in Linha /\ momento[p] \in Instantes
    BY <1>1, <1>t, AvaliarServe
  <2>2. momento[p] \in 0..MaxTempo
    BY <1>t DEF TypeOK
  <2>3. s \in Agendados' /\ (agenda'[s].catchup <=> l[2].catchup)
    BY DEF Recente, LinhaDiz, CatchupFixo
  <2>4. ASSUME ~agenda'[s].catchup, NEW h \in slots, NEW k \in Disparos(s, h, momento[p])
        PROVE  FALSE
    <3> DEFINE D == Disparos(s, l[2].ultimo, momento[p])
    <3>1. ~l[2].catchup
      BY <2>3, <2>4
    <3>2. h \in D /\ \A j \in D : j <= h
      BY <1>4, <2>1, <2>2, <2>4, <3>1, SlotsServem
    <3>3. k \in Nat /\ h \in Nat /\ l[2].ultimo \in Nat /\ momento[p] \in Nat
      BY <1>t, <2>1, <3>2, InstantesSaoNaturais DEF Disparos, Linha
    <3>4. k \in D /\ h < k
      BY <3>2, <3>3 DEF Disparos
    <3> QED
      BY <3>2, <3>3, <3>4
  <2>5. ~agenda'[s].catchup => \A h \in slots : Disparos(s, h, momento[p]) = {}
    BY <2>4
  <2>6. SoOUltimo(p)'
    BY <1>2, <1>4, <2>3, <2>5 DEF SoOUltimo, Disparos
  <2>7. \A m \in lidas'[p] : LinhaDiz(m)'
    BY <1>2 DEF Recente, LinhaDiz, CatchupFixo
  <2> QED
    BY <2>6, <2>7
<1> QED
  BY <1>1, <1>3, <1>4, <1>t DEF TypeOK

\* Every step leaves a loop with the latest slot alone of what does not catch up
LEMMA RecenteFica ==
  ASSUME Base, Recente, CatchupFixo, [Next]_vars
  PROVE  Recente'
<1>t. TypeOK /\ Schedulers \subseteq Processos /\ \A p \in Processos : TrabalhoDe(p)
  BY DEF Base, Trabalho, Processos
<1>1. ASSUME NEW q \in Schedulers, Parado(q)
      PROVE  (\A l \in lidas'[q] : LinhaDiz(l)') /\ (pc'[q] # "livre" => SoOUltimo(q)')
  BY <1>t, <1>1, RecenteDoLoop DEF Parado
<1>2. CASE UNCHANGED vars \/ Passar \/ Intervir
  <2>1. \A q \in Schedulers : Parado(q)
    BY <1>2 DEF vars, Passar, Intervir, local, Parado
  <2> QED
    BY <1>1, <2>1 DEF Recente
<1> SUFFICES ASSUME NEW p \in Processos, Passo(p) PROVE Recente'
  BY <1>2 DEF Next, Passo
<1> SUFFICES ASSUME p \in Schedulers
             PROVE  (\A l \in lidas'[p] : LinhaDiz(l)') /\ (pc'[p] # "livre" => SoOUltimo(p)')
  BY <1>1, <1>t, OutrosParados DEF Recente
<1>3. CASE IniciarCiclo(p)
  <2>1. pc'[p] = "livre" /\ lidas'[p] = {<<s, agenda[s]>> : s \in Ativas}
    BY <1>3, <1>t DEF IniciarCiclo, TypeOK
  <2>2. \A l \in lidas'[p] : l[1] \in Agendados /\ l[2] = agenda[l[1]]
    BY <2>1 DEF Ativas
  <2> QED
    BY <2>1, <2>2 DEF LinhaDiz, CatchupFixo
<1>4. CASE AvaliarAgenda(p)
  BY <1>4, RecenteAoAvaliar
<1>5. CASE Disparar(p) \/ \E s \in Slugs, de, ate \in Instantes : AbrirBackfill(p, s, de, ate)
  BY <1>5, NomesDosProcessos DEF Disparar, AbrirBackfill, Comando
<1>6. CASE Cair(p)
  <2>1. pc'[p] = "livre" /\ lidas'[p] = {}
    BY <1>6, <1>t DEF Cair, TypeOK
  <2> QED
    BY <2>1
<1>7. CASE Avancar(p)
  <2>1. /\ UNCHANGED <<lidas, momento, alvo>> /\ pc[p] # "livre"
    BY <1>7 DEF Avancar, LerDefinicao, Criar, MarcarQueued, Enfileirar, AvancarMarcador
  <2>2. restantes'[p] \subseteq restantes[p]
    <3>1. CASE UNCHANGED restantes
      BY <3>1
    <3>2. CASE Desistir(p) \/ ProximoSlot(p) \/ Seguir(p)
      BY <1>t, <3>2, RumoServe DEF Rumo
    <3> QED
      BY <1>7, <3>1, <3>2 DEF Avancar, LerDefinicao, Criar, MarcarQueued, Enfileirar,
                              AvancarMarcador
  <2> QED
    BY <1>t, <2>1, <2>2, RecenteDoLoop
<1> QED
  BY <1>3, <1>4, <1>5, <1>6, <1>7 DEF Passo

(***************************************************************************)
(* The theorems                                                            *)
(***************************************************************************)

\* What holds of any number of loops and operators
LEMMA SempreBase == Spec => []Base
BY BaseNoInicio, BaseFica, PTL DEF Spec

\* What holds of one loop
LEMMA SempreSequencia ==
  ASSUME UmLoop
  PROVE  Spec => [](Base /\ Sequencia)
<1>1. Init => Base /\ Sequencia
  BY BaseNoInicio, SequenciaNoInicio
<1>2. Base /\ Sequencia /\ [Next]_vars => Base' /\ Sequencia'
  BY BaseFica, SequenciaFica
<1> QED
  BY <1>1, <1>2, PTL DEF Spec

\* One `brevis scheduler`, with any operators beside it, leaves no slot of a schedule
\* that catches up without its run, whatever the calendar, the limit of a cycle, and
\* the deaths, failures, pauses and publications on the way
\* (src/internal/scheduler/scheduler.go:160-162).
THEOREM NenhumaLacuna ==
  ASSUME UmLoop
  PROVE  Spec => []SemLacuna
<1>1. Base /\ Sequencia => SemLacuna
  BY DEF Base, Sequencia, SemLacuna
<1> QED
  BY <1>1, SempreSequencia, PTL

\* One `brevis scheduler` creates the runs of a schedule in the order of their slots,
\* and any process puts a run into the queue once, after it was marked queued
\* (src/internal/scheduler/scheduler.go:199-202).
THEOREM SlotsSempreEmOrdem ==
  ASSUME UmLoop
  PROVE  Spec => OrdemDosSlots
<1>1. Base /\ Sequencia /\ [Next]_vars =>
        [\A s \in Slugs, h, k \in Instantes :
           <<s, "schedule", h>> \in existe /\ <<s, "schedule", k>> \in existe' \ existe => h < k]_vars
  <2> SUFFICES ASSUME Base, Sequencia, Next,
                      NEW s \in Slugs, NEW h \in Instantes, NEW k \in Instantes,
                      <<s, "schedule", h>> \in existe, <<s, "schedule", k>> \in existe' \ existe
               PROVE  h < k
    OBVIOUS
  <2>1. PICK p \in Processos : Criar(p)
    BY DEF Next, Passar, Intervir, IniciarCiclo, AvaliarAgenda, Disparar, AbrirBackfill, Avancar,
           LerDefinicao, MarcarQueued, Enfileirar, AvancarMarcador, Cair, tabelas
  <2>2. Run(p) = <<s, "schedule", k>> /\ pc[p] = "criar"
    BY <2>1 DEF Criar
  <2>3. gatilho[p] = "schedule" /\ alvo[p] = s /\ Slot(p) = k
    BY <2>2 DEF Run
  <2>4. p \in Schedulers
    BY <2>2, <2>3 DEF Base, Trabalho, TrabalhoDe
  <2>5. h \in RunsDe(s)
    BY DEF RunsDe
  <2>6. h <= k
    BY <2>2, <2>3, <2>4, <2>5, PrimeiroSlot DEF Base
  <2>7. h # k /\ h \in Nat /\ k \in Nat
    BY InstantesSaoNaturais DEF Base
  <2> QED
    BY <2>6, <2>7
<1>2. Base /\ [Next]_vars =>
        [\A r \in Runs :
           /\ status'[r] # status[r] => r \in existe /\ status[r] = "created" /\ fila[r] = "fora"
           /\ fila'[r] # fila[r] => status[r] = "queued" /\ fila[r] = "fora"]_vars
  BY EntregaServe DEF Entrega
<1> QED
  BY <1>1, <1>2, SempreSequencia, PTL DEF Spec, OrdemDosSlots, SlotsEmOrdem, EntregaEmOrdem

\* While nothing dies and no statement fails, any number of loops and operators may work
\* on the same schedules: what the marker has passed is in the queue or in the hands of a
\* process that brings it there (src/internal/scheduler/scheduler.go:171-176, 193-195).
THEOREM MarcadorSempreVerdadeiro ==
  ASSUME SemFalhas
  PROVE  Spec => []MarcadorDizVerdade
<1>1. Init => NadaNoCaminho
  BY DEF Init, NadaNoCaminho
<1>2. Base /\ NadaNoCaminho /\ [Next]_vars => NadaNoCaminho'
  BY CaminhoFica
<1>3. NadaNoCaminho => MarcadorDizVerdade
  BY DEF NadaNoCaminho, MarcadorDizVerdade
<1> QED
  BY <1>1, <1>2, <1>3, SempreBase, PTL DEF Spec

\* Under the same assumption a backfill that ended well has put every slot of its
\* interval, both ends included, into the queue (src/internal/scheduler/scheduler.go:291-293).
THEOREM BackfillSempreCompleto ==
  ASSUME SemFalhas
  PROVE  Spec => []BackfillCompleto
<1>1. Init => NadaNoCaminho /\ Pedidos
  BY DEF Init, NadaNoCaminho, Pedidos
<1>2. Base /\ NadaNoCaminho /\ Pedidos /\ [Next]_vars => NadaNoCaminho' /\ Pedidos'
  BY CaminhoFica, PedidosFicam
<1>3. NadaNoCaminho /\ Pedidos => BackfillCompleto
  BY DEF NadaNoCaminho, Pedidos, BackfillCompleto
<1> QED
  BY <1>1, <1>2, <1>3, SempreBase, PTL DEF Spec

\* While no publication changes `catchup`, any number of loops, dying and failing as they
\* may beside operators and pauses, makes one run of a gap of a schedule that does not
\* catch up: that of the latest slot as the cycle saw it, however long the gap and whatever
\* the limit of the cycle (src/internal/domain/schedule/schedule.go:75-76).
THEOREM SempreSoOMaisRecente == Spec /\ [][CatchupFixo]_vars => SoOMaisRecente
<1>1. Init => Recente
  BY DEF Init, Recente, Processos
<1>2. Base /\ Recente /\ [Next]_vars /\ [CatchupFixo]_vars => Recente'
  <2>1. UNCHANGED vars => CatchupFixo
    BY DEF vars, CatchupFixo, Agendados
  <2> QED
    BY <2>1, RecenteFica
<1>3. Base /\ Recente /\ [Next]_vars =>
        [\A r \in existe' \ existe : r[2] = "schedule" =>
           agenda[r[1]].catchup
             \/ \E p \in Schedulers : /\ pc[p] = "criar" /\ Run(p) = r
                                     /\ Disparos(r[1], r[3], momento[p]) = {}]_vars
  <2> SUFFICES ASSUME Base, Recente, Next, NEW r \in existe' \ existe, r[2] = "schedule",
                      ~agenda[r[1]].catchup
               PROVE  \E p \in Schedulers : /\ pc[p] = "criar" /\ Run(p) = r
                                            /\ Disparos(r[1], r[3], momento[p]) = {}
    OBVIOUS
  <2>1. PICK p \in Processos : Criar(p)
    BY DEF Next, Passar, Intervir, IniciarCiclo, AvaliarAgenda, Disparar, AbrirBackfill, Avancar,
           LerDefinicao, MarcarQueued, Enfileirar, AvancarMarcador, Cair, tabelas
  <2>2. Run(p) = r /\ pc[p] = "criar"
    BY <2>1 DEF Criar
  <2>3. gatilho[p] = "schedule" /\ alvo[p] = r[1] /\ Slot(p) = r[3]
    BY <2>2 DEF Run
  <2>4. p \in Schedulers /\ restantes[p] # {} /\ TypeOK
    BY <2>2, <2>3 DEF Base, Trabalho, TrabalhoDe
  <2>5. r[3] \in restantes[p]
    BY <2>3, <2>4, RunServe
  <2>6. SoOUltimo(p)
    BY <2>2, <2>4 DEF Recente
  <2> QED
    BY <2>2, <2>3, <2>4, <2>5, <2>6 DEF SoOUltimo
<1> QED
  BY <1>1, <1>2, <1>3, SempreBase, PTL DEF Spec, SoOMaisRecente
================================================================================
