-------------------------------- MODULE Scheduler --------------------------------
(***************************************************************************)
(* Who creates runs (src/internal/scheduler/scheduler.go): the loop of     *)
(* `brevis scheduler`, which turns the slots of the schedules into runs,   *)
(* and the commands of operators, `brevis backfill` and the button of the  *)
(* interface.  They share criarEEnfileirar's sequence of statements        *)
(* (Criar, Transicionar, Enqueue) over the tables of RunQueue and Catalog. *)
(* A step is one statement; a process may die between two.  Nothing is     *)
(* taken from the queue here: that is Dispatcher.                          *)
(*                                                                         *)
(* A run is named by its idempotency key, <<slug, trigger, slot>>; one     *)
(* instant of the clock is the second the key of a manual run is cut to.   *)
(***************************************************************************)
EXTENDS RunQueue, Catalog

CONSTANTS
  Schedulers,      \* processes of `brevis scheduler`
  Operadores,      \* processes that serve one command at a time
  MaxTempo,        \* bound of the clock
  MaxPorCiclo,     \* OpcoesScheduler.MaxPorCiclo
  MaxComandos,     \* bound on commands of operators
  MaxIntervencoes, \* bound on pauses and publications
  MaxQuedas,       \* bound on deaths
  BancoFalha,      \* a statement may fail, or be applied and its answer lost
  InicioComMarco   \* the schedules have been evaluated before

Instantes == 1..MaxTempo
Gatilhos == {"schedule", "manual", "backfill"}
Processos == Schedulers \cup Operadores

\* "cron": the cron does not parse; "padrao": the params do not resolve without
\* values, since an empty default was not validated
Defeitos == {"nenhum", "cron", "padrao"}

ASSUME ChavesDosRuns == Runs = Slugs \X Gatilhos \X Instantes
ASSUME LimiteDoCiclo == MaxPorCiclo \in Nat \ {0}
ASSUME LimitesDoTempo ==
  MaxTempo \in Nat \ {0} /\ {MaxComandos, MaxIntervencoes, MaxQuedas} \subseteq Nat
ASSUME AlgumSlug == Slugs # {}
ASSUME NomesDosProcessos == Schedulers \cap Operadores = {}

VARIABLES
  existe,      \* rows of `runs`; status and fila are meaningful for them
  agora,       \* the clock
  defeito,     \* what is wrong with a definition; it is published all the same
  pc,          \* where a process is
  lidas,       \* rows of Ativas a loop has not evaluated yet, as it read them
  momento,     \* the `agora` of its cycle
  alvo,        \* the workflow it creates runs of
  gatilho,     \* with this trigger
  restantes,   \* for these slots
  pedido,      \* the interval a backfill was asked for, <<>> for other work
  comandos,    \* commands so far
  intervencoes,\* pauses and publications so far
  quedas,      \* deaths so far
  plantado,    \* history: where the marker of a schedule was last planted
  completos    \* history: backfills that ended well, <<slug, from, to>>

tabelas == <<workflows, agenda, existe, status, fila, defeito>>
local   == <<pc, lidas, momento, alvo, gatilho, restantes, pedido>>
contadores == <<comandos, intervencoes, quedas>>
hist    == <<plantado, completos>>
vars == <<workflows, agenda, existe, status, fila, defeito, agora, pc, lidas, momento, alvo,
          gatilho, restantes, pedido, comandos, intervencoes, quedas, plantado, completos>>

Init ==
  /\ workflows = Projetos \X Slugs
  /\ agenda \in [Slugs -> {[ativo |-> TRUE, catchup |-> c,
                            ultimo |-> IF InicioComMarco THEN 1 ELSE Nulo] : c \in BOOLEAN}]
  /\ existe = {}
  /\ status = [r \in Runs |-> "created"]
  /\ fila = [r \in Runs |-> "fora"]
  /\ agora = 1
  /\ defeito \in [Slugs -> Defeitos]
  /\ pc = [p \in Processos |-> "livre"]
  /\ lidas = [p \in Processos |-> {}]
  /\ momento = [p \in Processos |-> 0]
  /\ alvo = [p \in Processos |-> CHOOSE s \in Slugs : TRUE]
  /\ gatilho = [p \in Processos |-> "schedule"]
  /\ restantes = [p \in Processos |-> {}]
  /\ pedido = [p \in Processos |-> <<>>]
  /\ comandos = 0
  /\ intervencoes = 0
  /\ quedas = 0
  /\ plantado = [s \in Slugs |-> IF InicioComMarco THEN 1 ELSE MaxTempo]
  /\ completos = {}

Passar ==
  /\ agora < MaxTempo
  /\ agora' = agora + 1
  /\ UNCHANGED <<tabelas, local, contadores, hist>>

--------------------------------------------------------------------------------
(* Where work comes from *)

\* Ciclo: the clock is read, then Ativas
IniciarCiclo(p) ==
  /\ p \in Schedulers
  /\ pc[p] = "livre" /\ lidas[p] = {}
  /\ lidas' = [lidas EXCEPT ![p] = {<<s, agenda[s]>> : s \in Ativas}]
  /\ momento' = [momento EXCEPT ![p] = agora]
  /\ UNCHANGED <<tabelas, agora, pc, alvo, gatilho, restantes, pedido, contadores, hist>>

\* materializar, up to the definition: a schedule that was never evaluated
\* gets its marker and waits for the next cycle
AvaliarAgenda(p) ==
  /\ p \in Schedulers /\ pc[p] = "livre"
  /\ \E linha \in lidas[p] :
       LET s == linha[1]
           slots == Slots(s, linha[2], momento[p], MaxPorCiclo)
       IN
       /\ lidas' = [lidas EXCEPT ![p] = @ \ {linha}]
       /\ \/ /\ linha[2].ultimo = Nulo
             /\ AvancarSlot(s, momento[p]) \/ (BancoFalha /\ UNCHANGED agenda)
             /\ plantado' = IF agenda' # agenda /\ agenda[s].ultimo = Nulo
                              THEN [plantado EXCEPT ![s] = momento[p]] ELSE plantado
             /\ UNCHANGED <<pc, alvo, gatilho, restantes>>
          \/ /\ linha[2].ultimo # Nulo
             /\ defeito[s] = "cron" \/ slots = {}
             /\ UNCHANGED <<agenda, pc, alvo, gatilho, restantes, plantado>>
          \/ /\ linha[2].ultimo # Nulo
             /\ defeito[s] # "cron" /\ slots # {}
             /\ alvo' = [alvo EXCEPT ![p] = s]
             /\ gatilho' = [gatilho EXCEPT ![p] = "schedule"]
             /\ restantes' = [restantes EXCEPT ![p] = slots]
             /\ pc' = [pc EXCEPT ![p] = "definicao"]
             /\ UNCHANGED <<agenda, plantado>>
  /\ UNCHANGED <<workflows, existe, status, fila, defeito, agora, momento, pedido,
                 contadores, completos>>

Comando(p) ==
  /\ p \in Operadores /\ pc[p] = "livre"
  /\ comandos < MaxComandos
  /\ comandos' = comandos + 1

\* Disparar: one slot, the second of the click; the schedule is not looked at
Disparar(p) ==
  /\ Comando(p)
  /\ \E s \in Slugs : alvo' = [alvo EXCEPT ![p] = s]
  /\ gatilho' = [gatilho EXCEPT ![p] = "manual"]
  /\ restantes' = [restantes EXCEPT ![p] = {agora}]
  /\ pc' = [pc EXCEPT ![p] = "definicao"]
  /\ UNCHANGED <<tabelas, agora, lidas, momento, pedido, intervencoes, quedas, hist>>

\* Mutant: the walk starts at the first instant asked for
AbrirBackfillEmDe(p, s, de, ate) ==
  /\ Comando(p)
  /\ s \in Ativas /\ defeito[s] # "cron"
  /\ alvo' = [alvo EXCEPT ![p] = s]
  /\ gatilho' = [gatilho EXCEPT ![p] = "backfill"]
  /\ restantes' = [restantes EXCEPT ![p] = Disparos(s, de, ate)]
  /\ pedido' = [pedido EXCEPT ![p] = <<de, ate>>]
  /\ pc' = [pc EXCEPT ![p] = "definicao"]
  /\ UNCHANGED <<tabelas, agora, lidas, momento, intervencoes, quedas, hist>>

\* Backfill: of an active schedule only, from just before `de` so that a slot
\* at `de` is taken
AbrirBackfill(p, s, de, ate) ==
  /\ Comando(p)
  /\ s \in Ativas /\ defeito[s] # "cron"
  /\ alvo' = [alvo EXCEPT ![p] = s]
  /\ gatilho' = [gatilho EXCEPT ![p] = "backfill"]
  /\ restantes' = [restantes EXCEPT ![p] = Disparos(s, de - 1, ate)]
  /\ pedido' = [pedido EXCEPT ![p] = <<de, ate>>]
  /\ pc' = [pc EXCEPT ![p] = "definicao"]
  /\ UNCHANGED <<tabelas, agora, lidas, momento, intervencoes, quedas, hist>>

--------------------------------------------------------------------------------
(* The statements, for every slot in order *)

\* Mutant: the latest slot first
SlotMaisNovo(p) == Max(restantes[p])

Slot(p) == Min(restantes[p])
Run(p) == <<alvo[p], gatilho[p], Slot(p)>>

\* What a process gives up for an error: a loop its schedule, for this cycle;
\* an operator the command
Desistir(p) ==
  /\ pc' = [pc EXCEPT ![p] = "livre"]
  /\ restantes' = [restantes EXCEPT ![p] = {}]
  /\ pedido' = [pedido EXCEPT ![p] = <<>>]
  /\ UNCHANGED completos

\* The next slot; after the last one the process is free, and a backfill done
ProximoSlot(p) ==
  LET resto == restantes[p] \ {Slot(p)} IN
  /\ restantes' = [restantes EXCEPT ![p] = resto]
  /\ pc' = [pc EXCEPT ![p] = IF resto = {} THEN "livre" ELSE "criar"]
  /\ IF resto = {} /\ pedido[p] # <<>>
       THEN /\ pedido' = [pedido EXCEPT ![p] = <<>>]
            /\ completos' = completos \cup {<<alvo[p], pedido[p][1], pedido[p][2]>>}
       ELSE UNCHANGED <<pedido, completos>>

\* Mutant: a backfill moves the marker, too
SeguirAvancando(p) ==
  pc' = [pc EXCEPT ![p] = "avancar"] /\ UNCHANGED <<restantes, pedido, completos>>

\* criarEEnfileirar has returned no error: a loop moves the marker first
Seguir(p) ==
  IF p \in Schedulers
    THEN pc' = [pc EXCEPT ![p] = "avancar"] /\ UNCHANGED <<restantes, pedido, completos>>
    ELSE ProximoSlot(p)

\* Workflow.Resolver: a schedule has the defaults only, a command brings values
\* that may be refused
Resolve(p) == gatilho[p] = "schedule" => defeito[alvo[p]] # "padrao"
Recusa(p) == gatilho[p] = "schedule" => defeito[alvo[p]] = "padrao"

\* Definicao and Resolver, and the end of a backfill of no slot
LerDefinicao(p) ==
  /\ pc[p] = "definicao"
  /\ \/ /\ TemDefinicao(alvo[p]) /\ Resolve(p) /\ restantes[p] # {}
        /\ pc' = [pc EXCEPT ![p] = "criar"]
        /\ UNCHANGED <<restantes, pedido, completos>>
     \/ /\ ~TemDefinicao(alvo[p]) \/ Recusa(p) \/ restantes[p] = {} \/ BancoFalha
        /\ Desistir(p)
  /\ UNCHANGED <<tabelas, agora, lidas, momento, alvo, gatilho, contadores, plantado>>

\* RunRepo.Criar; the key is unique, and a collision is no error
Criar(p) ==
  /\ pc[p] = "criar"
  /\ \/ /\ Run(p) \in existe
        /\ Seguir(p)
        /\ UNCHANGED existe
     \/ /\ Run(p) \notin existe
        /\ existe' = existe \cup {Run(p)}
        /\ pc' = [pc EXCEPT ![p] = "transicionar"]
        /\ UNCHANGED <<restantes, pedido, completos>>
     \/ /\ BancoFalha
        /\ existe' \in {existe, existe \cup {Run(p)}}
        /\ Desistir(p)
  /\ UNCHANGED <<workflows, agenda, status, fila, defeito, agora, lidas, momento, alvo, gatilho,
                 contadores, plantado>>

\* Mutant: the queue before the state
EnfileirarAntes(p) ==
  /\ pc[p] = "transicionar"
  /\ Enqueue(Run(p))
  /\ pc' = [pc EXCEPT ![p] = "enfileirar"]
  /\ UNCHANGED <<workflows, agenda, existe, status, defeito, agora, lidas, momento, alvo, gatilho,
                 restantes, pedido, contadores, hist>>

\* Mutant: marked queued, and not put into the queue
MarcarSemEnfileirar(p) ==
  /\ pc[p] = "transicionar"
  /\ Transicionar(Run(p), "queued")
  /\ Seguir(p)
  /\ UNCHANGED <<workflows, agenda, existe, fila, defeito, agora, lidas, momento, alvo, gatilho,
                 contadores, plantado>>

MarcarQueued(p) ==
  /\ pc[p] = "transicionar"
  /\ \/ /\ Transicionar(Run(p), "queued")
        /\ pc' = [pc EXCEPT ![p] = "enfileirar"]
        /\ UNCHANGED <<restantes, pedido, completos>>
     \/ /\ BancoFalha
        /\ Transicionar(Run(p), "queued") \/ UNCHANGED status
        /\ Desistir(p)
  /\ UNCHANGED <<workflows, agenda, existe, fila, defeito, agora, lidas, momento, alvo, gatilho,
                 contadores, plantado>>

Enfileirar(p) ==
  /\ pc[p] = "enfileirar"
  /\ \/ Enqueue(Run(p)) /\ Seguir(p)
     \/ /\ BancoFalha
        /\ Enqueue(Run(p)) \/ UNCHANGED fila
        /\ Desistir(p)
  /\ UNCHANGED <<workflows, agenda, existe, status, defeito, agora, lidas, momento, alvo, gatilho,
                 contadores, plantado>>

\* Mutant: the marker goes to the instant of the cycle, not to the slot
AvancarAteOMomento(p) ==
  /\ pc[p] = "avancar"
  /\ AvancarSlot(alvo[p], momento[p]) /\ ProximoSlot(p)
  /\ UNCHANGED <<workflows, existe, status, fila, defeito, agora, lidas, momento, alvo, gatilho,
                 contadores, plantado>>

\* AvancarSlot, after every slot
AvancarMarcador(p) ==
  /\ pc[p] = "avancar"
  /\ \/ AvancarSlot(alvo[p], Slot(p)) /\ ProximoSlot(p)
     \/ /\ BancoFalha
        /\ AvancarSlot(alvo[p], Slot(p)) \/ UNCHANGED agenda
        /\ Desistir(p)
  /\ UNCHANGED <<workflows, existe, status, fila, defeito, agora, lidas, momento, alvo, gatilho,
                 contadores, plantado>>

Avancar(p) == LerDefinicao(p) \/ Criar(p) \/ MarcarQueued(p) \/ Enfileirar(p)
                \/ AvancarMarcador(p)

--------------------------------------------------------------------------------
(* Pauses, publications, deaths *)

Intervir ==
  /\ intervencoes < MaxIntervencoes
  /\ intervencoes' = intervencoes + 1
  /\ UNCHANGED comandos
  /\ \E s \in Slugs :
       \/ Alternar(s) /\ UNCHANGED <<workflows, plantado>>
       \/ \E p \in Projetos, comCron \in BOOLEAN :
            /\ Publicar(p, s, comCron)
            /\ plantado' = IF comCron /\ s \in Agendados THEN plantado
                           ELSE [plantado EXCEPT ![s] = MaxTempo]
  /\ UNCHANGED <<existe, status, fila, defeito, agora, local, quedas, completos>>

Cair(p) ==
  /\ quedas < MaxQuedas
  /\ quedas' = quedas + 1
  /\ pc' = [pc EXCEPT ![p] = "livre"]
  /\ lidas' = [lidas EXCEPT ![p] = {}]
  /\ restantes' = [restantes EXCEPT ![p] = {}]
  /\ pedido' = [pedido EXCEPT ![p] = <<>>]
  /\ UNCHANGED <<tabelas, agora, momento, alvo, gatilho, comandos, intervencoes, hist>>

Next ==
  \/ Passar \/ Intervir
  \/ \E p \in Processos :
       \/ IniciarCiclo(p) \/ AvaliarAgenda(p) \/ Disparar(p) \/ Avancar(p) \/ Cair(p)
       \/ \E s \in Slugs, de, ate \in Instantes : AbrirBackfill(p, s, de, ate)

Spec == Init /\ [][Next]_vars

--------------------------------------------------------------------------------

\* The tables and the memory of every process have their types
TypeOK ==
  /\ workflows \subseteq Projetos \X Slugs
  /\ agenda \in [Slugs -> Linha \cup {SemAgenda}]
  /\ existe \subseteq Runs
  /\ status \in [Runs -> {"created", "queued"}]
  /\ fila \in [Runs -> {"fora", "livre"}]
  /\ defeito \in [Slugs -> Defeitos]
  /\ agora \in Instantes
  /\ pc \in [Processos -> {"livre", "definicao", "criar", "transicionar",
                           "enfileirar", "avancar"}]
  /\ lidas \in [Processos -> SUBSET (Slugs \X Linha)]
  /\ momento \in [Processos -> 0..MaxTempo]
  /\ alvo \in [Processos -> Slugs]
  /\ gatilho \in [Processos -> Gatilhos]
  /\ restantes \in [Processos -> SUBSET Instantes]
  /\ pedido \in [Processos -> (Instantes \X Instantes) \cup {<<>>}]
  /\ comandos \in 0..MaxComandos
  /\ intervencoes \in 0..MaxIntervencoes /\ quedas \in 0..MaxQuedas
  /\ plantado \in [Slugs -> Instantes]
  /\ completos \subseteq Slugs \X Instantes \X Instantes

\* A schedule that catches up leaves no slot behind: every instant of the cron
\* between the planting of its marker and the marker has its run, whatever
\* dies, is paused, or fails on the way (schedule.go:73-76, scheduler.go:160-162).
MarcadorSemLacuna ==
  \A s \in Agendados : agenda[s].catchup =>
    \A h \in Disparos(s, plantado[s], agenda[s].ultimo) : <<s, "schedule", h>> \in existe

\* The runs of a schedule are created in the order of their slots: what was
\* materialized, or passed over without catchup, is not gone back to when a
\* process dies or a workflow is published again (scheduler.go:160-162,
\* schedules.go:51-52).
SlotsEmOrdem ==
  [][\A s \in Slugs, h, k \in Instantes :
       <<s, "schedule", h>> \in existe /\ <<s, "schedule", k>> \in existe' \ existe => h < k]_vars

\* What the dispatchers rely on: a run enters the queue once, after it was
\* marked queued, and is marked queued once (scheduler.go:199-202).
EntregaEmOrdem ==
  [][\A r \in Runs :
       /\ status'[r] # status[r] => r \in existe /\ status[r] = "created" /\ fila[r] = "fora"
       /\ fila'[r] # fila[r] => status[r] = "queued" /\ fila[r] = "fora"]_vars

EmMaos(r) == \E p \in Processos : pc[p] \in {"transicionar", "enfileirar"} /\ Run(p) = r

\* The marker tells the truth: a slot it has passed is in the queue, or some
\* process is bringing it there.  The collision on the key is taken for "already
\* materialized" (scheduler.go:171-176, 193-195).
MarcadorDizVerdade ==
  \A r \in existe :
    r[2] = "schedule" /\ r[1] \in Agendados /\ r[3] <= agenda[r[1]].ultimo
      => fila[r] # "fora" \/ EmMaos(r)

\* A backfill that ended well has its runs in the queue, the slots at both ends
\* of its interval included (scheduler.go:291-293).
BackfillCompleto ==
  \A c \in completos : \A h \in Horarios[c[1]] :
    c[2] <= h /\ h <= c[3] =>
      LET r == <<c[1], "backfill", h>> IN r \in existe /\ (fila[r] # "fora" \/ EmMaos(r))

(***************************************************************************)
(* Liveness: the ticker of a live loop ticks, its goroutine is scheduled,  *)
(* and time passes.  Nothing is assumed of operators before they start.    *)
(***************************************************************************)

Justica ==
  /\ WF_vars(Passar)
  /\ \A p \in Processos :
       WF_vars(IniciarCiclo(p)) /\ WF_vars(AvaliarAgenda(p)) /\ WF_vars(Avancar(p))

SpecJusta == Spec /\ Justica

\* The slots that have to become runs: all of them with catchup, the latest
\* one without
Devido(s, h) ==
  /\ s \in Ativas /\ defeito[s] = "nenhum"
  /\ h \in Disparos(s, plantado[s], agora)
  /\ agenda[s].catchup \/ \A k \in Horarios[s] : k <= h

\* Every slot becomes a run: a schedule never evaluated is not stuck, a long gap
\* is worked off cycle by cycle, the broken schedule of another workflow and the
\* death of the process are in nobody's way (scheduler.go:92-97, 104-117).
TodoSlotViraRun ==
  \A s \in Slugs, h \in Instantes :
    Devido(s, h) ~> <<s, "schedule", h>> \in existe \/ ~Devido(s, h)

\* Without catchup a gap becomes one run, that of its latest slot as the cycle
\* saw it, however long the gap and whatever the limit of the cycle
\* (schedule.go:75-76); stated while no publication changes `catchup`.
SoOMaisRecente ==
  [][\A r \in existe' \ existe : r[2] = "schedule" =>
       agenda[r[1]].catchup
         \/ \E p \in Schedulers : /\ pc[p] = "criar" /\ Run(p) = r
                                 /\ Disparos(r[1], r[3], momento[p]) = {}]_vars

\* While nothing dies and nothing fails, every run that is created enters the queue.
TodoRunEntraNaFila == \A r \in Runs : r \in existe ~> fila[r] # "fora"

\* Nothing that is past is changed: no slot is skipped between planting and marker
SemLacuna == TypeOK /\ MarcadorSemLacuna

\* Slots forward only, and each run into the queue once, in the order the
\* dispatchers rely on
OrdemDosSlots == SlotsEmOrdem /\ EntregaEmOrdem

\* Every slot that is due becomes a run and every run enters the queue
TodoSlotChegaAFila == TodoSlotViraRun /\ TodoRunEntraNaFila
================================================================================
