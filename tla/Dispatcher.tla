------------------------------- MODULE Dispatcher -------------------------------
(***************************************************************************)
(* The dispatchers (src/internal/scheduler/dispatcher.go) over the tables  *)
(* of RunQueue.  Every dispatcher is a process with one loop goroutine,    *)
(* which claims items and sweeps for orphans, and one goroutine per        *)
(* claimed item, which runs `processar`.  A step is what happens between   *)
(* two database statements; a process may die between any two steps.       *)
(***************************************************************************)
EXTENDS RunQueue

CONSTANTS
  Dispatchers,      \* the processes; each is also the name of its loop goroutine
  Goroutines,       \* bound on the goroutines `processar` alive at once, of all processes
  MaxConcorrente,   \* Config.MaxConcorrente
  MaxTentativas,    \* Config.MaxTentativas
  MaxQuedas,        \* bound: how many times a process dies
  Pontual,          \* no claim of a live worker gets older than Config.Visibilidade
  BancoFalha,       \* a statement may fail, or be applied and its answer lost
  Nenhum            \* "no run", "no process"

ASSUME ConcorrenciaPositiva == MaxConcorrente \in Nat \ {0}
ASSUME TentativasPositivas == MaxTentativas \in Nat \ {0}
ASSUME ProcessosFinitos == IsFiniteSet(Dispatchers)
ASSUME QuedasNaturais == MaxQuedas \in Nat
ASSUME Chaves == Pontual \in BOOLEAN /\ BancoFalha \in BOOLEAN
ASSUME NomesDistintos == /\ Goroutines \cap Dispatchers = {}
                         /\ Nenhum \notin Runs \cup Dispatchers

VARIABLES
  attempt,    \* runs.attempt
  aEntrar,    \* runs marked queued whose Enqueue is still to come
  pc,         \* where every goroutine is
  run,        \* the item (its run) a goroutine works on
  dono,       \* the process a `processar` goroutine belongs to
  emVoo,      \* Dispatcher.emVoo
  vagas,      \* local of cicloDeClaim
  alvo,       \* the rows the running claim statement found eligible in its snapshot
  lote,       \* claimed items whose goroutine is not launched yet
  orfaos,     \* recovered items `falhar` has not been called for yet
  quedas,     \* process deaths so far
  inicios,    \* history: how often the run entered `running`
  avisos      \* history: final-failure alerts sent for the run

banco  == <<status, fila, attempt>>
laco   == <<vagas, alvo, lote, orfaos>>
hist   == <<inicios, avisos>>
vars   == <<status, fila, attempt, aEntrar, pc, run, dono, emVoo, vagas, alvo, lote,
            orfaos, quedas, inicios, avisos>>

Threads == Goroutines \cup Dispatchers

\* The points of `falhar`, run by a `processar` goroutine or by the loop
PontosDeFalhar == {"falhar", "incrementar", "avisar", "retrying", "queued",
                   "release", "done"}
Pontos == {"desligado", "laco", "claim", "ociosa", "marcar", "soltar", "executar", "sucesso"}
            \cup PontosDeFalhar

Init ==
  /\ status = [r \in Runs |-> "created"]
  /\ fila = [r \in Runs |-> "fora"]
  /\ attempt = [r \in Runs |-> 0]
  /\ aEntrar = {}
  /\ \E D \in (SUBSET Dispatchers) \ {{}} :     \* the processes this deployment runs
       pc = [t \in Threads |-> IF t \in D THEN "laco"
                               ELSE IF t \in Dispatchers THEN "desligado" ELSE "ociosa"]
  /\ run = [t \in Threads |-> Nenhum]
  /\ dono = [g \in Goroutines |-> Nenhum]
  /\ emVoo = [d \in Dispatchers |-> 0]
  /\ vagas = [d \in Dispatchers |-> 0]
  /\ alvo = [d \in Dispatchers |-> {}]
  /\ lote = [d \in Dispatchers |-> {}]
  /\ orfaos = [d \in Dispatchers |-> {}]
  /\ quedas = 0
  /\ inicios = [r \in Runs |-> 0]
  /\ avisos = [r \in Runs |-> 0]

--------------------------------------------------------------------------------
(* The producer: Scheduler.criarEEnfileirar after Criar.  Its own failures *)
(* are the subject of module Scheduler.                                    *)

Enfileirar(r) ==
  /\ status[r] = "created"
  /\ Transicionar(r, "queued")
  /\ aEntrar' = aEntrar \cup {r}
  /\ UNCHANGED <<fila, attempt, pc, run, dono, emVoo, laco, quedas, hist>>

EntrarNaFila(r) ==
  /\ r \in aEntrar
  /\ aEntrar' = aEntrar \ {r}
  /\ Enqueue(r)
  /\ UNCHANGED <<status, attempt, pc, run, dono, emVoo, laco, quedas, hist>>

--------------------------------------------------------------------------------
(* Time *)

\* disponivel_em is reached
DecorrerAtraso(r) ==
  /\ fila[r] = "atrasada"
  /\ fila' = [fila EXCEPT ![r] = "livre"]
  /\ UNCHANGED <<status, attempt, pc, run, dono, emVoo, laco, aEntrar, quedas, hist>>

\* Some goroutine of a live process works on the run, or is about to
EmMaosVivas(r) ==
  \/ \E t \in Threads : run[t] = r
  \/ \E d \in Dispatchers : r \in lote[d] \cup orfaos[d]

\* A claim gets older than Visibilidade.  Config asks for a value above the
\* longest execution (dispatcher.go:51-54); `Pontual` says that it is.
Vencer(r) ==
  /\ fila[r] = "presa"
  /\ Pontual => ~EmMaosVivas(r)
  /\ fila' = [fila EXCEPT ![r] = "vencida"]
  /\ UNCHANGED <<status, attempt, pc, run, dono, emVoo, laco, aEntrar, quedas, hist>>

--------------------------------------------------------------------------------
(* The loop: Dispatcher.Run, cicloDeClaim, RecuperarOrfaos *)

NoLaco(d) == pc[d] = "laco" /\ lote[d] = {} /\ orfaos[d] = {}

\* cicloDeClaim reads its free places; the claim statement takes its snapshot
IniciarClaim(d) ==
  /\ NoLaco(d)
  /\ MaxConcorrente - emVoo[d] > 0
  /\ vagas' = [vagas EXCEPT ![d] = MaxConcorrente - emVoo[d]]
  /\ \E p \in Numeracoes : alvo' = [alvo EXCEPT ![d] = Elegiveis(p)]
  /\ pc' = [pc EXCEPT ![d] = "claim"]
  /\ UNCHANGED <<banco, run, dono, emVoo, lote, orfaos, aEntrar, quedas, hist>>

\* the statement locks and updates its rows, and commits; if it fails the
\* loop just goes on, and if its answer is lost nobody works on the rows
ConcluirClaim(d) ==
  /\ pc[d] = "claim"
  /\ \/ \E S \in Lotes(alvo[d], vagas[d]) :
          /\ Reivindicar(S)
          /\ \/ lote' = [lote EXCEPT ![d] = S]
             \/ BancoFalha /\ lote' = lote
     \/ BancoFalha /\ UNCHANGED <<fila, lote>>
  /\ pc' = [pc EXCEPT ![d] = "laco"]
  /\ alvo' = [alvo EXCEPT ![d] = {}]
  /\ vagas' = [vagas EXCEPT ![d] = 0]
  /\ UNCHANGED <<status, attempt, run, dono, emVoo, orfaos, aEntrar, quedas, hist>>

\* Mutant: the goroutine is not counted
LancarSemContar(d, g) ==
  /\ pc[g] = "ociosa"
  /\ \E r \in lote[d] :
       /\ lote' = [lote EXCEPT ![d] = @ \ {r}]
       /\ run' = [run EXCEPT ![g] = r]
  /\ pc' = [pc EXCEPT ![g] = "marcar"]
  /\ dono' = [dono EXCEPT ![g] = d]
  /\ UNCHANGED <<banco, emVoo, vagas, alvo, orfaos, aEntrar, quedas, hist>>

\* one turn of `for _, it := range itens`
Lancar(d, g) ==
  /\ pc[g] = "ociosa"
  /\ \E r \in lote[d] :
       /\ lote' = [lote EXCEPT ![d] = @ \ {r}]
       /\ run' = [run EXCEPT ![g] = r]
  /\ pc' = [pc EXCEPT ![g] = "marcar"]
  /\ dono' = [dono EXCEPT ![g] = d]
  /\ emVoo' = [emVoo EXCEPT ![d] = @ + 1]
  /\ UNCHANGED <<banco, vagas, alvo, orfaos, aEntrar, quedas, hist>>

\* Mutant: the items are freed and their runs left alone
RecuperarSemFalhar(d) ==
  /\ NoLaco(d)
  /\ Vencidas # {}
  /\ Recuperar
  /\ UNCHANGED <<status, attempt, pc, run, dono, emVoo, laco, aEntrar, quedas, hist>>

\* RecuperarOrfaos: the items are free before `falhar` touches their runs
RecuperarOrfaos(d) ==
  /\ NoLaco(d)
  /\ Vencidas # {}
  /\ Recuperar
  /\ \/ orfaos' = [orfaos EXCEPT ![d] = Vencidas]
     \/ BancoFalha /\ orfaos' = orfaos
  /\ UNCHANGED <<status, attempt, pc, run, dono, emVoo, vagas, alvo, lote,
                 aEntrar, quedas, hist>>

\* one turn of `for _, it := range itens`: the loop goroutine runs `falhar`
FalharOrfao(d) ==
  /\ pc[d] = "laco"
  /\ \E r \in orfaos[d] :
       /\ orfaos' = [orfaos EXCEPT ![d] = @ \ {r}]
       /\ run' = [run EXCEPT ![d] = r]
  /\ pc' = [pc EXCEPT ![d] = "falhar"]
  /\ UNCHANGED <<banco, dono, emVoo, vagas, alvo, lote, aEntrar, quedas, hist>>

--------------------------------------------------------------------------------
(* processar and falhar, one action per database statement *)

IrPara(t, ponto) == pc' = [pc EXCEPT ![t] = ponto]

\* A call of Transicionar by goroutine t: it goes on at `certo`, or at `erro`
\* when the edge is not in the graph or the database fails
Chamar(t, para, certo, erro) ==
  \/ /\ Transicionar(run[t], para)
     /\ IrPara(t, certo) \/ (BancoFalha /\ IrPara(t, erro))
  \/ /\ BancoFalha \/ ~PodeIr(status[run[t]], para)
     /\ UNCHANGED status
     /\ IrPara(t, erro)

\* the goroutine returns, its deferred emVoo-- with it; the loop goes on
Retornar(t) ==
  /\ run' = [run EXCEPT ![t] = Nenhum]
  /\ IF t \in Dispatchers
       THEN IrPara(t, "laco") /\ UNCHANGED <<dono, emVoo>>
       ELSE /\ IrPara(t, "ociosa")
            /\ dono' = [dono EXCEPT ![t] = Nenhum]
            /\ emVoo' = [emVoo EXCEPT ![dono[t]] = @ - 1]

MarcarRunning(t) ==
  /\ pc[t] = "marcar"
  /\ Chamar(t, "running", "executar", "soltar")
  /\ inicios' = [inicios EXCEPT ![run[t]] = IF status'[run[t]] # status[run[t]]
                                              THEN @ + 1 ELSE @]
  /\ UNCHANGED <<fila, attempt, run, dono, emVoo, laco, aEntrar, quedas, avisos>>

\* `d.executar` returns, with or without an error
Executar(t) ==
  /\ pc[t] = "executar"
  /\ IrPara(t, "sucesso") \/ IrPara(t, "falhar")
  /\ UNCHANGED <<banco, run, dono, emVoo, laco, aEntrar, quedas, hist>>

\* the error of this transition is logged, and Done follows all the same
MarcarSuccess(t) ==
  /\ pc[t] = "sucesso"
  /\ Chamar(t, "success", "done", "done")
  /\ UNCHANGED <<fila, attempt, run, dono, emVoo, laco, aEntrar, quedas, hist>>

\* Mutant: the error of the transition is ignored
MarcarFailedSemParar(t) ==
  /\ pc[t] = "falhar"
  /\ Chamar(t, "failed", "incrementar", "incrementar")
  /\ UNCHANGED <<fila, attempt, run, dono, emVoo, laco, aEntrar, quedas, hist>>

MarcarFailed(t) ==
  /\ pc[t] = "falhar"
  /\ Chamar(t, "failed", "incrementar", "done")
  /\ UNCHANGED <<fila, attempt, run, dono, emVoo, laco, aEntrar, quedas, hist>>

\* Mutants: the comparison off by one; a counter of what is left
IncrementarComUmaAMais(t) ==
  /\ pc[t] = "incrementar"
  /\ attempt' = [attempt EXCEPT ![run[t]] = @ + 1]
  /\ IrPara(t, IF attempt'[run[t]] > MaxTentativas THEN "avisar" ELSE "retrying")
  /\ UNCHANGED <<status, fila, run, dono, emVoo, laco, aEntrar, quedas, hist>>
DecrementarTentativa(t) ==
  /\ pc[t] = "incrementar"
  /\ attempt' = [attempt EXCEPT ![run[t]] = @ - 1]
  /\ IrPara(t, IF attempt'[run[t]] >= MaxTentativas THEN "avisar" ELSE "retrying")
  /\ UNCHANGED <<status, fila, run, dono, emVoo, laco, aEntrar, quedas, hist>>

\* IncrementarTentativa, and the test of its answer
IncrementarTentativa(t) ==
  /\ pc[t] = "incrementar"
  /\ \/ /\ attempt' = [attempt EXCEPT ![run[t]] = @ + 1]
        /\ \/ IrPara(t, IF attempt'[run[t]] >= MaxTentativas THEN "avisar"
                                                            ELSE "retrying")
           \/ BancoFalha /\ IrPara(t, "done")
     \/ BancoFalha /\ UNCHANGED attempt /\ IrPara(t, "done")
  /\ UNCHANGED <<status, fila, run, dono, emVoo, laco, aEntrar, quedas, hist>>

Avisar(t) ==
  /\ pc[t] = "avisar"
  /\ avisos' = [avisos EXCEPT ![run[t]] = @ + 1]
  /\ IrPara(t, "done")
  /\ UNCHANGED <<banco, run, dono, emVoo, laco, aEntrar, quedas, inicios>>

MarcarRetrying(t) ==
  /\ pc[t] = "retrying"
  /\ Chamar(t, "retrying", "queued", "done")
  /\ UNCHANGED <<fila, attempt, run, dono, emVoo, laco, aEntrar, quedas, hist>>

MarcarQueued(t) ==
  /\ pc[t] = "queued"
  /\ Chamar(t, "queued", "release", "done")
  /\ UNCHANGED <<fila, attempt, run, dono, emVoo, laco, aEntrar, quedas, hist>>

\* Mutant: the item goes, even when a new attempt is due
EncerrarApagando(t) ==
  /\ pc[t] \in {"done", "soltar", "release"}
  /\ Done(run[t])
  /\ Retornar(t)
  /\ UNCHANGED <<status, attempt, laco, aEntrar, quedas, hist>>

\* The last statement of a goroutine; its error is ignored or logged
Encerrar(t) ==
  /\ pc[t] \in {"done", "soltar", "release"}
  /\ \/ pc[t] = "done"    /\ Done(run[t])
     \/ pc[t] = "soltar"  /\ Release(run[t], "livre")
     \/ pc[t] = "release" /\ Release(run[t], "atrasada")
     \/ BancoFalha /\ UNCHANGED fila
  /\ Retornar(t)
  /\ UNCHANGED <<status, attempt, laco, aEntrar, quedas, hist>>

Trabalhar(t) ==
  \/ MarcarRunning(t) \/ Executar(t) \/ MarcarSuccess(t)
  \/ MarcarFailed(t) \/ IncrementarTentativa(t) \/ Avisar(t)
  \/ MarcarRetrying(t) \/ MarcarQueued(t) \/ Encerrar(t)

--------------------------------------------------------------------------------
(* A process dies between two statements, with all its goroutines, and is  *)
(* started again with an empty memory.                                     *)

DoProcesso(d, t) == t = d \/ (t \in Goroutines /\ dono[t] = d)

Cair(d) ==
  /\ quedas < MaxQuedas
  /\ pc[d] # "desligado"
  /\ quedas' = quedas + 1
  /\ pc' = [t \in Threads |-> IF ~DoProcesso(d, t) THEN pc[t]
                              ELSE IF t = d THEN "laco" ELSE "ociosa"]
  /\ run' = [t \in Threads |-> IF DoProcesso(d, t) THEN Nenhum ELSE run[t]]
  /\ dono' = [g \in Goroutines |-> IF dono[g] = d THEN Nenhum ELSE dono[g]]
  /\ emVoo' = [emVoo EXCEPT ![d] = 0]
  /\ vagas' = [vagas EXCEPT ![d] = 0]
  /\ alvo' = [alvo EXCEPT ![d] = {}]
  /\ lote' = [lote EXCEPT ![d] = {}]
  /\ orfaos' = [orfaos EXCEPT ![d] = {}]
  /\ UNCHANGED <<banco, aEntrar, hist>>

Laco(d) ==
  \/ IniciarClaim(d) \/ ConcluirClaim(d) \/ RecuperarOrfaos(d) \/ FalharOrfao(d)
  \/ \E g \in Goroutines : Lancar(d, g)

Next ==
  \/ \E r \in Runs : Enfileirar(r) \/ EntrarNaFila(r) \/ DecorrerAtraso(r) \/ Vencer(r)
  \/ \E d \in Dispatchers : Laco(d) \/ Cair(d)
  \/ \E t \in Threads : Trabalhar(t)

Spec == Init /\ [][Next]_vars

--------------------------------------------------------------------------------

\* Every variable has its type; emVoo is a Go int, and a negative count is
\* not excluded here.
TypeOK ==
  /\ status \in [Runs -> Status]
  /\ fila \in [Runs -> EstadoDoItem]
  /\ attempt \in [Runs -> Nat]
  /\ aEntrar \subseteq Runs
  /\ pc \in [Threads -> Pontos]
  /\ run \in [Threads -> Runs \cup {Nenhum}]
  /\ dono \in [Goroutines -> Dispatchers \cup {Nenhum}]
  /\ emVoo \in [Dispatchers -> Int]
  /\ vagas \in [Dispatchers -> Nat]
  /\ alvo \in [Dispatchers -> SUBSET Runs]
  /\ lote \in [Dispatchers -> SUBSET Runs]
  /\ orfaos \in [Dispatchers -> SUBSET Runs]
  /\ quedas \in 0..MaxQuedas
  /\ inicios \in [Runs -> Nat]
  /\ avisos \in [Runs -> Nat]

(***************************************************************************)
(* Whatever dies, fails or is slow                                         *)
(***************************************************************************)

\* A run is started at most MaxTentativas times, however its workers die: an
\* orphan counts as a failed attempt so that "a poisonous run" cannot bring
\* workers down in a cycle (dispatcher.go:146-149).
TentativasLimitadas == \A r \in Runs : inicios[r] <= MaxTentativas

\* The alert goes out at most once for a run, never at a failure that is
\* retried: who is alerted finds the run failed for good, with no attempt
\* left (dispatcher.go:249-258).
AvisoSoNoFim ==
  \A r \in Runs : avisos[r] > 0 =>
    avisos[r] = 1 /\ status[r] = "failed" /\ attempt[r] = MaxTentativas

\* cicloDeClaim asks for the free places only, so no process has more than
\* MaxConcorrente items launched or about to be (dispatcher.go:173-178).
VagasRespeitadas ==
  \A d \in Dispatchers :
    Cardinality({g \in Goroutines : dono[g] = d}) + Cardinality(lote[d])
      <= MaxConcorrente

\* The dispatchers implement the life of a run that RunLifecycle promises:
\* no interleaving, death or lost answer makes a run walk another way.
Vida == INSTANCE RunLifecycle
ImplementaVida == Vida!Spec

(***************************************************************************)
(* Why: the invariant the proofs of DispatcherProofs rest on               *)
(***************************************************************************)

\* A goroutine past its first statement has a run
Trabalhando(t) == pc[t] \notin {"desligado", "laco", "claim", "ociosa"}
TemRun == \A t \in Threads : Trabalhando(t) => run[t] \in Runs

\* `failed` and `retrying` are a baton: only the goroutine that moved the run
\* to `failed` moves it on, and it knows where the run is
Decidindo == {"incrementar", "avisar", "retrying", "queued"}
UmDecide ==
  \A t, u \in Threads :
    pc[t] \in Decidindo /\ pc[u] \in Decidindo /\ run[t] = run[u] => t = u
OndeEsta ==
  \A t \in Threads :
    /\ pc[t] \in {"incrementar", "avisar", "retrying"} => status[run[t]] = "failed"
    /\ pc[t] = "queued" => status[run[t]] = "retrying"

\* starts and attempts, by the state of the run
Conta(r) ==
  /\ status[r] # "canceled"
  /\ status[r] \in {"created", "queued", "retrying"} =>
       inicios[r] = attempt[r] /\ attempt[r] < MaxTentativas
  /\ status[r] \in {"running", "success"} =>
       inicios[r] = attempt[r] + 1 /\ attempt[r] < MaxTentativas
  /\ status[r] = "failed" =>
       attempt[r] <= inicios[r] /\ inicios[r] <= attempt[r] + 1 /\ inicios[r] <= MaxTentativas

\* ... and by where its goroutine is
ContaDe(t) ==
  /\ pc[t] = "incrementar" => inicios[run[t]] = attempt[run[t]] + 1
  /\ pc[t] = "retrying" => /\ inicios[run[t]] = attempt[run[t]]
                            /\ attempt[run[t]] < MaxTentativas
  /\ pc[t] = "avisar" => /\ attempt[run[t]] = MaxTentativas
                          /\ inicios[run[t]] = MaxTentativas
                          /\ avisos[run[t]] = 0

\* Every start of a run is matched by an attempt counted against it or by a
\* goroutine about to count it, through deaths, stolen items and lost answers:
\* the inductive invariant behind the bounds above.
ContaDeTentativas ==
  /\ TemRun /\ UmDecide /\ OndeEsta
  /\ \A r \in Runs : Conta(r)
  /\ \A t \in Threads : ContaDe(t)
  /\ AvisoSoNoFim

\* The deployment runs one dispatcher, as deployments/kubernetes does
UmSo == Cardinality({d \in Dispatchers : pc[d] # "desligado"}) = 1

(***************************************************************************)
(* While no execution outlives the visibility timeout (Pontual)            *)
(***************************************************************************)

\* Nobody takes a run from a live worker: one dispatcher runs, or several of which
\* none has died, with every statement answered
Sossego == UmSo \/ (quedas = 0 /\ ~BancoFalha)

\* Two goroutines, of one process or two, never execute the same run at the
\* same time: FOR UPDATE in Transicionar and SKIP LOCKED in Claim are there
\* for it (runs.go:61-63, queue.go:7-10).  With a second dispatcher it holds until
\* a death or a lost answer: then the sweep of one, late, may fail a run the other
\* has started in the meantime, and hand it out again.
UmExecutor == Sossego =>
  \A t, u \in Threads :
    pc[t] = "executar" /\ pc[u] = "executar" /\ run[t] = run[u] => t = u

\* Where one dispatcher runs, the claimed items of a workflow never exceed its
\* limit (queue.go:76-80, "no path by which more items leave the queue"); the
\* claims of two may overlap, and then they do.
LimitePorWorkflow == UmSo =>
  \A r \in Presas : MaxAtivos[r] # 0 => JaEmVoo(r) <= MaxAtivos[r]

\* A run that still has to be executed has its row in the queue: without the
\* row no dispatcher ever sees it again (dispatcher.go:3-6, "nothing is lost").
NadaSePerde ==
  \A r \in Runs \ aEntrar :
    status[r] \in {"queued", "running", "retrying"} => fila[r] # "fora"

\* ... which holds for any number of dispatchers, as long as none dies.
NadaSePerdeSemQuedas == quedas = 0 => NadaSePerde

\* A run marked `running` has its row in the queue, so that the sweep can find
\* it when its worker is dead (dispatcher.go:141-144, "running for ever").  With
\* a second dispatcher it holds until a death: then a sweep may delete the item
\* another dispatcher has just claimed.
NenhumZumbi == UmSo \/ quedas = 0 =>
  \A r \in Runs : status[r] = "running" => fila[r] # "fora"

(***************************************************************************)
(* Liveness.  The goroutines of a live process are scheduled, tickers tick *)
(* and clocks advance: weak fairness of every step of a thread and of the  *)
(* two clocks.  Nothing is assumed of the producer, of the answer of       *)
(* `executar`, or of deaths.  The sweep shares its goroutine with the      *)
(* claims: its tick waits in the channel while a claim runs, and `select`  *)
(* picks at random among ready channels, so it is not passed over for ever *)
(* (strong fairness).                                                      *)
(***************************************************************************)

Justica ==
  /\ \A t \in Threads : WF_vars(Trabalhar(t))
  /\ \A d \in Dispatchers :
       /\ WF_vars(IniciarClaim(d)) /\ WF_vars(ConcluirClaim(d))
       /\ SF_vars(RecuperarOrfaos(d)) /\ WF_vars(FalharOrfao(d))
       /\ WF_vars(\E g \in Goroutines : Lancar(d, g))
  /\ \A r \in Runs : WF_vars(DecorrerAtraso(r)) /\ WF_vars(Vencer(r))

SpecJusta == Spec /\ Justica

\* The run is over: done, or failed with everybody told, and out of the queue
Encerrado(r) ==
  /\ status[r] = "success" \/ (status[r] = "failed" /\ avisos[r] = 1)
  /\ fila[r] = "fora"

\* Until a process dies, what enters the queue is executed to an end: no item
\* is starved by retries, backoff, priorities or limits.
TodoRunTermina ==
  \A r \in Runs : fila[r] # "fora" ~> Encerrado(r) \/ quedas > 0

\* With one dispatcher that may die anywhere, no run stays `running` for ever:
\* the sweep finds it (dispatcher.go:139-144).
NaoRodaParaSempre ==
  \A r \in Runs : UmSo /\ status[r] = "running" ~> status[r] # "running"

\* Neither a process nor a workflow runs more than it may
LimitesRespeitados == VagasRespeitadas /\ LimitePorWorkflow

\* Nobody forgets a run: what is marked running keeps its item, and without a death
\* what was enqueued is executed
NinguemEsquece == NenhumZumbi /\ NadaSePerdeSemQuedas
================================================================================
