--------------------------------- MODULE Runner ---------------------------------
(***************************************************************************)
(* The runner (src/internal/application/execution/runner.go) of one        *)
(* process of `brevis scheduler`, over the Kubernetes executor             *)
(* (src/internal/execution/kubernetes/executor.go): one goroutine per run, *)
(* one per step of the current level.  Pods belong to the cluster and      *)
(* outlive the process.  Reading and following the log is left out.        *)
(*                                                                         *)
(* What the dispatcher does with the result of an execution is its own     *)
(* module; here a run that failed, or was cut short by a death, is         *)
(* executed again while attempts are left (IniciarDeNovo).                 *)
(***************************************************************************)
EXTENDS StepGraph

CONSTANTS
  Runs,             \* runs of one workflow
  MaxPods,          \* --max-pods, the capacity of `vagas`
  MaxTentativas,    \* bound on executions of a run and on attempts of a step
  Configuracoes,    \* Config.MaxTentativas of the dispatcher, Runner.MaxTentativas
  ManterPodEmFalha, \* Opcoes.ManterPodEmFalha
  MaxQuedas         \* bound: deaths, stops and failed deletions

ASSUME AlgumPasso == Nos # {}     \* Validate refuses a workflow without steps
ASSUME VagasPositivas == MaxPods \in Nat \ {0}
ASSUME TentativasPositivas == /\ MaxTentativas \in Nat \ {0}
                              /\ Configuracoes \subseteq (1..MaxTentativas) \X (1..MaxTentativas)
ASSUME QuedasNaturais == MaxQuedas \in Nat /\ ManterPodEmFalha \in BOOLEAN

VARIABLES
  grafo,      \* the definition the runs were created with
  config,     \* how often a run is executed, how often a step is tried
  execucao,   \* what an execution of a run is doing
  attempt,    \* runs.attempt
  nivel,      \* the level a run is in
  pc,         \* where the goroutine of a step is
  passo,      \* its attempt
  resultado,  \* what the attempt came to
  tarefa,     \* task_runs.status, by step and attempt
  vagas,      \* the steps that hold a place
  pod,        \* the phase of every pod, by name
  origem,     \* history: the attempt of the run that created the pod
  encerrando, \* the context is cancelled
  quedas,     \* how much of MaxQuedas is spent
  interrompido\* history: there was one

doRun  == <<execucao, attempt, nivel>>
doPod  == <<pod, origem>>
resto  == <<grafo, config>>
falhas == <<encerrando, quedas, interrompido>>
vars == <<grafo, config, execucao, attempt, nivel, pc, passo, resultado, tarefa,
          vagas, pod, origem, encerrando, quedas, interrompido>>

Passos == Runs \X Nos
Vezes == 0..(MaxTentativas - 1)
Nomes == Passos \X Vezes \X Vezes
Fases == {"nao", "vivo", "succeeded", "failed"}

\* Mutant: the name has the attempt of the run, as its comment says
NomeComTentativaDoRun(x) == <<x, attempt[x[1]], passo[x]>>

\* NomeDoPod hashes run, step and both attempts; montar fills in the attempt of
\* the step and leaves that of the run at zero
Nome(x) == <<x, 0, passo[x]>>

Init ==
  /\ grafo \in Grafos
  /\ config \in Configuracoes
  /\ \E R \in (SUBSET Runs) \ {{}} :     \* the runs the dispatcher hands over
       execucao = [r \in Runs |-> IF r \in R THEN "livre" ELSE "fora"]
  /\ attempt = [r \in Runs |-> 0]
  /\ nivel = [r \in Runs |-> 0]
  /\ pc = [x \in Passos |-> "fora"]
  /\ passo = [x \in Passos |-> 0]
  /\ resultado = [x \in Passos |-> "nada"]
  /\ tarefa = [x \in Passos |-> [t \in Vezes |-> "nao"]]
  /\ vagas = {}
  /\ pod = [m \in Nomes |-> "nao"]
  /\ origem = [m \in Nomes |-> 0]
  /\ encerrando = FALSE
  /\ quedas \in 0..MaxQuedas
  /\ interrompido = FALSE

--------------------------------------------------------------------------------
(* Runner.Run and rodarNivel *)

DoNivel(r, k) == {x \in Passos : x[1] = r /\ x[2] \in Nivel(grafo, k)}

\* the goroutines of a level start together
Lancar(r, k) ==
  /\ nivel' = [nivel EXCEPT ![r] = k]
  /\ pc' = [x \in Passos |-> IF x \in DoNivel(r, k) THEN "vaga" ELSE pc[x]]
  /\ passo' = [x \in Passos |-> IF x \in DoNivel(r, k) THEN 0 ELSE passo[x]]

\* a cycle is an error before anything starts
Comecar(r) ==
  /\ execucao[r] = "livre" /\ ~encerrando
  /\ IF TemNiveis(grafo)
       THEN execucao' = [execucao EXCEPT ![r] = "rodando"] /\ Lancar(r, 1)
       ELSE /\ execucao' = [execucao EXCEPT ![r] = "erro"]
            /\ UNCHANGED <<nivel, pc, passo>>
  /\ UNCHANGED <<resto, attempt, resultado, tarefa, vagas, doPod, falhas>>

\* every goroutine of the run goes, with the run
Limpa(r) == [x \in Passos |-> IF x[1] = r THEN "fora" ELSE pc[x]]

\* Mutant: the next level starts when one step has ended well
FecharNivelNoPrimeiro(r) ==
  /\ execucao[r] = "rodando"
  /\ \E x \in DoNivel(r, nivel[r]) : pc[x] = "ok"
  /\ \/ /\ ~Ultimo(grafo, nivel[r])
        /\ Lancar(r, nivel[r] + 1)
        /\ UNCHANGED execucao
     \/ /\ Ultimo(grafo, nivel[r])
        /\ execucao' = [execucao EXCEPT ![r] = "ok"]
        /\ pc' = Limpa(r)
        /\ UNCHANGED <<nivel, passo>>
  /\ UNCHANGED <<resto, attempt, resultado, tarefa, vagas, doPod, falhas>>

\* wg.Wait: the level closes when all its steps are over; one error ends the run
FecharNivel(r) ==
  /\ execucao[r] = "rodando"
  /\ \A x \in DoNivel(r, nivel[r]) : pc[x] \in {"ok", "falhou"}
  /\ LET falhou == \E x \in DoNivel(r, nivel[r]) : pc[x] = "falhou" IN
     \/ /\ ~falhou /\ ~Ultimo(grafo, nivel[r])
        /\ Lancar(r, nivel[r] + 1)
        /\ UNCHANGED execucao
     \/ /\ falhou \/ Ultimo(grafo, nivel[r])
        /\ execucao' = [execucao EXCEPT ![r] = IF falhou THEN "erro" ELSE "ok"]
        /\ pc' = Limpa(r)
        /\ UNCHANGED <<nivel, passo>>
  /\ UNCHANGED <<resto, attempt, resultado, tarefa, vagas, doPod, falhas>>

\* Dispatcher.falhar: the next attempt of the run
IniciarDeNovo(r) ==
  /\ execucao[r] = "erro"
  /\ attempt[r] + 1 < config[1]
  /\ attempt' = [attempt EXCEPT ![r] = @ + 1]
  /\ execucao' = [execucao EXCEPT ![r] = "livre"]
  /\ UNCHANGED <<resto, nivel, pc, passo, resultado, tarefa, vagas, doPod, falhas>>

--------------------------------------------------------------------------------
(* rodarNo: attempts of a step *)

Desfecho(x, s) == resultado' = [resultado EXCEPT ![x] = s]

IrPara(x, ponto) == pc' = [pc EXCEPT ![x] = ponto]

\* a statement on a cancelled context fails, and the step goes on without it
Gravar(x, s) ==
  tarefa' = IF encerrando THEN tarefa ELSE [tarefa EXCEPT ![x][passo[x]] = s]

\* ocupar, and marcarInicio; a cancelled context may win the select
Ocupar(x) ==
  /\ pc[x] = "vaga"
  /\ Cardinality(vagas) < MaxPods
  /\ vagas' = vagas \cup {x}
  /\ Gravar(x, "running")
  /\ IrPara(x, "criar")
  /\ UNCHANGED <<resto, doRun, passo, resultado, doPod, falhas>>

DesistirDaVaga(x) ==
  /\ pc[x] = "vaga" /\ encerrando
  /\ IrPara(x, "falhou")
  /\ UNCHANGED <<resto, doRun, passo, resultado, tarefa, vagas, doPod, falhas>>

\* Mutant: the place of a step that failed is not given back
TerminarSemLiberar(x) ==
  /\ pc[x] = "fim"
  /\ Gravar(x, IF resultado[x] = "succeeded" THEN "success" ELSE "failed")
  /\ vagas' = IF resultado[x] = "succeeded" THEN vagas \ {x} ELSE vagas
  /\ IrPara(x, IF resultado[x] = "succeeded" THEN "ok"
               ELSE IF passo[x] + 1 < config[2] THEN "recuo" ELSE "falhou")
  /\ Desfecho(x, "nada")
  /\ UNCHANGED <<resto, doRun, passo, doPod, falhas>>

\* Mutant: one attempt too many
TerminarUmaAMais(x) ==
  /\ pc[x] = "fim"
  /\ Gravar(x, IF resultado[x] = "succeeded" THEN "success" ELSE "failed")
  /\ vagas' = vagas \ {x}
  /\ IrPara(x, IF resultado[x] = "succeeded" THEN "ok"
               ELSE IF ~encerrando /\ passo[x] < config[2] THEN "recuo" ELSE "falhou")
  /\ Desfecho(x, "nada")
  /\ UNCHANGED <<resto, doRun, passo, doPod, falhas>>

\* marcarFim and libera; the next attempt, or the end of the step
Terminar(x) ==
  /\ pc[x] = "fim"
  /\ Gravar(x, IF resultado[x] = "succeeded" THEN "success" ELSE "failed")
  /\ vagas' = vagas \ {x}
  /\ \/ resultado[x] = "succeeded" /\ IrPara(x, "ok")
     \/ resultado[x] # "succeeded" /\ ~encerrando /\ passo[x] + 1 < config[2] /\ IrPara(x, "recuo")
     \/ /\ resultado[x] # "succeeded"
        /\ encerrando \/ passo[x] + 1 = config[2]
        /\ IrPara(x, "falhou")
  /\ Desfecho(x, "nada")
  /\ UNCHANGED <<resto, doRun, passo, doPod, falhas>>

\* the wait between two attempts holds no place
Repetir(x) ==
  /\ pc[x] = "recuo"
  /\ \/ IrPara(x, "vaga") /\ passo' = [passo EXCEPT ![x] = @ + 1]
     \/ encerrando /\ IrPara(x, "falhou") /\ UNCHANGED passo
  /\ UNCHANGED <<resto, doRun, resultado, tarefa, vagas, doPod, falhas>>

--------------------------------------------------------------------------------
(* Executor.Execute, acompanhar, esperarSair, limpar *)

\* The pod is there, from now on or from before: what exists is adopted
Aparece(x) ==
  IF pod[Nome(x)] = "nao"
    THEN /\ pod' = [pod EXCEPT ![Nome(x)] = "vivo"]
         /\ origem' = [origem EXCEPT ![Nome(x)] = attempt[x[1]]]
    ELSE UNCHANGED doPod

\* Something that nobody hears of goes wrong
Calado ==
  /\ quedas < MaxQuedas
  /\ quedas' = quedas + 1
  /\ interrompido' = TRUE
  /\ UNCHANGED encerrando

\* CriarPod: any error but "already exists" ends the attempt, and behind a
\* cancelled request or a lost answer there may be a pod
Criar(x) ==
  /\ pc[x] = "criar"
  /\ \/ IrPara(x, "esperar") /\ Aparece(x) /\ UNCHANGED <<resultado, falhas>>
     \/ /\ IrPara(x, "fim")
        /\ Desfecho(x, "erro")
        /\ \/ UNCHANGED <<doPod, falhas>>
           \/ Aparece(x) /\ encerrando /\ UNCHANGED falhas
           \/ Aparece(x) /\ Calado
  /\ UNCHANGED <<resto, doRun, passo, tarefa, vagas>>

\* the pod is over
VerFim(x) ==
  /\ pc[x] = "esperar"
  /\ pod[Nome(x)] \in {"succeeded", "failed"}
  /\ Desfecho(x, pod[Nome(x)])
  /\ IrPara(x, "limpar")
  /\ UNCHANGED <<resto, doRun, passo, tarefa, vagas, doPod, falhas>>

\* LerPod fails, the context is cancelled, or EsperaParaIniciar is over
DesistirDoPod(x) ==
  /\ pc[x] = "esperar"
  /\ Desfecho(x, "erro")
  /\ IrPara(x, "limpar")
  /\ UNCHANGED <<resto, doRun, passo, tarefa, vagas, doPod, falhas>>

Apagar(x) ==
  /\ pod' = [pod EXCEPT ![Nome(x)] = "nao"]
  /\ origem' = [origem EXCEPT ![Nome(x)] = 0]

\* Mutant: only a pod that succeeded is deleted
LimparSoSucesso(x) ==
  /\ pc[x] = "limpar"
  /\ IF resultado[x] = "succeeded" THEN Apagar(x) ELSE UNCHANGED doPod
  /\ IrPara(x, "fim")
  /\ UNCHANGED <<resto, doRun, passo, resultado, tarefa, vagas, falhas>>

\* Mutant: the place is given back before the pod is deleted
LimparSemVaga(x) ==
  /\ pc[x] = "limpar"
  /\ \/ x \in vagas /\ vagas' = vagas \ {x} /\ UNCHANGED <<pc, doPod>>
     \/ Apagar(x) /\ IrPara(x, "fim") /\ UNCHANGED vagas
  /\ UNCHANGED <<resto, doRun, passo, resultado, tarefa, falhas>>

\* limpar, with a context of its own and its error ignored
Limpar(x) ==
  /\ pc[x] = "limpar"
  /\ \/ /\ IF resultado[x] # "succeeded" /\ ManterPodEmFalha THEN UNCHANGED doPod ELSE Apagar(x)
        /\ UNCHANGED falhas
     \/ UNCHANGED doPod /\ Calado
  /\ IrPara(x, "fim")
  /\ UNCHANGED <<resto, doRun, passo, resultado, tarefa, vagas>>

--------------------------------------------------------------------------------
(* The cluster *)

Vivo(m) == pod[m] = "vivo"
PodsDe(x) == {m \in Nomes : m[1] = x}

\* A pod is scheduled and runs to its end, or is evicted
Concluir(m) ==
  /\ Vivo(m)
  /\ \E f \in {"succeeded", "failed"} : pod' = [pod EXCEPT ![m] = f]
  /\ UNCHANGED <<resto, doRun, pc, passo, resultado, tarefa, vagas, origem, falhas>>

--------------------------------------------------------------------------------
(* Stops and deaths *)

\* SIGTERM: the context is cancelled
Encerrar ==
  /\ ~encerrando /\ quedas < MaxQuedas
  /\ quedas' = quedas + 1
  /\ encerrando' = TRUE
  /\ interrompido' = TRUE
  /\ UNCHANGED <<resto, doRun, pc, passo, resultado, tarefa, vagas, doPod>>

\* The process is gone and another one starts; the sweep of the dispatcher
\* takes the runs it was executing for failed
Recomecar ==
  /\ execucao' = [r \in Runs |-> IF execucao[r] = "rodando" THEN "erro" ELSE execucao[r]]
  /\ pc' = [x \in Passos |-> "fora"]
  /\ vagas' = {}
  /\ encerrando' = FALSE
  /\ interrompido' = TRUE
  /\ UNCHANGED <<resto, attempt, nivel, passo, resultado, tarefa, doPod>>

\* cmdScheduler returns at the first of its two loops that ends, and the loop of
\* the scheduler does not wait for executions
Sair == encerrando /\ Recomecar /\ UNCHANGED quedas

\* A death; one of its causes is a line of the log sent into a closed channel
Cair == quedas < MaxQuedas /\ quedas' = quedas + 1 /\ Recomecar

--------------------------------------------------------------------------------

DoPasso(x) ==
  \/ Ocupar(x) \/ DesistirDaVaga(x) \/ Criar(x) \/ VerFim(x)
  \/ Limpar(x) \/ Terminar(x) \/ Repetir(x)

Next ==
  \/ \E r \in Runs : Comecar(r) \/ FecharNivel(r) \/ IniciarDeNovo(r)
  \/ \E x \in Passos : DoPasso(x) \/ DesistirDoPod(x)
  \/ \E m \in Nomes : Concluir(m)
  \/ Encerrar \/ Sair \/ Cair

Spec == Init /\ [][Next]_vars

DaExecucao(r) ==
  \/ Comecar(r) \/ FecharNivel(r) \/ IniciarDeNovo(r)
  \/ \E x \in Passos : x[1] = r /\ (DoPasso(x) \/ \E m \in PodsDe(x) : Concluir(m))

\* Some goroutine or pod of every execution goes on while it can: less than the
\* scheduling of goroutines and (an assumption on the cluster) of pods gives
Justica ==
  /\ \A r \in Runs : WF_vars(DaExecucao(r))
  /\ WF_vars(Sair)

SpecJusta == Spec /\ Justica

--------------------------------------------------------------------------------
(* Properties *)

\* The state is one of the program's; the outcome of an attempt is known when
\* its goroutine is past the pod
TypeOK ==
  /\ grafo \in Grafos /\ config \in Configuracoes
  /\ execucao \in [Runs -> {"fora", "livre", "rodando", "ok", "erro"}]
  /\ attempt \in [Runs -> Vezes]
  /\ nivel \in [Runs -> 0..Cardinality(Nos)]
  /\ pc \in [Passos -> {"fora", "vaga", "criar", "esperar", "limpar", "fim", "recuo", "ok", "falhou"}]
  /\ passo \in [Passos -> Vezes]
  /\ resultado \in [Passos -> {"nada", "succeeded", "failed", "erro"}]
  /\ tarefa \in [Passos -> [Vezes -> {"nao", "running", "success", "failed"}]]
  /\ vagas \subseteq Passos
  /\ pod \in [Nomes -> Fases]
  /\ origem \in [Nomes -> Vezes]
  /\ quedas \in 0..MaxQuedas
  /\ encerrando \in BOOLEAN /\ interrompido \in BOOLEAN
  /\ \A x \in Passos : pc[x] \in {"limpar", "fim"} => resultado[x] # "nada"

TemSucesso(x) == \E t \in Vezes : tarefa[x][t] = "success"
TemPodVivo(x) == \E m \in PodsDe(x) : Vivo(m)

\* While nothing was killed, a pod of a step runs only when every step it depends
\* on has a row of success and no pod left alive: Run knows levels only, and the
\* edges have to follow from graph.Niveis and the end of each level
OrdemDoGrafo ==
  ~interrompido =>
    \A x \in Passos : TemPodVivo(x) =>
      \A y \in Passos : (y[1] = x[1] /\ <<y[2], x[2]>> \in grafo) => TemSucesso(y) /\ ~TemPodVivo(y)

\* While nothing was killed, the pods of all runs together that are alive are
\* never more than --max-pods: the place is given back after the pod is deleted
TetoDePods ==
  ~interrompido => Cardinality({m \in Nomes : Vivo(m)}) <= MaxPods

\* While nothing was killed, no pod is left behind when its step has gone on,
\* unless failed pods are kept (limpar runs on every way out of acompanhar)
NenhumPodOrfao ==
  (~interrompido /\ ~ManterPodEmFalha) =>
    \A m \in Nomes : pod[m] # "nao" =>
      pc[m[1]] \in {"esperar", "limpar"} /\ m = Nome(m[1])

\* Whatever dies, is stopped or fails to be deleted, a step never has two pods
\* alive under `brevis scheduler`, which tries a step once in an execution: the
\* next execution of the run finds the pod of the dead one by its name, and
\* adopts it
UmPodPorPasso ==
  config[2] = 1 => \A x \in Passos : Cardinality({m \in PodsDe(x) : Vivo(m)}) <= 1

\* While nothing was killed, the outcome of an execution is what its steps
\* came to: success when every step has a row of success, an error only with a
\* cycle or with a step whose last row is a failure
DesfechoConfere ==
  ~interrompido => \A r \in Runs :
    /\ execucao[r] = "ok" => \A n \in Nos : TemSucesso(<<r, n>>)
    /\ execucao[r] = "erro" => \/ Ciclico(grafo)
                              \/ \E n \in Nos : tarefa[<<r, n>>][passo[<<r, n>>]] = "failed"

\* The levels cover the graph exactly when Validate finds no cycle, and no step
\* of a graph with a cycle ever gets a pod
CicloNaoRoda ==
  /\ TemNiveis(grafo) <=> ~Ciclico(grafo)
  /\ Ciclico(grafo) => \A m \in Nomes : pod[m] = "nao"

\* The outcome a step reports is the outcome of a pod that this attempt of the
\* run created (the comment of Runner.TentativaDoRun: the attempt of the run is
\* in the name so that a retry does not meet the pod of the attempt before)
PodDestaTentativa ==
  \A x \in Passos :
    (pc[x] = "limpar" /\ resultado[x] \in {"succeeded", "failed"}) => origem[Nome(x)] = attempt[x[1]]

\* Every execution of a run comes to an end: steps waiting for a place do not
\* wait for each other
TodaExecucaoTermina == \A r \in Runs : execucao[r] = "rodando" ~> execucao[r] # "rodando"

\* While nothing was killed, every pod alive is one of a running step that holds a
\* place, and no graph with a cycle has any
PodsSobControle == TypeOK /\ NenhumPodOrfao /\ TetoDePods /\ CicloNaoRoda
================================================================================
