---------------------------- MODULE DispatcherProofs ----------------------------
(***************************************************************************)
(* Proofs about Dispatcher, for any number of runs, dispatchers and        *)
(* goroutines and any bound on deaths.  The bounds on starts, alerts and   *)
(* places, and the refinement of RunLifecycle, assume nothing of Pontual   *)
(* or BancoFalha: statements may fail and items be stolen.  Who executes   *)
(* and what is not forgotten assume Pontual, and say so.                   *)
(***************************************************************************)
EXTENDS Dispatcher, FiniteSetTheorems, TLAPS

(***************************************************************************)
(* Types                                                                   *)
(***************************************************************************)

\* What the claim statement may pick are runs
LEMMA LotesSaoRuns ==
  ASSUME NEW A, NEW n, NEW S \in Lotes(A, n)
  PROVE  S \subseteq Runs
BY DEF Lotes, Livres

\* A counter of runs, incremented for one of them, counts
LEMMA Somar ==
  ASSUME NEW f \in [Runs -> Nat], NEW x
  PROVE  [f EXCEPT ![x] = @ + 1] \in [Runs -> Nat]
<1>1. CASE x \in Runs
  <2> DEFINE n == f[x] + 1
  <2>1. n \in Nat
    BY <1>1
  <2> HIDE DEF n
  <2>2. [f EXCEPT ![x] = n] \in [Runs -> Nat]
    BY <2>1
  <2> QED
    BY <2>2 DEF n
<1>2. CASE x \notin Runs
  BY <1>2
<1> QED
  BY <1>1, <1>2

\* The variables have their types at the start
LEMMA TipoInicial == Init => TypeOK
BY QuedasNaturais DEF Init, TypeOK, Threads, Pontos, PontosDeFalhar, Status, EstadoDoItem

\* A step of `processar` or `falhar` keeps the types
LEMMA TipoDoTrabalho ==
  ASSUME TypeOK, NEW t \in Threads, Trabalhar(t)
  PROVE  TypeOK'
<1> USE DEF TypeOK, IrPara, Chamar, Transicionar, PodeIr, transicoes, Status,
            Pontos, PontosDeFalhar, banco, laco, hist
<1>1. CASE MarcarRunning(t)
  <2>1. status' \in [Runs -> Status] /\ pc' \in [Threads -> Pontos]
    BY <1>1 DEF MarcarRunning
  <2>2. inicios' \in [Runs -> Nat]
    <3> DEFINE soma == IF status'[run[t]] # status[run[t]] THEN inicios[run[t]] + 1
                                                          ELSE inicios[run[t]]
    <3>1. inicios' = [inicios EXCEPT ![run[t]] = soma]
      BY <1>1 DEF MarcarRunning
    <3>2. run[t] \in Runs => soma \in Nat
      OBVIOUS
    <3> HIDE DEF soma
    <3> QED
      BY <3>1, <3>2
  <2> QED
    BY <1>1, <2>1, <2>2 DEF MarcarRunning
<1>2. CASE Executar(t)
  BY <1>2 DEF Executar
<1>3. CASE MarcarSuccess(t)
  BY <1>3 DEF MarcarSuccess
<1>4. CASE MarcarFailed(t)
  BY <1>4 DEF MarcarFailed
<1>5. CASE IncrementarTentativa(t)
  <2>1. attempt' \in [Runs -> Nat]
    BY <1>5 DEF IncrementarTentativa
  <2>2. \E ponto \in Pontos : pc' = [pc EXCEPT ![t] = ponto]
    BY <1>5 DEF IncrementarTentativa
  <2> QED
    BY <1>5, <2>1, <2>2 DEF IncrementarTentativa
<1>6. CASE Avisar(t)
  <2>1. avisos' \in [Runs -> Nat]
    BY <1>6, Somar DEF Avisar
  <2>2. pc' \in [Threads -> Pontos]
    BY <1>6 DEF Avisar
  <2> QED
    BY <1>6, <2>1, <2>2 DEF Avisar
<1>7. CASE MarcarRetrying(t)
  BY <1>7 DEF MarcarRetrying
<1>8. CASE MarcarQueued(t)
  BY <1>8 DEF MarcarQueued
<1>9. CASE Encerrar(t)
  <2>1. fila' \in [Runs -> EstadoDoItem]
    BY <1>9 DEF Encerrar, Done, Release, EstadoDoItem
  <2>2. run' \in [Threads -> Runs \cup {Nenhum}] /\ pc' \in [Threads -> Pontos]
    BY <1>9 DEF Encerrar, Retornar
  <2>3. dono' \in [Goroutines -> Dispatchers \cup {Nenhum}] /\ emVoo' \in [Dispatchers -> Int]
    BY <1>9 DEF Encerrar, Retornar
  <2> QED
    BY <1>9, <2>1, <2>2, <2>3 DEF Encerrar
<1> QED
  BY <1>1, <1>2, <1>3, <1>4, <1>5, <1>6, <1>7, <1>8, <1>9 DEF Trabalhar

\* A step of the loop of a dispatcher keeps the types
LEMMA TipoDoLaco ==
  ASSUME TypeOK, NEW d \in Dispatchers, Laco(d)
  PROVE  TypeOK'
<1> USE DEF TypeOK, Pontos, PontosDeFalhar, Threads, banco, laco, hist
<1>1. CASE IniciarClaim(d)
  BY <1>1, ConcorrenciaPositiva DEF IniciarClaim, Elegiveis, Livres
<1>2. CASE ConcluirClaim(d)
  <2>1. /\ fila' \in [Runs -> EstadoDoItem]
        /\ lote' \in [Dispatchers -> SUBSET Runs]
    BY <1>2, LotesSaoRuns DEF ConcluirClaim, Reivindicar, EstadoDoItem
  <2> QED
    BY <1>2, <2>1 DEF ConcluirClaim
<1>3. CASE RecuperarOrfaos(d)
  <2>1. fila' \in [Runs -> EstadoDoItem] /\ orfaos' \in [Dispatchers -> SUBSET Runs]
    BY <1>3 DEF RecuperarOrfaos, Recuperar, Vencidas, EstadoDoItem
  <2> QED
    BY <1>3, <2>1 DEF RecuperarOrfaos
<1>4. CASE FalharOrfao(d)
  BY <1>4 DEF FalharOrfao
<1>5. ASSUME NEW g \in Goroutines, Lancar(d, g)
      PROVE  TypeOK'
  BY <1>5 DEF Lancar
<1> QED
  BY <1>1, <1>2, <1>3, <1>4, <1>5 DEF Laco

\* Every step of the system keeps the types
LEMMA TipoPreservado == TypeOK /\ [Next]_vars => TypeOK'
<1> SUFFICES ASSUME TypeOK, [Next]_vars PROVE TypeOK'
  OBVIOUS
<1>1. ASSUME NEW r \in Runs,
             Enfileirar(r) \/ EntrarNaFila(r) \/ DecorrerAtraso(r) \/ Vencer(r)
      PROVE  TypeOK'
  BY <1>1 DEF TypeOK, Enfileirar, EntrarNaFila, DecorrerAtraso, Vencer, Enqueue,
              Transicionar, PodeIr, transicoes, Status, EstadoDoItem, laco, hist
<1>2. ASSUME NEW d \in Dispatchers, Laco(d) PROVE TypeOK'
  BY <1>2, TipoDoLaco
<1>3. ASSUME NEW d \in Dispatchers, Cair(d) PROVE TypeOK'
  BY <1>3, QuedasNaturais
  DEF TypeOK, Cair, DoProcesso, Pontos, PontosDeFalhar, banco, hist
<1>4. ASSUME NEW t \in Threads, Trabalhar(t) PROVE TypeOK'
  BY <1>4, TipoDoTrabalho
<1>5. CASE UNCHANGED vars
  BY <1>5 DEF TypeOK, vars
<1> QED
  BY <1>1, <1>2, <1>3, <1>4, <1>5 DEF Next

\* Every variable of the dispatchers keeps its type: a step of any process, a
\* death or a failed statement never leaves the tables or the memory ill-formed.
THEOREM TiposCorretos == Spec => []TypeOK
BY TipoInicial, TipoPreservado, PTL DEF Spec

(***************************************************************************)
(* Attempts                                                                *)
(***************************************************************************)

\* Nothing was started and nothing counted at the start
LEMMA ContaInicial == Init => ContaDeTentativas
BY TentativasPositivas
DEF Init, ContaDeTentativas, TemRun, UmDecide, OndeEsta, Conta, ContaDe,
    AvisoSoNoFim, Trabalhando, Decidindo, Threads

\* The columns the invariant speaks of
Colunas == <<status, attempt, inicios, avisos>>

\* A step that leaves the columns alone and brings no goroutine into the middle
\* of a decision keeps the invariant.
LEMMA PassoQuieto ==
  ASSUME TypeOK, ContaDeTentativas, UNCHANGED Colunas,
         \A t \in Threads :
           \/ pc'[t] = pc[t] /\ run'[t] = run[t]
           \/ pc'[t] \notin Decidindo /\ (Trabalhando(t)' => run'[t] \in Runs)
  PROVE  ContaDeTentativas'
<1> USE DEF ContaDeTentativas, Colunas
<1>1. TemRun'
  BY DEF TemRun, Trabalhando
<1>2. UmDecide'
  BY DEF UmDecide
<1>3. OndeEsta'
  BY DEF OndeEsta, Decidindo
<1>4. (\A r \in Runs : Conta(r))'
  BY DEF Conta
<1>5. (\A t \in Threads : ContaDe(t))'
  BY DEF ContaDe, Decidindo
<1>6. AvisoSoNoFim'
  BY DEF AvisoSoNoFim
<1> QED
  BY <1>1, <1>2, <1>3, <1>4, <1>5, <1>6

\* A goroutine t changes the columns of its own run only, and nobody else is
\* deciding that run: the invariant is kept if it is for this run and for t.
LEMMA PassoDoDono ==
  ASSUME TypeOK, ContaDeTentativas,
         NEW t \in Threads, NEW r \in Runs, run[t] = r, run' = run,
         NEW ponto \in Pontos, pc' = [pc EXCEPT ![t] = ponto],
         \A s \in Runs \ {r} : /\ status'[s] = status[s] /\ attempt'[s] = attempt[s]
                               /\ inicios'[s] = inicios[s] /\ avisos'[s] = avisos[s],
         \A u \in Threads \ {t} : pc[u] \in Decidindo => run[u] # r,
         Conta(r)', ContaDe(t)',
         ponto \in {"incrementar", "avisar", "retrying"} => status'[r] = "failed",
         ponto = "queued" => status'[r] = "retrying",
         avisos'[r] > 0 => /\ avisos'[r] = 1 /\ status'[r] = "failed"
                           /\ attempt'[r] = MaxTentativas
  PROVE  ContaDeTentativas'
<1> USE DEF ContaDeTentativas
<1>0. pc'[t] = ponto /\ \A u \in Threads \ {t} : pc'[u] = pc[u]
  BY DEF TypeOK
<1>1. TemRun'
  BY <1>0 DEF TemRun, Trabalhando
<1>2. UmDecide'
  BY <1>0 DEF UmDecide
<1>3. OndeEsta'
  <2> SUFFICES ASSUME NEW u \in Threads
               PROVE  /\ pc'[u] \in {"incrementar", "avisar", "retrying"} => status'[run[u]] = "failed"
                      /\ pc'[u] = "queued" => status'[run[u]] = "retrying"
    BY DEF OndeEsta
  <2>1. CASE u = t
    BY <2>1, <1>0
  <2>2. CASE u # t
    BY <2>2, <1>0 DEF OndeEsta, TemRun, Trabalhando, Decidindo
  <2> QED
    BY <2>1, <2>2
<1>4. (\A s \in Runs : Conta(s))'
  <2> SUFFICES ASSUME NEW s \in Runs PROVE Conta(s)'
    OBVIOUS
  <2>1. CASE s = r
    BY <2>1
  <2>2. CASE s # r
    BY <2>2 DEF Conta
  <2> QED
    BY <2>1, <2>2
<1>5. (\A u \in Threads : ContaDe(u))'
  <2> SUFFICES ASSUME NEW u \in Threads PROVE ContaDe(u)'
    OBVIOUS
  <2>1. CASE u = t
    BY <2>1
  <2>2. CASE u # t
    BY <2>2, <1>0 DEF ContaDe, TemRun, Trabalhando, Decidindo
  <2> QED
    BY <2>1, <2>2
<1>6. AvisoSoNoFim'
  BY DEF AvisoSoNoFim
<1> QED
  BY <1>1, <1>2, <1>3, <1>4, <1>5, <1>6

\* What a call of Transicionar by t can do: walk an edge, or nothing
LEMMA ResultadoDeChamar ==
  ASSUME TypeOK, NEW t \in Threads, run[t] \in Runs, NEW para \in Status,
         NEW certo, NEW erro, Chamar(t, para, certo, erro)
  PROVE  /\ \E ponto \in {certo, erro} : pc' = [pc EXCEPT ![t] = ponto]
         /\ \/ /\ PodeIr(status[run[t]], para)
               /\ status' = [status EXCEPT ![run[t]] = para]
            \/ status' = status /\ pc' = [pc EXCEPT ![t] = erro]
BY DEF Chamar, Transicionar, IrPara

\* Nobody is deciding a run that is neither `failed` nor `retrying`
LEMMA NinguemDecide ==
  ASSUME ContaDeTentativas, NEW r \in Runs, status[r] \notin {"failed", "retrying"}
  PROVE  \A u \in Threads : pc[u] \in Decidindo => run[u] # r
BY DEF ContaDeTentativas, OndeEsta, Decidindo

\* Every statement of `processar` and `falhar` keeps the count of attempts right
LEMMA ContaDoTrabalho ==
  ASSUME TypeOK, ContaDeTentativas, NEW t \in Threads, Trabalhar(t)
  PROVE  ContaDeTentativas'
<1>r. PICK r \in Runs : r = run[t]
  BY DEF Trabalhar, MarcarRunning, Executar, MarcarSuccess, MarcarFailed,
         IncrementarTentativa, Avisar, MarcarRetrying, MarcarQueued, Encerrar,
         ContaDeTentativas, TemRun, Trabalhando
<1>c. Conta(r) /\ ContaDe(t)
  BY <1>r DEF ContaDeTentativas
<1>a. avisos[r] > 0 => avisos[r] = 1 /\ status[r] = "failed" /\ attempt[r] = MaxTentativas
  BY <1>r DEF ContaDeTentativas, AvisoSoNoFim
<1>n. /\ status[r] \in Status /\ attempt[r] \in Nat /\ inicios[r] \in Nat /\ avisos[r] \in Nat
      /\ MaxTentativas \in Nat \ {0}
  BY <1>r, TentativasPositivas DEF TypeOK
<1>1. CASE MarcarRunning(t)
  <2>1. Chamar(t, "running", "executar", "soltar") /\ UNCHANGED <<attempt, avisos, run>>
    BY <1>1 DEF MarcarRunning
  <2>2. PICK ponto \in {"executar", "soltar"} : pc' = [pc EXCEPT ![t] = ponto]
    BY <2>1, <1>r, ResultadoDeChamar DEF Status
  <2>3. CASE status[r] = "queued" /\ status' = [status EXCEPT ![r] = "running"]
    <3>1. inicios' = [inicios EXCEPT ![r] = inicios[r] + 1] /\ status'[r] = "running"
      BY <1>1, <1>r, <2>3 DEF MarcarRunning, TypeOK
    <3>2. Conta(r)'
      BY <1>c, <1>r, <1>n, <2>1, <2>3, <3>1 DEF Conta, TypeOK
    <3>3. ContaDe(t)'
      BY <2>2 DEF ContaDe, TypeOK
    <3>4. \A u \in Threads : pc[u] \in Decidindo => run[u] # r
      BY <1>r, <2>3, NinguemDecide
    <3> QED
      BY <1>r, <1>a, <1>n, <2>1, <2>2, <2>3, <3>1, <3>2, <3>3, <3>4, PassoDoDono
      DEF TypeOK, Pontos
  <2>4. CASE status' = status
    <3>1. inicios' = inicios
      BY <1>1, <1>r, <2>4 DEF MarcarRunning, TypeOK
    <3> QED
      BY <2>1, <2>2, <2>4, <3>1, <1>r, PassoQuieto DEF Colunas, TypeOK, Decidindo
  <2> QED
    BY <2>1, <2>3, <2>4, <1>r, ResultadoDeChamar DEF Status, PodeIr, transicoes
<1>2. CASE Executar(t)
  BY <1>2, <1>r, PassoQuieto
  DEF Executar, IrPara, Colunas, Decidindo, TypeOK, banco, hist
<1>3. CASE MarcarSuccess(t)
  <2>1. Chamar(t, "success", "done", "done") /\ UNCHANGED <<attempt, inicios, avisos, run>>
    BY <1>3 DEF MarcarSuccess, hist
  <2>2. pc' = [pc EXCEPT ![t] = "done"]
    BY <2>1, <1>r, ResultadoDeChamar DEF Status
  <2>3. CASE status[r] = "running" /\ status' = [status EXCEPT ![r] = "success"]
    <3>1. status'[r] = "success"
      BY <1>r, <2>3 DEF TypeOK
    <3>2. Conta(r)' /\ ContaDe(t)'
      BY <1>c, <2>1, <2>2, <2>3, <3>1 DEF Conta, ContaDe, TypeOK
    <3>3. \A u \in Threads : pc[u] \in Decidindo => run[u] # r
      BY <1>r, <2>3, NinguemDecide
    <3> QED
      BY <1>r, <1>a, <1>n, <2>1, <2>2, <2>3, <3>1, <3>2, <3>3, PassoDoDono
      DEF TypeOK, Pontos, PontosDeFalhar
  <2>4. CASE status' = status
    BY <2>1, <2>2, <2>4, <1>r, PassoQuieto DEF Colunas, TypeOK, Decidindo
  <2> QED
    BY <2>1, <2>3, <2>4, <1>r, ResultadoDeChamar DEF Status, PodeIr, transicoes
<1>4. CASE MarcarFailed(t)
  <2>1. Chamar(t, "failed", "incrementar", "done") /\ UNCHANGED <<attempt, inicios, avisos, run>>
    BY <1>4 DEF MarcarFailed, hist
  <2>2. PICK ponto \in {"incrementar", "done"} : pc' = [pc EXCEPT ![t] = ponto]
    BY <2>1, <1>r, ResultadoDeChamar DEF Status
  <2>3. CASE status[r] = "running" /\ status' = [status EXCEPT ![r] = "failed"]
    <3>1. status'[r] = "failed"
      BY <1>r, <2>3 DEF TypeOK
    <3>2. Conta(r)'
      BY <1>c, <1>n, <2>1, <2>3, <3>1 DEF Conta
    <3>3. ContaDe(t)'
      BY <1>c, <1>r, <2>1, <2>2, <2>3 DEF Conta, ContaDe, TypeOK
    <3>4. \A u \in Threads : pc[u] \in Decidindo => run[u] # r
      BY <1>r, <2>3, NinguemDecide
    <3> QED
      BY <1>r, <1>a, <1>n, <2>1, <2>2, <2>3, <3>1, <3>2, <3>3, <3>4, PassoDoDono
      DEF TypeOK, Pontos, PontosDeFalhar
  <2>4. CASE status' = status /\ pc' = [pc EXCEPT ![t] = "done"]
    BY <2>1, <2>4, <1>r, PassoQuieto DEF Colunas, TypeOK, Decidindo
  <2> QED
    BY <2>1, <2>3, <2>4, <1>r, ResultadoDeChamar DEF Status, PodeIr, transicoes
<1>5. CASE IncrementarTentativa(t)
  <2>1. /\ status[r] = "failed" /\ inicios[r] = attempt[r] + 1 /\ inicios[r] <= MaxTentativas
        /\ UNCHANGED <<status, inicios, avisos, run>>
    BY <1>5, <1>r, <1>c DEF IncrementarTentativa, ContaDeTentativas, OndeEsta, Conta, ContaDe, hist
  <2>2. \A u \in Threads \ {t} : pc[u] \in Decidindo => run[u] # r
    BY <1>5, <1>r DEF IncrementarTentativa, ContaDeTentativas, UmDecide, Decidindo
  <2>3. PICK ponto \in {"avisar", "retrying", "done"} : pc' = [pc EXCEPT ![t] = ponto]
    BY <1>5 DEF IncrementarTentativa, IrPara
  <2>4. CASE attempt' = [attempt EXCEPT ![r] = @ + 1]
    <3>1. attempt'[r] = attempt[r] + 1
      BY <1>r, <2>4 DEF TypeOK
    <3>2. pc'[t] = ponto
      BY <2>3 DEF TypeOK
    <3>3. Conta(r)'
      BY <1>n, <2>1, <3>1 DEF Conta
    <3>4. /\ ponto = "avisar" => attempt'[r] >= MaxTentativas
          /\ ponto = "retrying" => ~(attempt'[r] >= MaxTentativas)
      <4>1. \/ pc' = [pc EXCEPT ![t] = IF attempt'[r] >= MaxTentativas THEN "avisar" ELSE "retrying"]
            \/ pc' = [pc EXCEPT ![t] = "done"]
        BY <1>5, <1>r DEF IncrementarTentativa, IrPara
      <4> QED
        BY <4>1, <3>2 DEF TypeOK
    <3>5. avisos[r] = 0
      BY <1>a, <1>n, <2>1
    <3>6. ContaDe(t)'
      BY <1>n, <1>r, <2>1, <3>1, <3>2, <3>4, <3>5 DEF ContaDe
    <3>7. \A s \in Runs \ {r} : /\ status'[s] = status[s] /\ attempt'[s] = attempt[s]
                               /\ inicios'[s] = inicios[s] /\ avisos'[s] = avisos[s]
      BY <2>1, <2>4 DEF TypeOK
    <3>8. ponto \in Pontos
      BY DEF Pontos, PontosDeFalhar
    <3>9. avisos'[r] > 0 => /\ avisos'[r] = 1 /\ status'[r] = "failed"
                            /\ attempt'[r] = MaxTentativas
      BY <2>1, <3>5
    <3> QED
      BY <1>r, <2>1, <2>2, <2>3, <3>3, <3>6, <3>7, <3>8, <3>9, PassoDoDono
  <2>5. CASE attempt' = attempt /\ pc' = [pc EXCEPT ![t] = "done"]
    BY <2>1, <2>5, <1>r, PassoQuieto DEF Colunas, TypeOK, Decidindo
  <2> QED
    BY <1>5, <1>r, <2>4, <2>5 DEF IncrementarTentativa, IrPara
<1>6. CASE Avisar(t)
  <2>1. /\ status[r] = "failed" /\ attempt[r] = MaxTentativas /\ inicios[r] = MaxTentativas
        /\ avisos[r] = 0 /\ UNCHANGED <<status, attempt, inicios, run>>
    BY <1>6, <1>r, <1>c DEF Avisar, ContaDeTentativas, OndeEsta, ContaDe, banco
  <2>2. \A u \in Threads \ {t} : pc[u] \in Decidindo => run[u] # r
    BY <1>6, <1>r DEF Avisar, ContaDeTentativas, UmDecide, Decidindo
  <2>3. pc' = [pc EXCEPT ![t] = "done"] /\ avisos' = [avisos EXCEPT ![r] = @ + 1]
    BY <1>6, <1>r DEF Avisar, IrPara
  <2>4. avisos'[r] = 1
    BY <2>1, <2>3, <1>r DEF TypeOK
  <2>5. Conta(r)' /\ ContaDe(t)'
    BY <1>n, <2>1, <2>3 DEF Conta, ContaDe, TypeOK
  <2> QED
    BY <1>r, <1>n, <2>1, <2>2, <2>3, <2>4, <2>5, PassoDoDono
    DEF TypeOK, Pontos, PontosDeFalhar
<1>7. CASE MarcarRetrying(t)
  <2>1. /\ Chamar(t, "retrying", "queued", "done") /\ UNCHANGED <<attempt, inicios, avisos, run>>
        /\ inicios[r] = attempt[r] /\ attempt[r] < MaxTentativas
    BY <1>7, <1>r, <1>c DEF MarcarRetrying, ContaDe, hist
  <2>2. PICK ponto \in {"queued", "done"} : pc' = [pc EXCEPT ![t] = ponto]
    BY <2>1, <1>r, ResultadoDeChamar DEF Status
  <2>3. \A u \in Threads \ {t} : pc[u] \in Decidindo => run[u] # r
    BY <1>7, <1>r DEF MarcarRetrying, ContaDeTentativas, UmDecide, Decidindo
  <2>4. CASE status' = [status EXCEPT ![r] = "retrying"]
    <3>1. status'[r] = "retrying"
      BY <1>r, <2>4 DEF TypeOK
    <3>2. Conta(r)' /\ ContaDe(t)'
      BY <1>n, <2>1, <2>2, <3>1 DEF Conta, ContaDe, TypeOK
    <3>3. avisos[r] = 0
      BY <1>a, <1>n, <2>1
    <3>4. \A s \in Runs \ {r} : /\ status'[s] = status[s] /\ attempt'[s] = attempt[s]
                               /\ inicios'[s] = inicios[s] /\ avisos'[s] = avisos[s]
      BY <2>1, <2>4 DEF TypeOK
    <3>5. ponto \in Pontos
      BY DEF Pontos, PontosDeFalhar
    <3>6. avisos'[r] > 0 => /\ avisos'[r] = 1 /\ status'[r] = "failed"
                            /\ attempt'[r] = MaxTentativas
      BY <2>1, <3>3
    <3> QED
      BY <1>r, <2>1, <2>2, <2>3, <3>1, <3>2, <3>4, <3>5, <3>6, PassoDoDono
  <2>5. CASE status' = status /\ pc' = [pc EXCEPT ![t] = "done"]
    BY <2>1, <2>5, <1>r, PassoQuieto DEF Colunas, TypeOK, Decidindo
  <2> QED
    BY <2>1, <2>4, <2>5, <1>r, ResultadoDeChamar DEF Status
<1>8. CASE MarcarQueued(t)
  <2>1. Chamar(t, "queued", "release", "done") /\ UNCHANGED <<attempt, inicios, avisos, run>>
    BY <1>8 DEF MarcarQueued, hist
  <2>2. PICK ponto \in {"release", "done"} : pc' = [pc EXCEPT ![t] = ponto]
    BY <2>1, <1>r, ResultadoDeChamar DEF Status
  <2>3. /\ status[r] = "retrying"
        /\ \A u \in Threads \ {t} : pc[u] \in Decidindo => run[u] # r
    BY <1>8, <1>r DEF MarcarQueued, ContaDeTentativas, UmDecide, OndeEsta, Decidindo
  <2>4. CASE status' = [status EXCEPT ![r] = "queued"]
    <3>1. status'[r] = "queued"
      BY <1>r, <2>4 DEF TypeOK
    <3>2. Conta(r)' /\ ContaDe(t)'
      BY <1>c, <2>1, <2>2, <2>3, <3>1 DEF Conta, ContaDe, TypeOK
    <3>3. avisos[r] = 0
      BY <1>a, <1>n, <2>3
    <3>4. \A s \in Runs \ {r} : /\ status'[s] = status[s] /\ attempt'[s] = attempt[s]
                               /\ inicios'[s] = inicios[s] /\ avisos'[s] = avisos[s]
      BY <2>1, <2>4 DEF TypeOK
    <3>5. ponto \in Pontos
      BY DEF Pontos, PontosDeFalhar
    <3>6. avisos'[r] > 0 => /\ avisos'[r] = 1 /\ status'[r] = "failed"
                            /\ attempt'[r] = MaxTentativas
      BY <2>1, <3>3
    <3> QED
      BY <1>r, <2>1, <2>2, <2>3, <3>1, <3>2, <3>4, <3>5, <3>6, PassoDoDono
  <2>5. CASE status' = status
    BY <2>1, <2>2, <2>5, <1>r, PassoQuieto DEF Colunas, TypeOK, Decidindo
  <2> QED
    BY <2>1, <2>4, <2>5, <1>r, ResultadoDeChamar DEF Status
<1>9. CASE Encerrar(t)
  <2>1. \E ponto \in {"laco", "ociosa"} : pc' = [pc EXCEPT ![t] = ponto]
    BY <1>9 DEF Encerrar, Retornar, IrPara
  <2>2. run' = [run EXCEPT ![t] = Nenhum] /\ UNCHANGED Colunas
    BY <1>9 DEF Encerrar, Retornar, Colunas, hist
  <2> QED
    BY <2>1, <2>2, PassoQuieto DEF TypeOK, Decidindo, Trabalhando
<1> QED
  BY <1>1, <1>2, <1>3, <1>4, <1>5, <1>6, <1>7, <1>8, <1>9 DEF Trabalhar

\* So does every step of the system
LEMMA ContaPreservada == TypeOK /\ ContaDeTentativas /\ [Next]_vars => ContaDeTentativas'
<1> SUFFICES ASSUME TypeOK, ContaDeTentativas, [Next]_vars PROVE ContaDeTentativas'
  OBVIOUS
<1> USE DEF Colunas
<1>1. ASSUME NEW r \in Runs, Enfileirar(r) PROVE ContaDeTentativas'
  <2>1. /\ status[r] = "created" /\ status' = [status EXCEPT ![r] = "queued"]
        /\ UNCHANGED <<attempt, inicios, avisos, pc, run>>
    BY <1>1 DEF Enfileirar, Transicionar, hist
  <2>2. \A s \in Runs : IF s = r THEN status'[s] = "queued" ELSE status'[s] = status[s]
    BY <2>1 DEF TypeOK
  <2>3. \A u \in Threads : pc[u] \in Decidindo => run[u] # r
    BY <2>1, NinguemDecide
  <2>4. TemRun' /\ UmDecide' /\ (\A t \in Threads : ContaDe(t))'
    BY <2>1 DEF ContaDeTentativas, TemRun, UmDecide, ContaDe, Trabalhando
  <2>5. OndeEsta'
    BY <2>1, <2>2, <2>3 DEF ContaDeTentativas, OndeEsta, TemRun, Trabalhando, Decidindo
  <2>6. (\A s \in Runs : Conta(s))'
    BY <2>1, <2>2 DEF ContaDeTentativas, Conta
  <2>7. AvisoSoNoFim'
    BY <2>1, <2>2 DEF ContaDeTentativas, AvisoSoNoFim
  <2> QED
    BY <2>4, <2>5, <2>6, <2>7 DEF ContaDeTentativas
<1>2. ASSUME NEW r \in Runs, EntrarNaFila(r) \/ DecorrerAtraso(r) \/ Vencer(r)
      PROVE  ContaDeTentativas'
  BY <1>2, PassoQuieto DEF EntrarNaFila, DecorrerAtraso, Vencer, hist
<1>3. ASSUME NEW d \in Dispatchers, Laco(d) PROVE ContaDeTentativas'
  <2> USE DEF TypeOK, Decidindo, Trabalhando, banco, hist, Threads
  <2>1. CASE IniciarClaim(d)
    BY <2>1, PassoQuieto DEF IniciarClaim
  <2>2. CASE ConcluirClaim(d)
    BY <2>2, PassoQuieto DEF ConcluirClaim
  <2>3. CASE RecuperarOrfaos(d)
    BY <2>3, PassoQuieto DEF RecuperarOrfaos
  <2>4. CASE FalharOrfao(d)
    BY <2>4, PassoQuieto DEF FalharOrfao
  <2>5. ASSUME NEW g \in Goroutines, Lancar(d, g) PROVE ContaDeTentativas'
    BY <2>5, PassoQuieto DEF Lancar
  <2> QED
    BY <1>3, <2>1, <2>2, <2>3, <2>4, <2>5 DEF Laco
<1>4. ASSUME NEW d \in Dispatchers, Cair(d) PROVE ContaDeTentativas'
  BY <1>4, PassoQuieto DEF Cair, DoProcesso, Decidindo, Trabalhando, banco, hist
<1>5. ASSUME NEW t \in Threads, Trabalhar(t) PROVE ContaDeTentativas'
  BY <1>5, ContaDoTrabalho
<1>6. CASE UNCHANGED vars
  BY <1>6, PassoQuieto DEF vars
<1> QED
  BY <1>1, <1>2, <1>3, <1>4, <1>5, <1>6 DEF Next

\* The bookkeeping of attempts is right in every reachable state: whatever
\* dies or fails, starts and counted attempts of a run never drift apart.
THEOREM ContaCorreta == Spec => []ContaDeTentativas
BY TipoInicial, TipoPreservado, ContaInicial, ContaPreservada, PTL DEF Spec

\* No run is started more often than MaxTentativas, so a run that brings its
\* worker down each time stops doing so.
THEOREM RunVenenosoPara == Spec => []TentativasLimitadas
<1>1. TypeOK /\ ContaDeTentativas => TentativasLimitadas
  BY TentativasPositivas
  DEF TypeOK, ContaDeTentativas, Conta, TentativasLimitadas, Status
<1> QED
  BY <1>1, TiposCorretos, ContaCorreta, PTL

\* Nobody is alerted twice about a run, nor about a failure that is retried.
THEOREM UmAvisoNoFim == Spec => []AvisoSoNoFim
BY ContaCorreta, PTL DEF ContaDeTentativas

(***************************************************************************)
(* The dispatchers implement the life of a run that RunLifecycle promises. *)
(* The refinement mapping is the identity on status, inicios and avisos:   *)
(* a statement that moves a run is a step of Vida, every other one a       *)
(* stutter.  What has to be shown is that the guards of Vida, on starts    *)
(* and alerts, hold where the code has no such test: ContaDeTentativas.    *)
(***************************************************************************)

\* What a call of Transicionar by t does to the runs, its edges spelled out
LEMMA MudancaDeChamar ==
  ASSUME TypeOK, NEW t \in Threads, run[t] \in Runs, NEW para \in Status,
         NEW certo, NEW erro, Chamar(t, para, certo, erro),
         status' # status
  PROVE  /\ PodeIr(status[run[t]], para)
         /\ status' = [status EXCEPT ![run[t]] = para]
BY DEF Chamar, Transicionar

\* Every statement of `processar` and `falhar` is a step of the run's life, or none
LEMMA TrabalhoSimulado ==
  ASSUME TypeOK, ContaDeTentativas, NEW t \in Threads, Trabalhar(t)
  PROVE  [Vida!Next]_(Vida!vars)
<1>r. PICK r \in Runs : r = run[t]
  BY DEF Trabalhar, MarcarRunning, Executar, MarcarSuccess, MarcarFailed,
         IncrementarTentativa, Avisar, MarcarRetrying, MarcarQueued, Encerrar,
         ContaDeTentativas, TemRun, Trabalhando
<1>c. /\ Conta(r) /\ ContaDe(t)
      /\ avisos[r] > 0 => avisos[r] = 1 /\ status[r] = "failed" /\ attempt[r] = MaxTentativas
  BY <1>r DEF ContaDeTentativas, AvisoSoNoFim
<1>n. /\ attempt[r] \in Nat /\ inicios[r] \in Nat /\ avisos[r] \in Nat
      /\ MaxTentativas \in Nat \ {0}
  BY <1>r, TentativasPositivas DEF TypeOK
<1> USE DEF Vida!vars
<1>1. CASE MarcarRunning(t)
  <2>1. Chamar(t, "running", "executar", "soltar") /\ UNCHANGED avisos
    BY <1>1 DEF MarcarRunning
  <2>2. CASE status' = status
    <3>1. inicios' = inicios
      BY <1>1, <1>r, <2>2 DEF MarcarRunning, TypeOK
    <3> QED
      BY <2>1, <2>2, <3>1
  <2>3. CASE status' # status
    <3>1. status[r] = "queued" /\ status' = [status EXCEPT ![r] = "running"]
      BY <1>r, <2>1, <2>3, MudancaDeChamar DEF Status, PodeIr, transicoes
    <3>2. inicios' = [inicios EXCEPT ![r] = @ + 1]
      BY <1>1, <1>r, <3>1 DEF MarcarRunning, TypeOK
    <3>3. inicios[r] < MaxTentativas
      BY <1>c, <1>n, <3>1 DEF Conta
    <3>4. Vida!Comecar(r)
      BY <2>1, <3>1, <3>2, <3>3 DEF Vida!Comecar, Vida!Mover
    <3> QED
      BY <3>4 DEF Vida!Next
  <2> QED
    BY <2>2, <2>3
<1>2. CASE Executar(t) \/ IncrementarTentativa(t) \/ Encerrar(t)
  BY <1>2 DEF Executar, IncrementarTentativa, Encerrar, banco, hist
<1>3. CASE MarcarSuccess(t) \/ MarcarFailed(t)
  <2>1. UNCHANGED <<inicios, avisos>>
    BY <1>3 DEF MarcarSuccess, MarcarFailed, hist
  <2>2. CASE status' # status
    <3>1. \/ Chamar(t, "success", "done", "done")
          \/ Chamar(t, "failed", "incrementar", "done")
      BY <1>3 DEF MarcarSuccess, MarcarFailed
    <3>2. /\ status[r] = "running"
          /\ \/ status' = [status EXCEPT ![r] = "success"]
             \/ status' = [status EXCEPT ![r] = "failed"]
      BY <1>r, <2>2, <3>1, MudancaDeChamar DEF Status, PodeIr, transicoes
    <3>3. Vida!Terminar(r)
      BY <2>1, <3>2 DEF Vida!Terminar, Vida!Mover
    <3> QED
      BY <3>3 DEF Vida!Next
  <2> QED
    BY <2>1, <2>2
<1>4. CASE Avisar(t)
  <2>1. status[r] = "failed" /\ inicios[r] = MaxTentativas /\ avisos[r] = 0
    BY <1>4, <1>r, <1>c DEF Avisar, ContaDeTentativas, OndeEsta, ContaDe
  <2>2. avisos' = [avisos EXCEPT ![r] = 1] /\ UNCHANGED <<status, inicios>>
    BY <1>4, <1>r, <2>1 DEF Avisar, banco, TypeOK
  <2>3. Vida!Avisar(r)
    BY <2>1, <2>2 DEF Vida!Avisar
  <2> QED
    BY <2>3 DEF Vida!Next
<1>5. CASE MarcarRetrying(t)
  <2>1. Chamar(t, "retrying", "queued", "done") /\ UNCHANGED <<inicios, avisos>>
    BY <1>5 DEF MarcarRetrying, hist
  <2>2. inicios[r] < MaxTentativas /\ avisos[r] = 0
    <3>1. inicios[r] = attempt[r] /\ attempt[r] < MaxTentativas
      BY <1>5, <1>r, <1>c DEF MarcarRetrying, ContaDe
    <3> QED
      BY <1>c, <1>n, <3>1
  <2>3. CASE status' # status
    <3>1. status[r] = "failed" /\ status' = [status EXCEPT ![r] = "retrying"]
      BY <1>r, <2>1, <2>3, MudancaDeChamar DEF Status, PodeIr, transicoes
    <3>2. Vida!TentarDeNovo(r)
      BY <2>1, <2>2, <3>1 DEF Vida!TentarDeNovo, Vida!Mover
    <3> QED
      BY <3>2 DEF Vida!Next
  <2> QED
    BY <2>1, <2>3
<1>6. CASE MarcarQueued(t)
  <2>1. Chamar(t, "queued", "release", "done") /\ UNCHANGED <<inicios, avisos>>
    BY <1>6 DEF MarcarQueued, hist
  <2>2. status[r] = "retrying"
    BY <1>6, <1>r DEF MarcarQueued, ContaDeTentativas, OndeEsta
  <2>3. CASE status' # status
    <3>1. status' = [status EXCEPT ![r] = "queued"]
      BY <1>r, <2>1, <2>3, MudancaDeChamar DEF Status
    <3>2. Vida!Reenfileirar(r)
      BY <2>1, <2>2, <3>1 DEF Vida!Reenfileirar, Vida!Mover
    <3> QED
      BY <3>2 DEF Vida!Next
  <2> QED
    BY <2>1, <2>3
<1> QED
  BY <1>1, <1>2, <1>3, <1>4, <1>5, <1>6 DEF Trabalhar

\* Every step of the system maps to a step of the life of a run, or to a stutter
LEMMA PassoSimulado ==
  TypeOK /\ ContaDeTentativas /\ [Next]_vars => [Vida!Next]_(Vida!vars)
<1> SUFFICES ASSUME TypeOK, ContaDeTentativas, [Next]_vars
             PROVE  [Vida!Next]_(Vida!vars)
  OBVIOUS
<1>1. ASSUME NEW r \in Runs, Enfileirar(r) PROVE [Vida!Next]_(Vida!vars)
  <2>1. Vida!Enfileirar(r)
    BY <1>1 DEF Enfileirar, Transicionar, Vida!Enfileirar, Vida!Mover, hist
  <2> QED
    BY <2>1 DEF Vida!Next
<1>2. ASSUME NEW r \in Runs, EntrarNaFila(r) \/ DecorrerAtraso(r) \/ Vencer(r)
      PROVE  UNCHANGED Vida!vars
  BY <1>2 DEF EntrarNaFila, DecorrerAtraso, Vencer, hist, Vida!vars
<1>3. ASSUME NEW d \in Dispatchers, Laco(d) \/ Cair(d) PROVE UNCHANGED Vida!vars
  BY <1>3 DEF Laco, IniciarClaim, ConcluirClaim, RecuperarOrfaos, FalharOrfao, Lancar,
              Cair, banco, hist, Vida!vars
<1>4. ASSUME NEW t \in Threads, Trabalhar(t) PROVE [Vida!Next]_(Vida!vars)
  BY <1>4, TrabalhoSimulado
<1>5. CASE UNCHANGED vars
  BY <1>5 DEF vars, Vida!vars
<1> QED
  BY <1>1, <1>2, <1>3, <1>4, <1>5 DEF Next

\* Whatever dies, fails or is stolen, a run lives the life that RunLifecycle
\* promises: bounded starts, no retry after the alert, one alert.
THEOREM VidaImplementada == Spec => ImplementaVida
<1>1. Init => Vida!Init
  BY DEF Init, Vida!Init
<1> QED
  BY <1>1, TiposCorretos, ContaCorreta, PassoSimulado, PTL DEF Spec, ImplementaVida, Vida!Spec

(***************************************************************************)
(* Places                                                                  *)
(***************************************************************************)

\* The goroutines of a process
De(d) == {g \in Goroutines : dono[g] = d}

\* What the loop of a process is in the middle of, and its counter.  A batch is
\* launched before anything else is claimed or swept; the places a claim asked for
\* are still free when it is answered, since only the loop fills them.
Ocupa(d) ==
  /\ pc[d] \notin {"ociosa", "marcar", "soltar", "executar", "sucesso"}
  /\ IsFiniteSet(De(d)) /\ emVoo[d] = Cardinality(De(d))
  /\ Cardinality(De(d)) + Cardinality(lote[d]) <= MaxConcorrente
  /\ lote[d] # {} => pc[d] = "laco" /\ orfaos[d] = {}
  /\ orfaos[d] # {} => pc[d] # "claim"
  /\ pc[d] = "claim" => vagas[d] + emVoo[d] <= MaxConcorrente
Ocupacao ==
  /\ \A g \in Goroutines :
       /\ pc[g] \notin {"desligado", "laco", "claim"}
       /\ pc[g] = "ociosa" <=> dono[g] = Nenhum
  /\ \A t \in Threads : run[t] # Nenhum => Trabalhando(t)
  /\ \A d \in Dispatchers : Ocupa(d)

\* Nothing is occupied at the start
LEMMA OcupacaoInicial == Init => Ocupacao
<1> SUFFICES ASSUME Init PROVE Ocupacao
  OBVIOUS
<1>1. ASSUME NEW d \in Dispatchers PROVE Ocupa(d)
  <2>1. De(d) = {} /\ lote[d] = {}
    BY NomesDistintos DEF Init, De
  <2>2. pc[d] \in {"laco", "desligado"} /\ orfaos[d] = {}
    BY DEF Init, Threads
  <2> QED
    BY <2>1, <2>2, FS_EmptySet, ConcorrenciaPositiva DEF Ocupa, Init
<1> QED
  BY <1>1, NomesDistintos DEF Init, Ocupacao, Threads

\* A process a step leaves alone keeps its places
LEMMA OcupaFica ==
  ASSUME NEW d \in Dispatchers, Ocupa(d), De(d)' = De(d),
         pc'[d] = pc[d], emVoo'[d] = emVoo[d], vagas'[d] = vagas[d],
         lote'[d] = lote[d], orfaos'[d] = orfaos[d]
  PROVE  Ocupa(d)'
BY DEF Ocupa

\* What a claim takes fits into the places it asked for
LEMMA LoteCabe ==
  ASSUME NEW A, NEW n \in Nat, NEW S \in Lotes(A, n)
  PROVE  S \subseteq A /\ S \subseteq Livres /\ IsFiniteSet(S) /\ Cardinality(S) \in Nat /\ Cardinality(S) <= n
<1>1. S \subseteq A \cap Livres
  BY DEF Lotes
<1>2. IsFiniteSet(A \cap Livres) /\ IsFiniteSet(S)
  BY <1>1, RunsFinitos, FS_Subset DEF Livres
<1>3. Cardinality(A \cap Livres) \in Nat /\ Cardinality(S) \in Nat
  BY <1>2, FS_CardinalityType
<1>4. Cardinality(S) = IF Cardinality(A \cap Livres) <= n THEN Cardinality(A \cap Livres) ELSE n
  BY DEF Lotes
<1> QED
  BY <1>1, <1>2, <1>3, <1>4

\* The sets of a process that are counted
LEMMA Contaveis ==
  ASSUME TypeOK, NEW d \in Dispatchers
  PROVE  IsFiniteSet(lote[d]) /\ Cardinality(lote[d]) \in Nat
<1>1. IsFiniteSet(lote[d])
  BY RunsFinitos, FS_Subset DEF TypeOK
<1> QED
  BY <1>1, FS_CardinalityType

\* The loop keeps its places: it launches what it has claimed, and claims what is free
LEMMA OcupacaoDoLaco ==
  ASSUME TypeOK, Ocupacao, NEW d \in Dispatchers, Laco(d)
  PROVE  Ocupacao'
<1> USE DEF Ocupacao
<1>n. MaxConcorrente \in Nat /\ emVoo[d] \in Int /\ vagas[d] \in Nat
  BY ConcorrenciaPositiva DEF TypeOK
<1>l. IsFiniteSet(lote[d]) /\ Cardinality(lote[d]) \in Nat
  BY Contaveis
<1>c. IsFiniteSet(De(d)) /\ Cardinality(De(d)) \in Nat /\ Ocupa(d)
  BY FS_CardinalityType DEF Ocupa
<1>1. CASE IniciarClaim(d)
  <2>1. /\ pc[d] = "laco" /\ lote[d] = {} /\ orfaos[d] = {}
        /\ pc' = [pc EXCEPT ![d] = "claim"] /\ vagas' = [vagas EXCEPT ![d] = MaxConcorrente - emVoo[d]]
        /\ UNCHANGED <<run, dono, emVoo, lote, orfaos>>
    BY <1>1 DEF IniciarClaim, NoLaco, hist
  <2>2. \A e \in Dispatchers : De(e)' = De(e)
    BY <2>1 DEF De
  <2>3. ASSUME NEW e \in Dispatchers PROVE Ocupa(e)'
    <3>1. CASE e = d
      BY <3>1, <2>1, <2>2, <1>n, <1>c DEF Ocupa, TypeOK, Threads
    <3>2. CASE e # d
      BY <3>2, <2>1, <2>2, OcupaFica DEF TypeOK, Threads
    <3> QED
      BY <3>1, <3>2
  <2>4. \A t \in Threads : run'[t] # Nenhum => Trabalhando(t)'
    BY <2>1 DEF Trabalhando, TypeOK, Threads
  <2>5. \A g \in Goroutines : pc'[g] = pc[g]
    BY <2>1, NomesDistintos DEF TypeOK, Threads
  <2> QED
    BY <2>1, <2>3, <2>4, <2>5
<1>2. CASE ConcluirClaim(d)
  <2>1. /\ pc[d] = "claim" /\ pc' = [pc EXCEPT ![d] = "laco"] /\ vagas' = [vagas EXCEPT ![d] = 0]
        /\ UNCHANGED <<run, dono, emVoo, orfaos>>
        /\ lote' = lote \/ \E S \in Lotes(alvo[d], vagas[d]) : lote' = [lote EXCEPT ![d] = S]
    BY <1>2 DEF ConcluirClaim, hist
  <2>2. \A e \in Dispatchers : De(e)' = De(e)
    BY <2>1 DEF De
  <2>3. lote[d] = {} /\ orfaos[d] = {} /\ vagas[d] + emVoo[d] <= MaxConcorrente
    BY <2>1, <1>c DEF Ocupa
  <2>4. Cardinality(De(d)) + Cardinality(lote'[d]) <= MaxConcorrente
    <3>1. CASE lote' = lote
      BY <3>1, <1>c DEF Ocupa
    <3>2. ASSUME NEW S \in Lotes(alvo[d], vagas[d]), lote' = [lote EXCEPT ![d] = S]
          PROVE  Cardinality(De(d)) + Cardinality(lote'[d]) <= MaxConcorrente
      <4>1. Cardinality(S) \in Nat /\ Cardinality(S) <= vagas[d]
        BY <1>n, LoteCabe
      <4>2. lote'[d] = S
        BY <3>2 DEF TypeOK
      <4> QED
        BY <4>1, <4>2, <2>3, <1>n, <1>c DEF Ocupa
    <3> QED
      BY <2>1, <3>1, <3>2
  <2>5. ASSUME NEW e \in Dispatchers PROVE Ocupa(e)'
    <3>1. CASE e = d
      BY <3>1, <2>1, <2>2, <2>3, <2>4, <1>n, <1>c DEF Ocupa, TypeOK, Threads
    <3>2. CASE e # d
      BY <3>2, <2>1, <2>2, OcupaFica DEF TypeOK, Threads
    <3> QED
      BY <3>1, <3>2
  <2>6. \A t \in Threads : run'[t] # Nenhum => Trabalhando(t)'
    BY <2>1 DEF Trabalhando, TypeOK, Threads
  <2>7. \A g \in Goroutines : pc'[g] = pc[g]
    BY <2>1, NomesDistintos DEF TypeOK, Threads
  <2> QED
    BY <2>1, <2>5, <2>6, <2>7
<1>3. CASE RecuperarOrfaos(d)
  <2>1. /\ pc[d] = "laco" /\ lote[d] = {} /\ \A e \in Dispatchers \ {d} : orfaos'[e] = orfaos[e]
        /\ UNCHANGED <<pc, run, dono, emVoo, vagas, lote>>
    BY <1>3 DEF RecuperarOrfaos, NoLaco, TypeOK
  <2>2. \A e \in Dispatchers : De(e)' = De(e)
    BY <2>1 DEF De
  <2>3. ASSUME NEW e \in Dispatchers PROVE Ocupa(e)'
    <3>1. CASE e = d
      BY <3>1, <2>1, <2>2, <1>n, <1>c DEF Ocupa
    <3>2. CASE e # d
      BY <3>2, <2>1, <2>2, OcupaFica
    <3> QED
      BY <3>1, <3>2
  <2> QED
    BY <2>1, <2>3 DEF Trabalhando
<1>4. CASE FalharOrfao(d)
  <2>1. /\ pc[d] = "laco" /\ orfaos[d] # {} /\ pc' = [pc EXCEPT ![d] = "falhar"]
        /\ \A e \in Dispatchers \ {d} : orfaos'[e] = orfaos[e]
        /\ \A t \in Threads \ {d} : run'[t] = run[t]
        /\ UNCHANGED <<dono, emVoo, vagas, lote>>
    BY <1>4 DEF FalharOrfao, TypeOK
  <2>2. \A e \in Dispatchers : De(e)' = De(e)
    BY <2>1 DEF De
  <2>3. ASSUME NEW e \in Dispatchers PROVE Ocupa(e)'
    <3>1. CASE e = d
      BY <3>1, <2>1, <2>2, <1>n, <1>c DEF Ocupa, TypeOK, Threads
    <3>2. CASE e # d
      BY <3>2, <2>1, <2>2, OcupaFica DEF TypeOK, Threads
    <3> QED
      BY <3>1, <3>2
  <2>4. \A t \in Threads : run'[t] # Nenhum => Trabalhando(t)'
    BY <2>1 DEF Trabalhando, TypeOK, Threads
  <2>5. \A g \in Goroutines : pc'[g] = pc[g]
    BY <2>1, NomesDistintos DEF TypeOK, Threads
  <2> QED
    BY <2>1, <2>3, <2>4, <2>5
<1>5. ASSUME NEW g \in Goroutines, Lancar(d, g)
      PROVE  Ocupacao'
  <2>1. PICK r \in lote[d] : lote' = [lote EXCEPT ![d] = @ \ {r}] /\ run' = [run EXCEPT ![g] = r]
    BY <1>5 DEF Lancar
  <2>2. /\ pc[g] = "ociosa" /\ pc' = [pc EXCEPT ![g] = "marcar"]
        /\ dono' = [dono EXCEPT ![g] = d] /\ emVoo' = [emVoo EXCEPT ![d] = emVoo[d] + 1]
        /\ UNCHANGED <<vagas, orfaos>>
    BY <1>5 DEF Lancar
  <2>3. g \notin Dispatchers /\ dono[g] = Nenhum /\ Nenhum \notin Dispatchers
    BY <2>2, NomesDistintos
  <2>4. De(d)' = De(d) \cup {g} /\ g \notin De(d) /\ \A e \in Dispatchers \ {d} : De(e)' = De(e)
    BY <2>2, <2>3 DEF De, TypeOK
  <2>5. IsFiniteSet(De(d)') /\ Cardinality(De(d)') = Cardinality(De(d)) + 1
    BY <2>4, <1>c, FS_AddElement
  <2>6. Cardinality(lote'[d]) = Cardinality(lote[d]) - 1
    <3>1. lote'[d] = lote[d] \ {r}
      BY <2>1 DEF TypeOK
    <3>2. r \in lote[d] /\ IsFiniteSet(lote[d])
      BY <2>1, <1>l
    <3> QED
      BY <3>1, <3>2, FS_RemoveElement
  <2>7. ASSUME NEW e \in Dispatchers PROVE Ocupa(e)'
    <3>1. CASE e = d
      <4>1. pc'[d] = pc[d] /\ pc[d] = "laco" /\ orfaos[d] = {}
        BY <2>1, <2>2, <2>3, <1>c DEF Ocupa, TypeOK, Threads
      <4>2. emVoo'[d] = emVoo[d] + 1
        BY <2>2 DEF TypeOK
      <4> QED
        BY <3>1, <4>1, <4>2, <2>2, <2>5, <2>6, <1>n, <1>c, <1>l DEF Ocupa
    <3>2. CASE e # d
      <4>1. pc'[e] = pc[e] /\ emVoo'[e] = emVoo[e] /\ lote'[e] = lote[e]
        BY <3>2, <2>1, <2>2, <2>3 DEF TypeOK, Threads
      <4> QED
        BY <3>2, <4>1, <2>2, <2>4, OcupaFica
    <3> QED
      BY <3>1, <3>2
  <2>8. \A t \in Threads : run'[t] # Nenhum => Trabalhando(t)'
    BY <2>1, <2>2 DEF Trabalhando, TypeOK
  <2>9. \A h \in Goroutines : /\ pc'[h] \notin {"desligado", "laco", "claim"}
                              /\ pc'[h] = "ociosa" <=> dono'[h] = Nenhum
    BY <2>2, <2>3 DEF TypeOK, Threads
  <2> QED
    BY <2>7, <2>8, <2>9
<1> QED
  BY <1>1, <1>2, <1>3, <1>4, <1>5 DEF Laco

\* A statement in the middle of a run keeps the places, and the goroutine at work
LEMMA MeioDoTrabalho ==
  ASSUME TypeOK, NEW t \in Threads, Trabalhar(t), ~Encerrar(t)
  PROVE  /\ UNCHANGED <<run, dono, emVoo, vagas, alvo, lote, orfaos, fila, aEntrar, quedas>>
         /\ pc[t] \in {"marcar", "executar", "sucesso", "falhar", "incrementar", "avisar", "retrying", "queued"}
         /\ \E ponto \in {"executar", "soltar", "sucesso", "falhar", "done"} \cup Decidindo \cup {"release"} :
              pc' = [pc EXCEPT ![t] = ponto]
         /\ pc[t] \notin {"marcar", "executar", "sucesso"} => pc'[t] \in Decidindo \cup {"release", "done"}
BY DEF Trabalhar, MarcarRunning, Executar, MarcarSuccess, MarcarFailed, IncrementarTentativa, Avisar,
       MarcarRetrying, MarcarQueued, Chamar, IrPara, Decidindo, banco, laco, hist, TypeOK

\* A goroutine that returns gives its place back
LEMMA OcupacaoDoTrabalho ==
  ASSUME TypeOK, Ocupacao, NEW t \in Threads, Trabalhar(t)
  PROVE  Ocupacao'
<1> USE DEF Ocupacao
<1>1. CASE ~Encerrar(t)
  <2>1. /\ UNCHANGED <<run, dono, emVoo, vagas, lote, orfaos>>
        /\ \E ponto \in {"executar", "soltar", "sucesso", "falhar", "done"} \cup Decidindo \cup {"release"} :
             pc' = [pc EXCEPT ![t] = ponto]
        /\ pc[t] \in {"marcar", "executar", "sucesso", "falhar", "incrementar", "avisar", "retrying", "queued"}
        /\ pc[t] \notin {"marcar", "executar", "sucesso"} => pc'[t] \in Decidindo \cup {"release", "done"}
    BY <1>1, MeioDoTrabalho
  <2>2. \A u \in Threads \ {t} : pc'[u] = pc[u]
    BY <2>1 DEF TypeOK
  <2>3. pc'[t] \in {"executar", "soltar", "sucesso", "falhar", "done"} \cup Decidindo \cup {"release"}
    BY <2>1 DEF TypeOK
  <2>4. \A e \in Dispatchers : De(e)' = De(e)
    BY <2>1 DEF De
  <2>5. ASSUME NEW e \in Dispatchers PROVE Ocupa(e)'
    <3>1. CASE e = t
      BY <3>1, <2>1, <2>3, <2>4 DEF Ocupa, Decidindo
    <3>2. CASE e # t
      BY <3>2, <2>1, <2>2, <2>4, OcupaFica DEF Threads
    <3> QED
      BY <3>1, <3>2
  <2>6. \A u \in Threads : run'[u] # Nenhum => Trabalhando(u)'
    BY <2>1, <2>2, <2>3 DEF Trabalhando, Decidindo
  <2>7. \A g \in Goroutines : /\ pc'[g] \notin {"desligado", "laco", "claim"}
                              /\ pc'[g] = "ociosa" <=> dono'[g] = Nenhum
    BY <2>1, <2>2, <2>3 DEF Decidindo, Threads
  <2> QED
    BY <2>5, <2>6, <2>7
<1>2. CASE Encerrar(t)
  <2>1. /\ pc[t] \in {"done", "soltar", "release"} /\ run' = [run EXCEPT ![t] = Nenhum]
        /\ UNCHANGED <<vagas, lote, orfaos>>
    BY <1>2 DEF Encerrar, Retornar, laco
  <2>2. CASE t \in Dispatchers
    <3>1. pc' = [pc EXCEPT ![t] = "laco"] /\ UNCHANGED <<dono, emVoo>>
      BY <1>2, <2>2 DEF Encerrar, Retornar, IrPara
    <3>2. \A e \in Dispatchers : De(e)' = De(e)
      BY <3>1 DEF De
    <3>3. ASSUME NEW e \in Dispatchers PROVE Ocupa(e)'
      <4>1. CASE e = t
        BY <4>1, <2>1, <3>1, <3>2 DEF Ocupa, TypeOK
      <4>2. CASE e # t
        BY <4>2, <2>1, <3>1, <3>2, OcupaFica DEF TypeOK, Threads
      <4> QED
        BY <4>1, <4>2
    <3>4. \A u \in Threads : run'[u] # Nenhum => Trabalhando(u)'
      BY <2>1, <3>1 DEF Trabalhando, TypeOK
    <3>5. \A g \in Goroutines : pc'[g] = pc[g]
      BY <2>2, <3>1, NomesDistintos DEF TypeOK, Threads
    <3> QED
      BY <3>1, <3>3, <3>4, <3>5
  <2>3. CASE t \in Goroutines
    <3>0. PICK d \in Dispatchers : dono[t] = d
      BY <2>1, <2>3 DEF TypeOK
    <3>1. Nenhum \notin Dispatchers /\ t \notin Dispatchers /\ dono[t] = d
      BY <2>3, <3>0, NomesDistintos
    <3>2. /\ pc' = [pc EXCEPT ![t] = "ociosa"] /\ dono' = [dono EXCEPT ![t] = Nenhum]
          /\ emVoo' = [emVoo EXCEPT ![d] = emVoo[d] - 1]
      BY <1>2, <3>1 DEF Encerrar, Retornar, IrPara
    <3>3. De(d)' = De(d) \ {t} /\ t \in De(d) /\ \A e \in Dispatchers \ {d} : De(e)' = De(e)
      <4>1. \A g \in Goroutines : dono'[g] = IF g = t THEN Nenhum ELSE dono[g]
        BY <3>2 DEF TypeOK
      <4> QED
        BY <4>1, <2>3, <3>1 DEF De
    <3>4. IsFiniteSet(De(d)) /\ Cardinality(De(d)) \in Nat
      BY <3>1, FS_CardinalityType DEF Ocupa
    <3>5. IsFiniteSet(De(d)') /\ Cardinality(De(d)') = Cardinality(De(d)) - 1
      BY <3>3, <3>4, FS_RemoveElement
    <3>6. ASSUME NEW e \in Dispatchers PROVE Ocupa(e)'
      <4>1. pc'[e] = pc[e]
        BY <3>1, <3>2 DEF TypeOK, Threads
      <4>2. CASE e = d
        <5>1. emVoo'[d] = emVoo[d] - 1 /\ emVoo[d] = Cardinality(De(d))
          BY <3>1, <3>2 DEF TypeOK, Ocupa
        <5>2. Cardinality(lote[d]) \in Nat /\ vagas[d] \in Nat /\ MaxConcorrente \in Nat
          BY <3>1, Contaveis, ConcorrenciaPositiva DEF TypeOK
        <5>3. Ocupa(d)
          BY <3>1
        <5>4. Ocupa(d)'
          BY <2>1, <3>4, <3>5, <4>1, <4>2, <5>1, <5>2, <5>3 DEF Ocupa
        <5> QED
          BY <4>2, <5>4
      <4>3. CASE e # d
        <5>1. emVoo'[e] = emVoo[e]
          BY <3>2, <4>3 DEF TypeOK
        <5> QED
          BY <2>1, <3>3, <4>1, <4>3, <5>1, OcupaFica
      <4> QED
        BY <4>2, <4>3
    <3>7. \A u \in Threads : run'[u] # Nenhum => Trabalhando(u)'
      BY <2>1, <3>2 DEF Trabalhando, TypeOK
    <3>8. \A g \in Goroutines : /\ pc'[g] \notin {"desligado", "laco", "claim"}
                                /\ pc'[g] = "ociosa" <=> dono'[g] = Nenhum
      BY <2>3, <3>2 DEF TypeOK, Threads
    <3> QED
      BY <3>6, <3>7, <3>8
  <2> QED
    BY <2>2, <2>3 DEF Threads
<1> QED
  BY <1>1, <1>2

\* A death empties all the places of the process
LEMMA OcupacaoDaQueda ==
  ASSUME TypeOK, Ocupacao, NEW d \in Dispatchers, Cair(d)
  PROVE  Ocupacao'
<1> USE DEF Ocupacao
<1>1. /\ \A t \in Threads : pc'[t] = IF ~DoProcesso(d, t) THEN pc[t] ELSE IF t = d THEN "laco" ELSE "ociosa"
      /\ \A t \in Threads : run'[t] = IF DoProcesso(d, t) THEN Nenhum ELSE run[t]
      /\ \A g \in Goroutines : dono'[g] = IF dono[g] = d THEN Nenhum ELSE dono[g]
  BY DEF Cair
<1>2. /\ \A e \in Dispatchers \ {d} : /\ emVoo'[e] = emVoo[e] /\ vagas'[e] = vagas[e]
                                      /\ lote'[e] = lote[e] /\ orfaos'[e] = orfaos[e]
      /\ emVoo'[d] = 0 /\ vagas'[d] = 0 /\ lote'[d] = {} /\ orfaos'[d] = {}
  BY DEF Cair, TypeOK
<1>3. Nenhum \notin Dispatchers /\ Goroutines \cap Dispatchers = {}
  BY NomesDistintos
<1>4. De(d)' = {} /\ \A e \in Dispatchers \ {d} : De(e)' = De(e)
  BY <1>1, <1>3 DEF De
<1>5. ASSUME NEW e \in Dispatchers PROVE Ocupa(e)'
  <2>1. CASE e = d
    <3>1. pc'[d] = "laco"
      BY <1>1 DEF DoProcesso, Threads
    <3>2. Cardinality(De(d)') + Cardinality(lote'[d]) <= MaxConcorrente
      BY <1>2, <1>4, FS_EmptySet, ConcorrenciaPositiva
    <3> QED
      BY <2>1, <3>1, <3>2, <1>2, <1>4, FS_EmptySet DEF Ocupa
  <2>2. CASE e # d
    <3>1. pc'[e] = pc[e]
      BY <2>2, <1>1, <1>3 DEF DoProcesso, Threads
    <3> QED
      BY <2>2, <3>1, <1>2, <1>4, OcupaFica
  <2> QED
    BY <2>1, <2>2
<1>6. \A t \in Threads : run'[t] # Nenhum => Trabalhando(t)'
  BY <1>1 DEF Trabalhando
<1>7. \A g \in Goroutines : /\ pc'[g] \notin {"desligado", "laco", "claim"}
                            /\ pc'[g] = "ociosa" <=> dono'[g] = Nenhum
  BY <1>1, <1>3 DEF DoProcesso, Threads
<1> QED
  BY <1>5, <1>6, <1>7

\* A step that leaves the memory of the processes alone
LEMMA OcupacaoFica ==
  ASSUME Ocupacao, UNCHANGED <<pc, run, dono, emVoo, vagas, lote, orfaos>>
  PROVE  Ocupacao'
<1>1. \A d \in Dispatchers : De(d)' = De(d)
  BY DEF De
<1> QED
  BY <1>1, OcupaFica DEF Ocupacao, Trabalhando

\* Every step keeps the account of the places
LEMMA OcupacaoPreservada == TypeOK /\ Ocupacao /\ [Next]_vars => Ocupacao'
<1> SUFFICES ASSUME TypeOK, Ocupacao, [Next]_vars PROVE Ocupacao'
  OBVIOUS
<1>1. ASSUME NEW r \in Runs, Enfileirar(r) \/ EntrarNaFila(r) \/ DecorrerAtraso(r) \/ Vencer(r)
      PROVE  Ocupacao'
  BY <1>1, OcupacaoFica DEF Enfileirar, EntrarNaFila, DecorrerAtraso, Vencer, laco
<1>2. ASSUME NEW d \in Dispatchers, Laco(d) PROVE Ocupacao'
  BY <1>2, OcupacaoDoLaco
<1>3. ASSUME NEW d \in Dispatchers, Cair(d) PROVE Ocupacao'
  BY <1>3, OcupacaoDaQueda
<1>4. ASSUME NEW t \in Threads, Trabalhar(t) PROVE Ocupacao'
  BY <1>4, OcupacaoDoTrabalho
<1>5. CASE UNCHANGED vars
  BY <1>5, OcupacaoFica DEF vars
<1> QED
  BY <1>1, <1>2, <1>3, <1>4, <1>5 DEF Next

\* Types and the account of the places hold in every state
LEMMA SempreOcupacao == Spec => [](TypeOK /\ Ocupacao)
BY TipoInicial, TipoPreservado, OcupacaoInicial, OcupacaoPreservada, PTL DEF Spec

\* No process has more items in hand than MaxConcorrente, launched or about to be,
\* whatever dies or fails: a claim asks for the places that are free
\* (src/internal/scheduler/dispatcher.go:173-178).
THEOREM VagasBastam == Spec => []VagasRespeitadas
<1>1. Ocupacao => VagasRespeitadas
  BY DEF Ocupacao, Ocupa, VagasRespeitadas, De
<1> QED
  BY <1>1, SempreOcupacao, PTL

(***************************************************************************)
(* The limit of a workflow                                                 *)
(***************************************************************************)

\* Which processes run is decided once: a death is followed by a restart
LEMMA LigadosFicam ==
  ASSUME TypeOK, Ocupacao, [Next]_vars, NEW d \in Dispatchers
  PROVE  pc'[d] = "desligado" <=> pc[d] = "desligado"
<1>1. ASSUME NEW e \in Dispatchers, Laco(e) PROVE pc'[d] = "desligado" <=> pc[d] = "desligado"
  BY <1>1, NomesDistintos
  DEF Laco, IniciarClaim, NoLaco, ConcluirClaim, RecuperarOrfaos, FalharOrfao, Lancar, TypeOK, Threads
<1>2. ASSUME NEW e \in Dispatchers, Cair(e) PROVE pc'[d] = "desligado" <=> pc[d] = "desligado"
  BY <1>2, NomesDistintos DEF Cair, DoProcesso, Threads
<1>3. ASSUME NEW t \in Threads, Trabalhar(t) PROVE pc'[d] = "desligado" <=> pc[d] = "desligado"
  <2>1. CASE ~Encerrar(t)
    BY <1>3, <2>1, MeioDoTrabalho DEF TypeOK, Threads, Decidindo
  <2>2. CASE Encerrar(t)
    BY <2>2 DEF Encerrar, Retornar, IrPara, TypeOK, Threads
  <2> QED
    BY <2>1, <2>2
<1> QED
  BY <1>1, <1>2, <1>3 DEF Next, vars, Enfileirar, EntrarNaFila, DecorrerAtraso, Vencer

\* A step does not change whether one dispatcher alone is on
LEMMA UmSoFica ==
  ASSUME TypeOK, Ocupacao, [Next]_vars
  PROVE  UmSo' <=> UmSo
<1>1. {d \in Dispatchers : pc[d] # "desligado"}' = {d \in Dispatchers : pc[d] # "desligado"}
  BY LigadosFicam
<1> QED
  BY <1>1 DEF UmSo

\* ... so that only one of them ever does anything, when there is one
LEMMA OUnico ==
  ASSUME UmSo, NEW d \in Dispatchers, NEW e \in Dispatchers,
         pc[d] # "desligado", pc[e] # "desligado"
  PROVE  d = e
<1> DEFINE L == {x \in Dispatchers : pc[x] # "desligado"}
<1>1. IsFiniteSet(L) /\ Cardinality(L) = 1
  BY ProcessosFinitos, FS_Subset DEF UmSo
<1>2. PICK x : L = {x}
  BY <1>1, FS_Singleton
<1> QED
  BY <1>2

\* The claimed items of the workflow of r, and those a claim under way may take
DoWorkflow(r, A) == {s \in A : MesmoWorkflow(r, s)}

\* The limit, for what is claimed and for what is being claimed
Reserva ==
  \A r \in Runs : MaxAtivos[r] # 0 =>
    /\ r \in Presas => Cardinality(DoWorkflow(r, Presas)) <= MaxAtivos[r]
    /\ \A d \in Dispatchers : pc[d] = "claim" /\ r \in alvo[d] =>
         Cardinality(DoWorkflow(r, Presas \cup alvo[d])) <= MaxAtivos[r]

\* Fewer items are counted as fewer
LEMMA ContaMenos ==
  ASSUME NEW r, NEW A \in SUBSET Runs, NEW B \in SUBSET A
  PROVE  /\ IsFiniteSet(DoWorkflow(r, A)) /\ Cardinality(DoWorkflow(r, A)) \in Nat
         /\ IsFiniteSet(DoWorkflow(r, B)) /\ Cardinality(DoWorkflow(r, B)) \in Nat
         /\ Cardinality(DoWorkflow(r, B)) <= Cardinality(DoWorkflow(r, A))
<1>1. DoWorkflow(r, A) \subseteq Runs /\ DoWorkflow(r, B) \subseteq DoWorkflow(r, A)
  BY DEF DoWorkflow
<1>2. IsFiniteSet(DoWorkflow(r, A))
  BY <1>1, RunsFinitos, FS_Subset
<1>3. IsFiniteSet(DoWorkflow(r, B)) /\ Cardinality(DoWorkflow(r, B)) <= Cardinality(DoWorkflow(r, A))
  BY <1>1, <1>2, FS_Subset
<1> QED
  BY <1>2, <1>3, FS_CardinalityType

\* What the claim statement finds eligible fits into the limit together with what is
\* claimed already: `posicao` numbers the free items of a workflow without a gap or a tie
LEMMA ElegiveisCabem ==
  ASSUME NEW p \in Numeracoes, NEW r \in Elegiveis(p), MaxAtivos[r] # 0,
         \A s \in Runs : MesmoWorkflow(r, s) => MaxAtivos[s] = MaxAtivos[r]
  PROVE  Cardinality(DoWorkflow(r, Presas \cup Elegiveis(p))) <= MaxAtivos[r]
<1> DEFINE P == DoWorkflow(r, Presas)
           E == DoWorkflow(r, Elegiveis(p))
           n == Cardinality(P)
<1>1. r \in Livres /\ Presas \subseteq Runs /\ Livres \subseteq Runs /\ Elegiveis(p) \subseteq Livres
  BY DEF Livres, Presas, Elegiveis
<1>2. IsFiniteSet(P) /\ n \in Nat /\ IsFiniteSet(E) /\ Cardinality(E) \in Nat
  BY <1>1, ContaMenos
<1>3. MaxAtivos[r] \in Nat /\ Cardinality(Runs) \in Nat
  BY <1>1, LimitesNaturais, RunsFinitos, FS_CardinalityType
<1>4. \A s \in Livres : p[s] \in 1..Cardinality(Runs)
  BY DEF Numeracoes
<1>5. \A s \in E : s \in Livres /\ MesmoWorkflow(r, s) /\ n + p[s] <= MaxAtivos[r]
  <2> SUFFICES ASSUME NEW s \in E PROVE n + p[s] <= MaxAtivos[r]
    BY <1>1 DEF DoWorkflow
  <2>1. s \in Livres /\ MesmoWorkflow(r, s) /\ MaxAtivos[s] = MaxAtivos[r]
    BY <1>1 DEF DoWorkflow
  <2>2. JaEmVoo(s) = n
    BY <2>1 DEF JaEmVoo, MesmoWorkflow, DoWorkflow
  <2> QED
    BY <2>1, <2>2 DEF Elegiveis, DoWorkflow
<1>6. \A s, u \in E : p[s] = p[u] => s = u
  BY <1>5 DEF Numeracoes, MesmoWorkflow
<1>7. r \in E /\ n < MaxAtivos[r]
  <2>1. r \in E
    BY DEF DoWorkflow, MesmoWorkflow
  <2> QED
    BY <2>1, <1>1, <1>2, <1>3, <1>4, <1>5
<1> DEFINE f == [s \in E |-> p[s]]
           m == MaxAtivos[r] - n
<1>8. f \in Injection(E, 1..m)
  <2>1. \A s \in E : p[s] \in 1..m
    BY <1>2, <1>3, <1>4, <1>5
  <2> QED
    BY <2>1, <1>6 DEF Injection, IsInjective
<1>9. IsFiniteSet(1..m) /\ Cardinality(1..m) = m
  <2>1. 1 \in Int /\ m \in Int /\ ~(1 > m) /\ m - 1 + 1 = m
    BY <1>2, <1>3, <1>7
  <2> HIDE DEF m
  <2> QED
    BY <2>1, FS_Interval
<1>10. Cardinality(E) <= m
  BY <1>8, <1>9, FS_Injection
<1>11. DoWorkflow(r, Presas \cup Elegiveis(p)) = P \cup E
  BY DEF DoWorkflow
<1>12. Cardinality(P \cup E) <= n + Cardinality(E)
  <2>1. Cardinality(P \cup E) = n + Cardinality(E) - Cardinality(P \cap E) /\ IsFiniteSet(P \cap E)
    BY <1>2, FS_Union, FS_Intersection
  <2>2. Cardinality(P \cap E) \in Nat
    BY <2>1, FS_CardinalityType
  <2> QED
    BY <2>1, <2>2, <1>2
<1>13. n + Cardinality(E) <= MaxAtivos[r]
  BY <1>2, <1>3, <1>10
<1>14. Cardinality(P \cup E) \in Nat
  BY <1>2, FS_Union, FS_CardinalityType
<1>15. Cardinality(P \cup E) <= MaxAtivos[r]
  BY <1>2, <1>3, <1>12, <1>13, <1>14
<1> QED
  BY <1>11, <1>15

\* Only the claim statement claims
LEMMA PresasEncolhem ==
  ASSUME TypeOK, [Next]_vars, \A d \in Dispatchers : ~ConcluirClaim(d)
  PROVE  Presas' \subseteq Presas
<1>1. ASSUME NEW d \in Dispatchers, Laco(d) PROVE Presas' \subseteq Presas
  BY <1>1 DEF Laco, IniciarClaim, RecuperarOrfaos, Recuperar, Vencidas, FalharOrfao, Lancar, banco, Presas, TypeOK
<1>2. ASSUME NEW t \in Threads, Trabalhar(t) PROVE Presas' \subseteq Presas
  <2>1. CASE ~Encerrar(t)
    BY <1>2, <2>1, MeioDoTrabalho DEF Presas
  <2>2. CASE Encerrar(t)
    BY <2>2 DEF Encerrar, Done, Release, Presas, TypeOK
  <2> QED
    BY <2>1, <2>2
<1> QED
  BY <1>1, <1>2 DEF Next, vars, Enfileirar, EntrarNaFila, Enqueue, DecorrerAtraso, Vencer, Cair, banco, Presas, TypeOK

\* Nothing is claimed at the start
LEMMA ReservaInicial == Init => Reserva
BY NomesDistintos DEF Init, Reserva, Presas, Threads

\* The claims under way, and what they found, are touched by the loop alone
LEMMA AlvosFicam ==
  ASSUME TypeOK, Ocupacao, [Next]_vars,
         \A d \in Dispatchers : ~IniciarClaim(d) /\ ~ConcluirClaim(d)
  PROVE  \A d \in Dispatchers : pc'[d] = "claim" => pc[d] = "claim" /\ alvo'[d] = alvo[d]
<1> SUFFICES ASSUME NEW d \in Dispatchers, pc'[d] = "claim"
             PROVE  pc[d] = "claim" /\ alvo'[d] = alvo[d]
  OBVIOUS
<1>1. ASSUME NEW e \in Dispatchers, Laco(e) PROVE pc[d] = "claim" /\ alvo'[d] = alvo[d]
  BY <1>1, NomesDistintos DEF Laco, RecuperarOrfaos, FalharOrfao, Lancar, TypeOK, Threads
<1>2. ASSUME NEW e \in Dispatchers, Cair(e) PROVE pc[d] = "claim" /\ alvo'[d] = alvo[d]
  BY <1>2, NomesDistintos DEF Cair, DoProcesso, Threads, TypeOK
<1>3. ASSUME NEW t \in Threads, Trabalhar(t) PROVE pc[d] = "claim" /\ alvo'[d] = alvo[d]
  <2>1. CASE ~Encerrar(t)
    BY <1>3, <2>1, MeioDoTrabalho DEF TypeOK, Threads, Decidindo
  <2>2. CASE Encerrar(t)
    BY <2>2 DEF Encerrar, Retornar, IrPara, TypeOK, Threads, laco
  <2> QED
    BY <2>1, <2>2
<1> QED
  BY <1>1, <1>2, <1>3 DEF Next, vars, Enfileirar, EntrarNaFila, DecorrerAtraso, Vencer, laco

\* With one dispatcher, and one limit per workflow, no claim goes past the limit
LEMMA ReservaPreservada ==
  ASSUME TypeOK, Ocupacao, Reserva, UmSo, [Next]_vars,
         \A r, s \in Runs : MesmoWorkflow(r, s) => MaxAtivos[r] = MaxAtivos[s]
  PROVE  Reserva'
<1>s. Presas \subseteq Runs /\ Presas' \subseteq Runs /\ \A d \in Dispatchers : alvo[d] \subseteq Runs
  BY DEF Presas, TypeOK
<1>n. \A r \in Runs : MaxAtivos[r] \in Nat
  BY LimitesNaturais
<1>1. ASSUME NEW d \in Dispatchers, IniciarClaim(d) PROVE Reserva'
  <2>1. PICK p \in Numeracoes : alvo' = [alvo EXCEPT ![d] = Elegiveis(p)]
    BY <1>1 DEF IniciarClaim
  <2>2. pc[d] = "laco" /\ Presas' = Presas /\ alvo'[d] = Elegiveis(p)
    BY <1>1, <2>1 DEF IniciarClaim, NoLaco, banco, Presas, TypeOK
  <2>3. \A e \in Dispatchers : pc'[e] = "claim" => e = d
    BY <1>1, <2>2, OUnico DEF IniciarClaim, TypeOK, Threads
  <2> SUFFICES ASSUME NEW r \in Runs, MaxAtivos[r] # 0, r \in alvo'[d]
               PROVE  Cardinality(DoWorkflow(r, Presas' \cup alvo'[d])) <= MaxAtivos[r]
    BY <2>2, <2>3 DEF Reserva, DoWorkflow
  <2> QED
    BY <2>2, ElegiveisCabem
<1>2. ASSUME NEW d \in Dispatchers, ConcluirClaim(d) PROVE Reserva'
  <2>1. \A e \in Dispatchers : pc'[e] # "claim"
    BY <1>2, OUnico DEF ConcluirClaim, TypeOK, Threads
  <2> SUFFICES ASSUME NEW r \in Runs, MaxAtivos[r] # 0, r \in Presas'
               PROVE  Cardinality(DoWorkflow(r, Presas')) <= MaxAtivos[r]
    BY <2>1 DEF Reserva, DoWorkflow
  <2>2. pc[d] = "claim"
    BY <1>2 DEF ConcluirClaim
  <2>3. CASE fila' = fila
    BY <2>3 DEF Reserva, Presas
  <2>4. ASSUME NEW S \in Lotes(alvo[d], vagas[d]), Reivindicar(S)
        PROVE  Cardinality(DoWorkflow(r, Presas')) <= MaxAtivos[r]
    <3>1. S \subseteq alvo[d] /\ S \subseteq Runs
      BY <1>s DEF Lotes
    <3>2. Presas' = Presas \cup S
      BY <2>4, <3>1 DEF Reivindicar, Presas, TypeOK
    <3>3. CASE \E s \in S : MesmoWorkflow(r, s)
      <4>1. PICK s \in S : MesmoWorkflow(r, s)
        BY <3>3
      <4>2. s \in alvo[d] /\ s \in Runs /\ MaxAtivos[s] = MaxAtivos[r]
        BY <3>1, <4>1
      <4>3. DoWorkflow(r, Presas') = DoWorkflow(s, Presas \cup S)
        BY <3>2, <4>1 DEF DoWorkflow, MesmoWorkflow
      <4>4. Cardinality(DoWorkflow(s, Presas \cup alvo[d])) <= MaxAtivos[s]
        BY <2>2, <4>2 DEF Reserva
      <4>5. /\ Cardinality(DoWorkflow(s, Presas \cup S)) <= Cardinality(DoWorkflow(s, Presas \cup alvo[d]))
            /\ Cardinality(DoWorkflow(s, Presas \cup S)) \in Nat
            /\ Cardinality(DoWorkflow(s, Presas \cup alvo[d])) \in Nat
        <5>1. Presas \cup alvo[d] \in SUBSET Runs /\ Presas \cup S \in SUBSET (Presas \cup alvo[d])
          BY <1>s, <3>1
        <5> QED
          BY <5>1, ContaMenos
      <4> QED
        BY <4>2, <4>3, <4>4, <4>5, <1>n
    <3>4. CASE ~\E s \in S : MesmoWorkflow(r, s)
      <4>1. DoWorkflow(r, Presas') = DoWorkflow(r, Presas) /\ r \in Presas
        BY <3>2, <3>4 DEF DoWorkflow, MesmoWorkflow
      <4> QED
        BY <4>1 DEF Reserva
    <3> QED
      BY <3>3, <3>4
  <2> QED
    BY <1>2, <2>3, <2>4 DEF ConcluirClaim
<1>3. CASE \A d \in Dispatchers : ~IniciarClaim(d) /\ ~ConcluirClaim(d)
  <2>1. Presas' \subseteq Presas
    BY <1>3, PresasEncolhem
  <2>2. \A d \in Dispatchers : pc'[d] = "claim" => pc[d] = "claim" /\ alvo'[d] = alvo[d]
    BY <1>3, AlvosFicam
  <2> SUFFICES ASSUME NEW r \in Runs, MaxAtivos[r] # 0
               PROVE  /\ r \in Presas' => Cardinality(DoWorkflow(r, Presas')) <= MaxAtivos[r]
                      /\ \A d \in Dispatchers : pc'[d] = "claim" /\ r \in alvo'[d] =>
                           Cardinality(DoWorkflow(r, Presas' \cup alvo'[d])) <= MaxAtivos[r]
    BY DEF Reserva, DoWorkflow
  <2>3. ASSUME r \in Presas' PROVE Cardinality(DoWorkflow(r, Presas')) <= MaxAtivos[r]
    <3>1. Cardinality(DoWorkflow(r, Presas)) <= MaxAtivos[r]
      BY <2>1, <2>3 DEF Reserva
    <3> QED
      BY <2>1, <3>1, <1>s, <1>n, ContaMenos
  <2>4. ASSUME NEW d \in Dispatchers, pc'[d] = "claim", r \in alvo'[d]
        PROVE  Cardinality(DoWorkflow(r, Presas' \cup alvo'[d])) <= MaxAtivos[r]
    <3>1. alvo'[d] = alvo[d] /\ Cardinality(DoWorkflow(r, Presas \cup alvo[d])) <= MaxAtivos[r]
      BY <2>2, <2>4 DEF Reserva
    <3>2. Presas \cup alvo[d] \in SUBSET Runs /\ Presas' \cup alvo[d] \in SUBSET (Presas \cup alvo[d])
      BY <1>s, <2>1
    <3>3. /\ Cardinality(DoWorkflow(r, Presas' \cup alvo[d])) <= Cardinality(DoWorkflow(r, Presas \cup alvo[d]))
          /\ Cardinality(DoWorkflow(r, Presas' \cup alvo[d])) \in Nat
          /\ Cardinality(DoWorkflow(r, Presas \cup alvo[d])) \in Nat
      BY <3>2, ContaMenos
    <3> QED
      BY <3>1, <3>3, <1>n
  <2> QED
    BY <2>3, <2>4
<1> QED
  BY <1>1, <1>2, <1>3

\* Neither a process nor, where one dispatcher runs, a workflow has more items in hand
\* than it may, whatever dies, fails or is slow, as long as the runs of a workflow
\* carry one limit (the row of the run holds it, and the claim compares it with what
\* is claimed of the workflow: src/internal/queue/queue.go:93-122).
THEOREM LimitesValem ==
  ASSUME \A r, s \in Runs : MesmoWorkflow(r, s) => MaxAtivos[r] = MaxAtivos[s]
  PROVE  Spec => []LimitesRespeitados
<1> DEFINE Inv == TypeOK /\ Ocupacao /\ (UmSo => Reserva)
<1>1. Init => Inv
  BY TipoInicial, OcupacaoInicial, ReservaInicial
<1>2. Inv /\ [Next]_vars => Inv'
  BY TipoPreservado, OcupacaoPreservada, UmSoFica, ReservaPreservada
<1>3. Inv => LimitePorWorkflow
  <2> SUFFICES ASSUME Inv, UmSo, NEW r \in Presas, MaxAtivos[r] # 0
               PROVE  JaEmVoo(r) <= MaxAtivos[r]
    BY DEF LimitePorWorkflow
  <2> QED
    BY DEF Reserva, DoWorkflow, JaEmVoo, Presas
<1>4. Spec => []LimitePorWorkflow
  BY <1>1, <1>2, <1>3, PTL DEF Spec
<1> QED
  BY <1>4, VagasBastam, PTL DEF LimitesRespeitados

(***************************************************************************)
(* Who holds what                                                          *)
(***************************************************************************)

\* The runs a loop has in its hands
Maos(d) == lote[d] \cup orfaos[d]

\* A run is in the hands of one goroutine or of one loop ...
NaMaoDeUm ==
  /\ \A t, u \in Threads : run[t] = run[u] /\ run[t] # Nenhum => t = u
  /\ \A t \in Threads, d \in Dispatchers : run[t] \notin Maos(d)
  /\ \A d, e \in Dispatchers : d # e => Maos(d) \cap Maos(e) = {}

\* Something may have been left behind: a process has died, or an answer was lost
Abandono == quedas # 0 \/ BancoFalha

\* ... and its item is claimed, unless it is an orphan.  The item of an orphan is free
\* already, but then the only loop there is has no time to claim it.
NaFilaPresa ==
  /\ \A g \in Goroutines : run[g] # Nenhum => fila[run[g]] = "presa"
  /\ \A d \in Dispatchers : \A r \in lote[d] : fila[r] = "presa"
Varredura ==
  \A d \in Dispatchers :
    /\ run[d] # Nenhum => UmSo /\ Abandono /\ fila[run[d]] = "livre"
    /\ \A r \in orfaos[d] : UmSo /\ Abandono /\ pc[d] # "desligado" /\ fila[r] = "livre"

\* Until then every claim is in hands, and no sweep finds anything
NadaAbandonado ==
  ~Abandono =>
    \A r \in Presas :
      /\ fila[r] = "presa"
      /\ (\E g \in Goroutines : run[g] = r) \/ (\E d \in Dispatchers : r \in lote[d])
Posse == NaMaoDeUm /\ NaFilaPresa /\ Varredura /\ NadaAbandonado

\* Nothing is in anybody's hands at the start
LEMMA PosseInicial == Init => Posse
BY NomesDistintos DEF Init, Posse, NaMaoDeUm, NaFilaPresa, Varredura, NadaAbandonado, Maos, Presas, Threads

\* What is left behind stays so
LEMMA AbandonoFica ==
  ASSUME TypeOK, [Next]_vars
  PROVE  (Abandono => Abandono') /\ (quedas' = 0 => quedas = 0) /\ (quedas' # quedas => \E d \in Dispatchers : Cair(d))
<1>1. quedas' = quedas \/ \E d \in Dispatchers : Cair(d)
  BY DEF Next, vars, Enfileirar, EntrarNaFila, DecorrerAtraso, Vencer, Laco, IniciarClaim, ConcluirClaim,
     RecuperarOrfaos, FalharOrfao, Lancar, Trabalhar, MarcarRunning, Executar, MarcarSuccess, MarcarFailed,
     IncrementarTentativa, Avisar, MarcarRetrying, MarcarQueued, Encerrar
<1>2. \A d \in Dispatchers : Cair(d) => quedas' # 0
  BY QuedasNaturais DEF TypeOK, Cair
<1> QED
  BY <1>1, <1>2 DEF Abandono

\* Where the item of a run in somebody's hands is
LEMMA NasMaos ==
  ASSUME TypeOK, Posse, NEW r \in Runs, EmMaosVivas(r)
  PROVE  fila[r] \in {"presa", "livre"}
BY NomesDistintos DEF EmMaosVivas, Posse, NaFilaPresa, Varredura, Threads

\* A step that passes nothing from hand to hand, and leaves alone the items of what is
\* in somebody's hands
LEMMA PosseFica ==
  ASSUME TypeOK, Ocupacao, Posse, [Next]_vars,
         UNCHANGED <<run, lote, orfaos>>,
         \A r \in Runs : EmMaosVivas(r) => fila'[r] = fila[r],
         Presas' \subseteq Presas
  PROVE  Posse'
<1>0. (UmSo' <=> UmSo) /\ (Abandono => Abandono')
  BY UmSoFica, AbandonoFica
<1>1. \A t \in Threads : run[t] # Nenhum => run[t] \in Runs /\ EmMaosVivas(run[t])
  BY DEF TypeOK, EmMaosVivas
<1>2. \A d \in Dispatchers : \A r \in Maos(d) : r \in Runs /\ EmMaosVivas(r)
  BY DEF TypeOK, EmMaosVivas, Maos
<1>3. NaMaoDeUm'
  BY DEF Posse, NaMaoDeUm, Maos
<1>4. NaFilaPresa'
  BY <1>1, <1>2 DEF Posse, NaFilaPresa, Threads, Maos
<1>5. Varredura'
  BY <1>0, <1>1, <1>2, LigadosFicam DEF Posse, Varredura, Threads, Maos
<1>6. NadaAbandonado'
  <2> SUFFICES ASSUME ~Abandono, NEW r \in Presas'
               PROVE  fila'[r] = "presa" /\ \/ \E g \in Goroutines : run[g] = r
                                            \/ \E d \in Dispatchers : r \in lote[d]
    BY <1>0 DEF NadaAbandonado
  <2>1. r \in Presas /\ r \in Runs
    BY DEF Presas
  <2>2. fila[r] = "presa" /\ \/ \E g \in Goroutines : run[g] = r
                             \/ \E d \in Dispatchers : r \in lote[d]
    BY <2>1 DEF Posse, NadaAbandonado
  <2> QED
    BY <2>1, <2>2 DEF EmMaosVivas, Threads
<1> QED
  BY <1>3, <1>4, <1>5, <1>6 DEF Posse

\* A claim takes what nobody has: an orphan's item is free, but only the loop that is
\* busy with it could claim it
LEMMA NinguemTem ==
  ASSUME TypeOK, Ocupacao, Posse, NEW d \in Dispatchers, pc[d] = "claim",
         NEW r \in Runs, fila[r] = "livre"
  PROVE  ~EmMaosVivas(r)
<1>1. ASSUME NEW t \in Threads, run[t] = r PROVE FALSE
  <2>1. r # Nenhum
    BY NomesDistintos
  <2>2. t \in Dispatchers /\ UmSo
    BY <1>1, <2>1 DEF Posse, NaFilaPresa, Varredura, Threads
  <2>3. Trabalhando(t)
    BY <1>1, <2>1 DEF Ocupacao
  <2> QED
    BY <2>2, <2>3, OUnico DEF Trabalhando
<1>2. ASSUME NEW e \in Dispatchers, r \in lote[e] \cup orfaos[e] PROVE FALSE
  <2>1. r \in orfaos[e] /\ UmSo /\ pc[e] # "desligado"
    BY <1>2 DEF Posse, NaFilaPresa, Varredura
  <2>2. e = d
    BY <2>1, OUnico
  <2> QED
    BY <2>1, <2>2 DEF Ocupacao, Ocupa
<1> QED
  BY <1>1, <1>2 DEF EmMaosVivas

\* What a claim takes was free, and is now in the hands of its loop
LEMMA PosseDoClaim ==
  ASSUME TypeOK, Ocupacao, Posse, [Next]_vars, Sossego,
         NEW d \in Dispatchers, ConcluirClaim(d)
  PROVE  Posse'
<1>0. (UmSo' <=> UmSo) /\ (Abandono => Abandono')
  BY UmSoFica, AbandonoFica
<1>1. /\ pc[d] = "claim" /\ lote[d] = {} /\ orfaos[d] = {}
      /\ UNCHANGED <<run, orfaos>>
  BY DEF ConcluirClaim, Ocupacao, Ocupa
<1>2. CASE UNCHANGED <<fila, lote>>
  BY <1>1, <1>2, PosseFica DEF Presas
<1>3. ASSUME NEW S \in Lotes(alvo[d], vagas[d]), Reivindicar(S), lote' = lote \/ lote' = [lote EXCEPT ![d] = S],
             BancoFalha \/ lote' = [lote EXCEPT ![d] = S]
      PROVE  Posse'
  <2>1. S \subseteq Runs /\ \A r \in S : fila[r] = "livre"
    BY DEF Lotes, Livres
  <2>2. \A r \in S : ~EmMaosVivas(r)
    BY <1>1, <2>1, NinguemTem
  <2>3. \A t \in Threads : run[t] \notin S
    BY <2>2 DEF EmMaosVivas
  <2>4. \A e \in Dispatchers : S \cap Maos(e) = {}
    BY <2>2 DEF EmMaosVivas, Maos
  <2>5. \A r \in Runs : fila'[r] = IF r \in S THEN "presa" ELSE fila[r]
    BY <1>3 DEF Reivindicar
  <2>6. lote'[d] \in {S, {}} /\ \A e \in Dispatchers : e # d => lote'[e] = lote[e]
    BY <1>1, <1>3 DEF TypeOK
  <2>7. Maos(d)' \in {S, {}} /\ \A e \in Dispatchers : e # d => Maos(e)' = Maos(e)
    BY <1>1, <2>6 DEF Maos
  <2>8. NaMaoDeUm'
    BY <1>1, <2>3, <2>4, <2>7 DEF Posse, NaMaoDeUm
  <2>9. NaFilaPresa'
    <3>1. \A g \in Goroutines : run[g] # Nenhum => run[g] \in Runs
      BY DEF TypeOK, Threads
    <3>2. \A e \in Dispatchers : lote'[e] \subseteq Runs
      BY <2>1, <2>6 DEF TypeOK
    <3> QED
      BY <3>1, <3>2, <1>1, <2>5, <2>6 DEF Posse, NaFilaPresa
  <2>10. Varredura'
    <3>1. \A e \in Dispatchers : /\ run[e] # Nenhum => run[e] \in Runs /\ run[e] \notin S
                                 /\ \A r \in orfaos[e] : r \in Runs /\ r \notin S
      BY <2>3, <2>4 DEF TypeOK, Threads, Maos
    <3> QED
      BY <1>0, <1>1, <2>5, <3>1, LigadosFicam DEF Posse, Varredura
  <2>11. NadaAbandonado'
    <3> SUFFICES ASSUME ~Abandono, NEW r \in Presas'
                 PROVE  fila'[r] = "presa" /\ \/ \E g \in Goroutines : run[g] = r
                                              \/ \E e \in Dispatchers : r \in lote'[e]
      BY <1>0, <1>1 DEF NadaAbandonado
    <3>1. lote'[d] = S
      BY <1>3 DEF TypeOK, Abandono
    <3>2. CASE r \in S
      BY <3>1, <3>2, <2>1, <2>5
    <3>3. CASE r \notin S
      <4>1. r \in Presas /\ fila'[r] = fila[r]
        BY <3>3, <2>5 DEF Presas
      <4>2. fila[r] = "presa" /\ \/ \E g \in Goroutines : run[g] = r
                                 \/ \E e \in Dispatchers : r \in lote[e]
        BY <4>1 DEF Posse, NadaAbandonado
      <4> QED
        BY <4>1, <4>2, <1>1, <2>6
    <3> QED
      BY <3>2, <3>3
  <2> QED
    BY <2>8, <2>9, <2>10, <2>11 DEF Posse
<1> QED
  BY <1>1, <1>2, <1>3 DEF ConcluirClaim

\* A run passes from the loop to one goroutine
LEMMA PosseDoLancar ==
  ASSUME TypeOK, Ocupacao, Posse, [Next]_vars,
         NEW d \in Dispatchers, NEW g \in Goroutines, Lancar(d, g)
  PROVE  Posse'
<1>0. (UmSo' <=> UmSo) /\ (Abandono => Abandono')
  BY UmSoFica, AbandonoFica
<1>1. PICK r \in lote[d] : lote' = [lote EXCEPT ![d] = lote[d] \ {r}] /\ run' = [run EXCEPT ![g] = r]
  BY DEF Lancar
<1>2. UNCHANGED <<fila, orfaos>> /\ r \in Runs /\ fila[r] = "presa"
  BY <1>1 DEF Lancar, banco, TypeOK, Posse, NaFilaPresa
<1>3. g \notin Dispatchers /\ g \in Threads
  BY NomesDistintos DEF Threads
<1>4. run'[g] = r /\ \A t \in Threads : t # g => run'[t] = run[t]
  BY <1>1, <1>3 DEF TypeOK
<1>5. lote'[d] = lote[d] \ {r} /\ \A e \in Dispatchers : e # d => lote'[e] = lote[e]
  BY <1>1 DEF TypeOK
<1>6. r \notin orfaos[d]
  BY <1>1 DEF Ocupacao, Ocupa
<1>7. Maos(d)' = Maos(d) \ {r} /\ r \in Maos(d) /\ \A e \in Dispatchers : e # d => Maos(e)' = Maos(e)
  BY <1>1, <1>2, <1>5, <1>6 DEF Maos
<1>8. NaMaoDeUm'
  <2>1. \A t, u \in Threads : run'[t] = run'[u] /\ run'[t] # Nenhum => t = u
    BY <1>4, <1>7 DEF Posse, NaMaoDeUm
  <2>2. \A t \in Threads, e \in Dispatchers : run'[t] \notin Maos(e)'
    BY <1>4, <1>7 DEF Posse, NaMaoDeUm
  <2>3. \A e, f \in Dispatchers : e # f => Maos(e)' \cap Maos(f)' = {}
    BY <1>7 DEF Posse, NaMaoDeUm
  <2> QED
    BY <2>1, <2>2, <2>3 DEF NaMaoDeUm
<1>9. NaFilaPresa'
  BY <1>2, <1>3, <1>4, <1>5 DEF Posse, NaFilaPresa, Threads
<1>10. Varredura'
  BY <1>0, <1>2, <1>3, <1>4, LigadosFicam DEF Posse, Varredura, Threads
<1>11. NadaAbandonado'
  <2> SUFFICES ASSUME ~Abandono, NEW s \in Presas'
               PROVE  fila'[s] = "presa" /\ \/ \E h \in Goroutines : run'[h] = s
                                            \/ \E e \in Dispatchers : s \in lote'[e]
    BY <1>0 DEF NadaAbandonado
  <2>1. s \in Presas /\ s \in Runs /\ fila'[s] = fila[s] /\ s # Nenhum
    BY <1>2, NomesDistintos DEF Presas
  <2>2. fila[s] = "presa" /\ \/ \E h \in Goroutines : run[h] = s
                             \/ \E e \in Dispatchers : s \in lote[e]
    BY <2>1 DEF Posse, NadaAbandonado
  <2>3. run[g] = Nenhum
    BY <1>3 DEF Lancar, Ocupacao, Trabalhando
  <2>4. CASE s = r
    BY <2>1, <2>2, <2>4, <1>4
  <2>5. CASE s # r
    BY <2>1, <2>2, <2>3, <2>5, <1>3, <1>4, <1>5 DEF Threads
  <2> QED
    BY <2>4, <2>5
<1> QED
  BY <1>8, <1>9, <1>10, <1>11 DEF Posse

\* A sweep finds items that nobody works on
LEMMA PosseDaVarredura ==
  ASSUME TypeOK, Ocupacao, Posse, [Next]_vars, Sossego, NEW d \in Dispatchers, RecuperarOrfaos(d)
  PROVE  Posse'
<1>0. (UmSo' <=> UmSo) /\ (Abandono => Abandono')
  BY UmSoFica, AbandonoFica
<1>1. /\ pc[d] = "laco" /\ lote[d] = {} /\ orfaos[d] = {} /\ Vencidas # {}
      /\ UNCHANGED <<run, lote>>
      /\ \A e \in Dispatchers : e # d => orfaos'[e] = orfaos[e]
      /\ orfaos'[d] \in {Vencidas, {}}
  BY DEF RecuperarOrfaos, NoLaco, TypeOK
<1>2. \A r \in Runs : fila'[r] = IF fila[r] = "vencida" THEN "livre" ELSE fila[r]
  BY DEF RecuperarOrfaos, Recuperar, Vencidas
<1>3. UmSo /\ Abandono
  <2>1. PICK r \in Runs : fila[r] = "vencida"
    BY <1>1 DEF Vencidas
  <2>2. r \in Presas
    BY <2>1 DEF Presas
  <2>3. Abandono
    BY <2>1, <2>2 DEF Posse, NadaAbandonado
  <2> QED
    BY <2>3 DEF Sossego, Abandono
<1>4. \A r \in Vencidas : r \in Runs /\ ~EmMaosVivas(r)
  BY NasMaos DEF Vencidas
<1>5. Maos(d)' \in {Vencidas, {}} /\ \A e \in Dispatchers : e # d => Maos(e)' = Maos(e)
  BY <1>1 DEF Maos
<1>6. NaMaoDeUm'
  BY <1>1, <1>4, <1>5 DEF Posse, NaMaoDeUm, EmMaosVivas, Maos
<1>7. NaFilaPresa'
  <2>1. \A g \in Goroutines : run[g] # Nenhum => run[g] \in Runs
    BY DEF TypeOK, Threads
  <2>2. \A e \in Dispatchers : lote[e] \subseteq Runs
    BY DEF TypeOK
  <2> QED
    BY <2>1, <2>2, <1>1, <1>2 DEF Posse, NaFilaPresa
<1>8. Varredura'
  <2>1. \A e \in Dispatchers : run[e] # Nenhum => run[e] \in Runs
    BY DEF TypeOK, Threads
  <2>2. \A e \in Dispatchers : orfaos[e] \subseteq Runs
    BY DEF TypeOK
  <2>3. \A e \in Dispatchers : \A r \in orfaos'[e] : pc'[e] # "desligado" /\ fila'[r] = "livre"
    BY <1>1, <1>2, <1>4, <2>2, LigadosFicam DEF Posse, Varredura, Vencidas
  <2> QED
    BY <1>0, <1>1, <1>2, <1>3, <2>1, <2>3 DEF Posse, Varredura
<1> QED
  BY <1>0, <1>3, <1>6, <1>7, <1>8 DEF Posse, NadaAbandonado

\* The loop takes in hand one of the items its sweep has found
LEMMA PosseDoOrfao ==
  ASSUME TypeOK, Ocupacao, Posse, [Next]_vars, NEW d \in Dispatchers, FalharOrfao(d)
  PROVE  Posse'
<1>0. (UmSo' <=> UmSo) /\ (Abandono => Abandono')
  BY UmSoFica, AbandonoFica
<1>1. PICK r \in orfaos[d] : orfaos' = [orfaos EXCEPT ![d] = orfaos[d] \ {r}] /\ run' = [run EXCEPT ![d] = r]
  BY DEF FalharOrfao
<1>2. UNCHANGED <<fila, lote>> /\ r \in Runs /\ UmSo /\ Abandono /\ fila[r] = "livre"
  BY <1>1 DEF FalharOrfao, banco, TypeOK, Posse, Varredura
<1>3. d \notin Goroutines /\ d \in Threads
  BY NomesDistintos DEF Threads
<1>4. run'[d] = r /\ \A t \in Threads : t # d => run'[t] = run[t]
  BY <1>1, <1>3 DEF TypeOK
<1>5. orfaos'[d] = orfaos[d] \ {r} /\ \A e \in Dispatchers : e # d => orfaos'[e] = orfaos[e]
  BY <1>1 DEF TypeOK
<1>6. lote[d] = {}
  BY <1>1 DEF Ocupacao, Ocupa
<1>7. Maos(d)' = Maos(d) \ {r} /\ r \in Maos(d) /\ \A e \in Dispatchers : e # d => Maos(e)' = Maos(e)
  BY <1>1, <1>2, <1>5, <1>6 DEF Maos
<1>8. NaMaoDeUm'
  <2>1. \A t, u \in Threads : run'[t] = run'[u] /\ run'[t] # Nenhum => t = u
    BY <1>4, <1>7 DEF Posse, NaMaoDeUm
  <2>2. \A t \in Threads, e \in Dispatchers : run'[t] \notin Maos(e)'
    BY <1>4, <1>7 DEF Posse, NaMaoDeUm
  <2>3. \A e, f \in Dispatchers : e # f => Maos(e)' \cap Maos(f)' = {}
    BY <1>7 DEF Posse, NaMaoDeUm
  <2> QED
    BY <2>1, <2>2, <2>3 DEF NaMaoDeUm
<1>9. NaFilaPresa'
  BY <1>2, <1>3, <1>4 DEF Posse, NaFilaPresa, Threads
<1>10. Varredura'
  <2>1. \A e \in Dispatchers : e \in Threads
    BY DEF Threads
  <2> QED
    BY <1>0, <1>2, <1>4, <1>5, <2>1, LigadosFicam DEF Posse, Varredura
<1> QED
  BY <1>0, <1>2, <1>8, <1>9, <1>10 DEF Posse, NadaAbandonado

\* A run that is let go leaves the queue, or is free again
LEMMA PosseDoEncerrar ==
  ASSUME TypeOK, Ocupacao, Posse, [Next]_vars, Sossego, NEW t \in Threads, Encerrar(t)
  PROVE  Posse'
<1>0. (UmSo' <=> UmSo) /\ (Abandono => Abandono')
  BY UmSoFica, AbandonoFica
<1>1. /\ pc[t] \in {"done", "soltar", "release"} /\ run' = [run EXCEPT ![t] = Nenhum]
      /\ UNCHANGED <<lote, orfaos>>
  BY DEF Encerrar, Retornar, laco
<1>2. run'[t] = Nenhum /\ \A u \in Threads : u # t => run'[u] = run[u]
  BY <1>1 DEF TypeOK
<1>3. Nenhum \notin Runs /\ \A e \in Dispatchers : Maos(e)' = Maos(e) /\ Maos(e) \subseteq Runs
  BY <1>1, NomesDistintos DEF Maos, TypeOK
<1>4. \A s \in Runs : s # run[t] => fila'[s] = fila[s]
  BY DEF Encerrar, Done, Release, TypeOK
<1>5. NaMaoDeUm'
  BY <1>2, <1>3 DEF Posse, NaMaoDeUm
<1>6. \A u \in Threads : run'[u] # Nenhum => /\ run'[u] = run[u] /\ run[u] \in Runs
                                            /\ fila'[run[u]] = fila[run[u]]
  BY <1>2, <1>4 DEF Posse, NaMaoDeUm, TypeOK
<1>7. \A e \in Dispatchers : \A r \in Maos(e) : fila'[r] = fila[r]
  BY <1>3, <1>4 DEF Posse, NaMaoDeUm
<1>8. NaFilaPresa'
  BY <1>1, <1>6, <1>7 DEF Posse, NaFilaPresa, Threads, Maos
<1>9. Varredura'
  <2>1. \A e \in Dispatchers : run'[e] # Nenhum => UmSo /\ Abandono /\ fila'[run'[e]] = "livre"
    BY <1>6 DEF Posse, Varredura, Threads
  <2>2. \A e \in Dispatchers : \A r \in orfaos[e] : UmSo /\ Abandono /\ pc'[e] # "desligado" /\ fila'[r] = "livre"
    BY <1>7, LigadosFicam DEF Posse, Varredura, Maos
  <2> QED
    BY <1>0, <1>1, <2>1, <2>2 DEF Varredura
<1>10. NadaAbandonado'
  <2> SUFFICES ASSUME ~Abandono, NEW r \in Presas'
               PROVE  fila'[r] = "presa" /\ \/ \E g \in Goroutines : run'[g] = r
                                            \/ \E e \in Dispatchers : r \in lote[e]
    BY <1>0, <1>1 DEF NadaAbandonado
  <2>1. r \in Runs /\ r # run[t]
    BY DEF Encerrar, Done, Release, TypeOK, Presas, Abandono
  <2>2. fila'[r] = fila[r] /\ r \in Presas
    BY <2>1, <1>4 DEF Presas
  <2>3. fila[r] = "presa" /\ \/ \E g \in Goroutines : run[g] = r
                             \/ \E e \in Dispatchers : r \in lote[e]
    BY <2>2 DEF Posse, NadaAbandonado
  <2> QED
    BY <2>1, <2>2, <2>3, <1>2 DEF Threads
<1> QED
  BY <1>5, <1>8, <1>9, <1>10 DEF Posse

\* A death leaves claims behind, and nothing else
LEMMA PosseDaQueda ==
  ASSUME TypeOK, Ocupacao, Posse, [Next]_vars, UmSo, NEW d \in Dispatchers, Cair(d)
  PROVE  Posse'
<1>0. UmSo' /\ Abandono'
  BY UmSoFica, QuedasNaturais DEF Cair, Abandono, TypeOK
<1>1. /\ \A t \in Threads : run'[t] \in {Nenhum, run[t]}
      /\ fila' = fila
  BY DEF Cair, banco
<1>2. \A e \in Dispatchers : lote'[e] \subseteq lote[e] /\ orfaos'[e] \subseteq orfaos[e]
  BY DEF Cair, TypeOK
<1>3. Nenhum \notin Runs /\ \A e \in Dispatchers : Maos(e)' \subseteq Maos(e) /\ Maos(e) \subseteq Runs
  BY <1>2, NomesDistintos DEF Maos, TypeOK
<1>4. NaMaoDeUm'
  BY <1>1, <1>3 DEF Posse, NaMaoDeUm
<1>5. NaFilaPresa'
  BY <1>1, <1>2 DEF Posse, NaFilaPresa, Threads
<1>6. Varredura'
  BY <1>0, <1>1, <1>2, LigadosFicam DEF Posse, Varredura, Threads
<1> QED
  BY <1>0, <1>4, <1>5, <1>6 DEF Posse, NadaAbandonado

\* As long as claims are not taken from the living, every step keeps every run in one
\* pair of hands
LEMMA PossePreservada ==
  ASSUME TypeOK, Ocupacao, [Next]_vars, Pontual, Sossego => Posse
  PROVE  Sossego' => Posse'
<1> SUFFICES ASSUME Sossego' PROVE Posse'
  OBVIOUS
<1>0. /\ UmSo' <=> UmSo
      /\ Sossego /\ Posse
      /\ \A d \in Dispatchers : Cair(d) => UmSo
  <2>1. (UmSo' <=> UmSo) /\ (quedas' = 0 => quedas = 0)
    BY UmSoFica, AbandonoFica
  <2>2. \A d \in Dispatchers : Cair(d) => quedas' # 0
    BY QuedasNaturais DEF TypeOK, Cair
  <2> QED
    BY <2>1, <2>2 DEF Sossego
<1>1. ASSUME NEW r \in Runs, Enfileirar(r) \/ EntrarNaFila(r) \/ DecorrerAtraso(r) \/ Vencer(r)
      PROVE  Posse'
  <2>1. UNCHANGED <<run, lote, orfaos>>
    BY <1>1 DEF Enfileirar, EntrarNaFila, DecorrerAtraso, Vencer, laco
  <2>2. \A s \in Runs : EmMaosVivas(s) => fila'[s] = fila[s]
    BY <1>0, <1>1, NasMaos DEF Enfileirar, EntrarNaFila, Enqueue, DecorrerAtraso, Vencer, TypeOK
  <2>3. Presas' \subseteq Presas
    BY <1>1 DEF Enfileirar, EntrarNaFila, Enqueue, DecorrerAtraso, Vencer, TypeOK, Presas
  <2> QED
    BY <1>0, <2>1, <2>2, <2>3, PosseFica
<1>2. ASSUME NEW d \in Dispatchers, Laco(d) PROVE Posse'
  <2>1. CASE IniciarClaim(d)
    BY <1>0, <2>1, PosseFica DEF IniciarClaim, banco, Presas
  <2> QED
    BY <1>0, <1>2, <2>1, PosseDoClaim, PosseDoLancar, PosseDaVarredura, PosseDoOrfao DEF Laco
<1>3. ASSUME NEW d \in Dispatchers, Cair(d) PROVE Posse'
  BY <1>0, <1>3, PosseDaQueda
<1>4. ASSUME NEW t \in Threads, Trabalhar(t) PROVE Posse'
  <2>1. CASE ~Encerrar(t)
    BY <1>0, <1>4, <2>1, MeioDoTrabalho, PosseFica DEF Presas
  <2>2. CASE Encerrar(t)
    BY <1>0, <2>2, PosseDoEncerrar
  <2> QED
    BY <2>1, <2>2
<1>5. CASE UNCHANGED vars
  BY <1>0, <1>5, PosseFica DEF vars, Presas
<1> QED
  BY <1>1, <1>2, <1>3, <1>4, <1>5 DEF Next
\* Hands and queue agree in every state, as long as nothing disturbs them
LEMMA SemprePosse ==
  ASSUME Pontual
  PROVE  Spec => [](TypeOK /\ Ocupacao /\ (Sossego => Posse))
<1> DEFINE Inv == TypeOK /\ Ocupacao /\ (Sossego => Posse)
<1>1. Init => Inv
  BY TipoInicial, OcupacaoInicial, PosseInicial
<1>2. Inv /\ [Next]_vars => Inv'
  BY TipoPreservado, OcupacaoPreservada, PossePreservada
<1> QED
  BY <1>1, <1>2, PTL DEF Spec

\* Two goroutines never execute the same run, where no execution outlives the
\* visibility timeout: with one dispatcher through every death and lost answer, with
\* several until the first one (src/internal/queue/queue.go:7-10).
THEOREM UmExecutaDeCadaVez ==
  ASSUME Pontual
  PROVE  Spec => []UmExecutor
<1>1. (Sossego => Posse) /\ ContaDeTentativas => UmExecutor
  <2> SUFFICES ASSUME Posse, ContaDeTentativas, NEW t \in Threads, NEW u \in Threads,
                      pc[t] = "executar", run[t] = run[u]
               PROVE  t = u
    BY DEF UmExecutor
  <2>1. run[t] \in Runs
    BY DEF ContaDeTentativas, TemRun, Trabalhando
  <2> QED
    BY <2>1, NomesDistintos DEF Posse, NaMaoDeUm
<1> QED
  BY <1>1, SemprePosse, ContaCorreta, PTL

(***************************************************************************)
(* Nobody forgets a run                                                    *)
(***************************************************************************)

\* What a goroutine knows of the status of its run: who deletes the item knows that it
\* is not running; and, when nobody has died, that it is over
SabeDoZumbi == \A t \in Threads : pc[t] = "done" => status[run[t]] # "running"
SabeDoFim ==
  \A t \in Threads :
    /\ pc[t] \in {"executar", "sucesso", "falhar"} => status[run[t]] = "running"
    /\ pc[t] = "done" => status[run[t]] \in {"success", "failed"}

\* A step of a goroutine is about its own run, of which nobody else knows anything
LEMMA SoDoSeu ==
  ASSUME TypeOK, Ocupacao, Posse, TemRun, NEW t \in Threads, Trabalhar(t)
  PROVE  /\ run[t] \in Runs /\ fila[run[t]] \in {"presa", "livre"}
         /\ \A r \in Runs : r # run[t] => status'[r] = status[r] /\ fila'[r] = fila[r]
         /\ \A u \in Threads : u # t => pc'[u] = pc[u] /\ run'[u] = run[u]
         /\ \A u \in Threads : u # t /\ Trabalhando(u) => run[u] \in Runs /\ run[u] # run[t]
<1>1. pc[t] \in {"marcar", "executar", "sucesso", "falhar", "incrementar", "avisar", "retrying", "queued",
                 "done", "soltar", "release"}
  BY DEF Trabalhar, MarcarRunning, Executar, MarcarSuccess, MarcarFailed, IncrementarTentativa, Avisar,
         MarcarRetrying, MarcarQueued, Encerrar
<1>2. run[t] \in Runs
  BY <1>1 DEF TemRun, Trabalhando
<1>3. fila[run[t]] \in {"presa", "livre"}
  BY <1>2, NasMaos DEF EmMaosVivas
<1>4. \A r \in Runs : r # run[t] => status'[r] = status[r] /\ fila'[r] = fila[r]
  BY DEF Trabalhar, MarcarRunning, Executar, MarcarSuccess, MarcarFailed, IncrementarTentativa, Avisar,
         MarcarRetrying, MarcarQueued, Encerrar, Chamar, Transicionar, Done, Release, banco, TypeOK
<1>5. \A u \in Threads : u # t => pc'[u] = pc[u] /\ run'[u] = run[u]
  <2>1. CASE ~Encerrar(t)
    BY <2>1, MeioDoTrabalho DEF TypeOK
  <2>2. CASE Encerrar(t)
    BY <2>2 DEF Encerrar, Retornar, IrPara, TypeOK
  <2> QED
    BY <2>1, <2>2
<1>6. \A u \in Threads : u # t /\ Trabalhando(u) => run[u] \in Runs /\ run[u] # run[t]
  BY <1>2, NomesDistintos DEF TemRun, Posse, NaMaoDeUm
<1> QED
  BY <1>2, <1>3, <1>4, <1>5, <1>6

\* Where the goroutine that worked is, and what it made of its run
LEMMA ComoFicou ==
  ASSUME TypeOK, OndeEsta, ~BancoFalha, NEW t \in Threads, run[t] \in Runs, Trabalhar(t), ~Encerrar(t)
  PROVE  /\ pc'[t] = "done" => status'[run[t]] # "running"
         /\ (pc[t] \in {"executar", "sucesso", "falhar"} => status[run[t]] = "running") =>
              /\ pc'[t] \in {"executar", "sucesso", "falhar"} => status'[run[t]] = "running"
              /\ pc'[t] = "done" => status'[run[t]] \in {"success", "failed"}
<1> USE DEF TypeOK, IrPara, Chamar, Transicionar, PodeIr, transicoes, OndeEsta, banco
<1>1. CASE MarcarRunning(t)
  BY <1>1 DEF MarcarRunning
<1>2. CASE Executar(t)
  BY <1>2 DEF Executar
<1>3. CASE MarcarSuccess(t)
  BY <1>3 DEF MarcarSuccess
<1>4. CASE MarcarFailed(t)
  BY <1>4 DEF MarcarFailed
<1>5. CASE IncrementarTentativa(t)
  BY <1>5 DEF IncrementarTentativa
<1>6. CASE Avisar(t)
  BY <1>6 DEF Avisar
<1>7. CASE MarcarRetrying(t)
  BY <1>7 DEF MarcarRetrying
<1>8. CASE MarcarQueued(t)
  BY <1>8 DEF MarcarQueued
<1> QED
  BY <1>1, <1>2, <1>3, <1>4, <1>5, <1>6, <1>7, <1>8 DEF Trabalhar

\* A step of a goroutine keeps what all of them know, and the items of what is not over
LEMMA SaberDoTrabalho ==
  ASSUME TypeOK, Ocupacao, Posse, TemRun, OndeEsta, ~BancoFalha, NEW t \in Threads, Trabalhar(t)
  PROVE  /\ SabeDoZumbi => SabeDoZumbi'
         /\ SabeDoFim => SabeDoFim'
         /\ SabeDoZumbi => \A r \in Runs : status'[r] = "running" /\ fila'[r] = "fora" =>
                                           status[r] = "running" /\ fila[r] = "fora"
         /\ SabeDoFim => \A r \in Runs : status'[r] \in {"queued", "running", "retrying"} /\ fila'[r] = "fora" =>
                                         status[r] \in {"queued", "running", "retrying"} /\ fila[r] = "fora"
<1>1. /\ run[t] \in Runs /\ fila[run[t]] \in {"presa", "livre"}
      /\ \A r \in Runs : r # run[t] => status'[r] = status[r] /\ fila'[r] = fila[r]
      /\ \A u \in Threads : u # t => pc'[u] = pc[u] /\ run'[u] = run[u]
      /\ \A u \in Threads : u # t /\ Trabalhando(u) => run[u] \in Runs /\ run[u] # run[t]
  BY SoDoSeu
<1>2. \A u \in Threads : u # t /\ pc[u] \in {"executar", "sucesso", "falhar", "done"} =>
         status'[run'[u]] = status[run[u]]
  BY <1>1 DEF Trabalhando
<1>3. CASE ~Encerrar(t)
  <2>1. run' = run /\ fila' = fila
    BY <1>3, MeioDoTrabalho
  <2>2. SabeDoZumbi => SabeDoZumbi'
    BY <1>1, <1>2, <1>3, <2>1, ComoFicou DEF SabeDoZumbi
  <2>3. ASSUME SabeDoFim, NEW u \in Threads
        PROVE  /\ pc'[u] \in {"executar", "sucesso", "falhar"} => status'[run'[u]] = "running"
               /\ pc'[u] = "done" => status'[run'[u]] \in {"success", "failed"}
    <3>1. CASE u = t
      BY <3>1, <1>1, <1>3, <2>1, <2>3, ComoFicou DEF SabeDoFim
    <3>2. CASE u # t
      BY <3>2, <1>1, <1>2, <2>3 DEF SabeDoFim
    <3> QED
      BY <3>1, <3>2
  <2>4. SabeDoFim => SabeDoFim'
    BY <2>3 DEF SabeDoFim
  <2> QED
    BY <1>1, <2>1, <2>2, <2>4
<1>4. CASE Encerrar(t)
  <2>1. /\ pc'[t] \in {"laco", "ociosa"} /\ status' = status
        /\ fila'[run[t]] = "fora" => pc[t] = "done"
    BY <1>1, <1>4 DEF Encerrar, Retornar, IrPara, Done, Release, TypeOK
  <2>2. SabeDoZumbi => SabeDoZumbi'
    BY <1>1, <1>2, <2>1 DEF SabeDoZumbi
  <2>3. SabeDoFim => SabeDoFim'
    BY <1>1, <1>2, <2>1 DEF SabeDoFim
  <2> QED
    BY <1>1, <2>1, <2>2, <2>3 DEF SabeDoZumbi, SabeDoFim
<1> QED
  BY <1>3, <1>4

\* No other step deletes an item, or tells a run that it is to be executed before its
\* item is on the way
LEMMA SaberDosOutros ==
  ASSUME TypeOK, [Next]_vars, \A t \in Threads : ~Trabalhar(t)
  PROVE  /\ \A r \in Runs : fila'[r] = "fora" => fila[r] = "fora"
         /\ \A r \in Runs : status'[r] = status[r] \/ (status'[r] = "queued" /\ r \in aEntrar')
         /\ \A r \in Runs : status[r] # "created" => status'[r] = status[r]
         /\ \A r \in aEntrar : r \in aEntrar' \/ fila'[r] # "fora"
<1>1. ASSUME NEW r \in Runs, Enfileirar(r) \/ EntrarNaFila(r) \/ DecorrerAtraso(r) \/ Vencer(r)
      PROVE  /\ \A s \in Runs : fila'[s] = "fora" => fila[s] = "fora"
             /\ \A s \in Runs : \/ status'[s] = status[s]
                                \/ status'[s] = "queued" /\ s \in aEntrar' /\ status[s] = "created"
             /\ \A s \in aEntrar : s \in aEntrar' \/ fila'[s] # "fora"
  BY <1>1 DEF Enfileirar, Transicionar, EntrarNaFila, Enqueue, DecorrerAtraso, Vencer, TypeOK
<1>2. ASSUME NEW d \in Dispatchers, Laco(d)
      PROVE  /\ \A s \in Runs : fila'[s] = "fora" => fila[s] = "fora"
             /\ UNCHANGED <<status, aEntrar>>
  BY <1>2 DEF Laco, IniciarClaim, ConcluirClaim, Reivindicar, RecuperarOrfaos, Recuperar, FalharOrfao, Lancar,
              banco, TypeOK
<1>3. ASSUME NEW d \in Dispatchers, Cair(d)
      PROVE  UNCHANGED <<status, fila, aEntrar>>
  BY <1>3 DEF Cair, banco
<1>4. CASE UNCHANGED vars
  BY <1>4 DEF vars
<1> QED
  BY <1>1, <1>2, <1>3, <1>4 DEF Next

\* ... nor makes a goroutine believe anything about its run
LEMMA PontosDosOutros ==
  ASSUME TypeOK, Ocupacao, Posse, TemRun, [Next]_vars, \A t \in Threads : ~Trabalhar(t)
  PROVE  \A u \in Threads :
           /\ pc'[u] \in {"executar", "sucesso", "done"} =>
                pc[u] = pc'[u] /\ run'[u] = run[u] /\ run[u] \in Runs
           /\ pc'[u] = "falhar" /\ ~Abandono' =>
                pc[u] = "falhar" /\ run'[u] = run[u] /\ run[u] \in Runs
<1> SUFFICES ASSUME NEW u \in Threads
             PROVE  /\ pc'[u] \in {"executar", "sucesso", "done"} => pc[u] = pc'[u] /\ run'[u] = run[u]
                    /\ pc'[u] = "falhar" /\ ~Abandono' => pc[u] = "falhar" /\ run'[u] = run[u]
  BY DEF TemRun, Trabalhando
<1>1. ASSUME NEW d \in Dispatchers, Laco(d)
      PROVE  /\ pc'[u] \in {"executar", "sucesso", "done"} => pc[u] = pc'[u] /\ run'[u] = run[u]
             /\ pc'[u] = "falhar" /\ ~Abandono' => pc[u] = "falhar" /\ run'[u] = run[u]
  <2>1. CASE FalharOrfao(d)
    <3>1. Abandono'
      BY <2>1, AbandonoFica DEF FalharOrfao, Posse, Varredura
    <3> QED
      BY <2>1, <3>1 DEF FalharOrfao, TypeOK
  <2>2. CASE ~FalharOrfao(d)
    BY <1>1, <2>2 DEF Laco, IniciarClaim, ConcluirClaim, RecuperarOrfaos, Lancar, TypeOK
  <2> QED
    BY <2>1, <2>2
<1>2. ASSUME NEW d \in Dispatchers, Cair(d)
      PROVE  pc'[u] \in {"executar", "sucesso", "done", "falhar"} => pc[u] = pc'[u] /\ run'[u] = run[u]
  BY <1>2 DEF Cair
<1> QED
  BY <1>1, <1>2 DEF Next, vars, Enfileirar, EntrarNaFila, DecorrerAtraso, Vencer

\* A goroutine goes on knowing what it knows of the status of its run
LEMMA SaberPreservado ==
  ASSUME TypeOK, Ocupacao, Posse, TemRun, OndeEsta, ~BancoFalha, [Next]_vars
  PROVE  /\ SabeDoZumbi /\ (\A r \in Runs : status[r] = "running" => fila[r] # "fora") =>
              SabeDoZumbi' /\ \A r \in Runs : status'[r] = "running" => fila'[r] # "fora"
         /\ SabeDoFim /\ NadaSePerde /\ ~Abandono' => SabeDoFim' /\ NadaSePerde'
<1>1. ASSUME NEW t \in Threads, Trabalhar(t)
      PROVE  /\ SabeDoZumbi /\ (\A r \in Runs : status[r] = "running" => fila[r] # "fora") =>
                  SabeDoZumbi' /\ \A r \in Runs : status'[r] = "running" => fila'[r] # "fora"
             /\ SabeDoFim /\ NadaSePerde => SabeDoFim' /\ NadaSePerde'
  <2>1. aEntrar' = aEntrar
    BY <1>1 DEF Trabalhar, MarcarRunning, Executar, MarcarSuccess, MarcarFailed, IncrementarTentativa, Avisar,
                MarcarRetrying, MarcarQueued, Encerrar
  <2>2. SabeDoZumbi /\ (\A r \in Runs : status[r] = "running" => fila[r] # "fora") =>
          SabeDoZumbi' /\ \A r \in Runs : status'[r] = "running" => fila'[r] # "fora"
    BY <1>1, SaberDoTrabalho
  <2>3. ASSUME SabeDoFim, NadaSePerde PROVE SabeDoFim' /\ NadaSePerde'
    BY <1>1, <2>1, <2>3, SaberDoTrabalho DEF NadaSePerde
  <2> QED
    BY <2>2, <2>3
<1>2. CASE \A t \in Threads : ~Trabalhar(t)
  <2>1. /\ \A r \in Runs : fila'[r] = "fora" => fila[r] = "fora"
        /\ \A r \in Runs : status'[r] = status[r] \/ (status'[r] = "queued" /\ r \in aEntrar')
        /\ \A r \in Runs : status[r] # "created" => status'[r] = status[r]
        /\ \A r \in aEntrar : r \in aEntrar' \/ fila'[r] # "fora"
    BY <1>2, SaberDosOutros
  <2>2. \A u \in Threads :
           /\ pc'[u] \in {"executar", "sucesso", "done"} =>
                pc[u] = pc'[u] /\ run'[u] = run[u] /\ run[u] \in Runs
           /\ pc'[u] = "falhar" /\ ~Abandono' =>
                pc[u] = "falhar" /\ run'[u] = run[u] /\ run[u] \in Runs
    BY <1>2, PontosDosOutros
  <2>3. SabeDoZumbi => SabeDoZumbi'
    BY <2>1, <2>2 DEF SabeDoZumbi
  <2>4. ASSUME SabeDoFim, ~Abandono' PROVE SabeDoFim'
    <3>1. \A u \in Threads : pc[u] = "done" => status[run[u]] \in {"success", "failed"}
      BY <2>4 DEF SabeDoFim
    <3> QED
      BY <2>1, <2>2, <2>4 DEF SabeDoFim
  <2>5. NadaSePerde => NadaSePerde'
    BY <2>1 DEF NadaSePerde
  <2> QED
    BY <2>1, <2>3, <2>4, <2>5
<1> QED
  BY <1>1, <1>2

\* What is undisturbed after a step was so before it
LEMMA SossegoFica ==
  ASSUME TypeOK, Ocupacao, [Next]_vars, Sossego'
  PROVE  Sossego
BY UmSoFica, AbandonoFica DEF Sossego

\* What is marked running has its item in the queue, with one dispatcher through every
\* death, and what was enqueued keeps its item until it is over, until a process dies
\* (src/internal/scheduler/dispatcher.go:3-6 and 141-144), where no execution outlives
\* the visibility timeout and every statement is answered.
THEOREM NinguemSeEsquece ==
  ASSUME Pontual, ~BancoFalha
  PROVE  Spec => []NinguemEsquece
<1> DEFINE Zumbi == SabeDoZumbi /\ \A r \in Runs : status[r] = "running" => fila[r] # "fora"
           Perda == SabeDoFim /\ NadaSePerde
           Base == TypeOK /\ Ocupacao /\ ContaDeTentativas /\ (Sossego => Posse)
           Inv == (Sossego => Zumbi) /\ (~Abandono => Perda)
<1>1. Spec => []Base
  BY SemprePosse, ContaCorreta, PTL
<1>2. Init => Inv
  BY DEF Init, SabeDoZumbi, SabeDoFim, NadaSePerde
<1>3. Base /\ Inv /\ [Next]_vars => Inv'
  <2> SUFFICES ASSUME Base, Inv, [Next]_vars PROVE Inv'
    OBVIOUS
  <2>1. TemRun /\ OndeEsta
    BY DEF ContaDeTentativas
  <2>2. ASSUME Sossego' PROVE Zumbi'
    <3>1. Sossego
      BY <2>2, SossegoFica
    <3> QED
      BY <2>1, <3>1, SaberPreservado
  <2>3. ASSUME ~Abandono' PROVE Perda'
    <3>1. ~Abandono /\ Sossego
      BY <2>3, AbandonoFica DEF Abandono, Sossego
    <3> QED
      BY <2>1, <2>3, <3>1, SaberPreservado
  <2> QED
    BY <2>2, <2>3
<1>4. Inv => NinguemEsquece
  BY DEF NinguemEsquece, NenhumZumbi, NadaSePerdeSemQuedas, Sossego, Abandono
<1> QED
  BY <1>1, <1>2, <1>3, <1>4, PTL DEF Spec

================================================================================
