------------------------------ MODULE RunnerProofs ------------------------------
(***************************************************************************)
(* Proofs about Runner, for any set of runs, any graph over any finite set *)
(* of steps, any --max-pods and any number of attempts and deaths.         *)
(***************************************************************************)
EXTENDS Runner, StepGraphProofs

(***************************************************************************)
(* The inductive invariant                                                 *)
(***************************************************************************)

\* A goroutine belongs to a run under way, and one that is not done with its step
\* belongs to the level the run is in
Andamento ==
  /\ \A r \in Runs : execucao[r] = "rodando" =>
       TemNiveis(grafo) /\ nivel[r] \in 1..Cardinality(Nos)
  /\ \A x \in Passos : pc[x] # "fora" => execucao[x[1]] = "rodando"
  /\ \A x \in Passos : pc[x] \notin {"fora", "ok"} => x[2] \in Nivel(grafo, nivel[x[1]])

\* There is another attempt after the wait for one
RecuoLegal == \A x \in Passos : pc[x] = "recuo" => passo[x] + 1 < config[2]

\* Who holds a place is between ocupar and libera, and there are no more than --max-pods
ComLugar == {"criar", "esperar", "limpar", "fim"}
LugaresCertos ==
  /\ \A x \in Passos : x \in vagas <=> pc[x] \in ComLugar
  /\ IsFiniteSet(vagas) /\ Cardinality(vagas) <= MaxPods

ParadaLembrada == encerrando => interrompido

\* What is written agrees with what the goroutines came to
LinhasConferem ==
  ~interrompido =>
    /\ \A x \in Passos : /\ pc[x] = "ok" => TemSucesso(x)
                         /\ pc[x] = "falhou" => tarefa[x][passo[x]] = "failed"
    /\ \A r \in Runs : execucao[r] = "rodando" =>
         \A n \in Feitos(grafo)[nivel[r] - 1] : TemSucesso(<<r, n>>)

\* A step tried once has one name for its pod
NomeUnico ==
  config[2] = 1 => /\ \A x \in Passos : passo[x] = 0
                   /\ \A m \in Nomes : pod[m] # "nao" => m[2] = 0 /\ m[3] = 0

\* No pod of a graph with a cycle
SemPodComCiclo == Ciclico(grafo) => \A m \in Nomes : pod[m] = "nao"

(***************************************************************************)
(* What the steps do to the goroutines                                     *)
(***************************************************************************)

Pontos == {"fora", "vaga", "criar", "esperar", "limpar", "fim", "recuo", "ok", "falhou"}

\* What goes wrong in silence is counted, and remembered
LEMMA CaladoConta ==
  ASSUME TypeOK, UNCHANGED falhas \/ Calado
  PROVE  /\ quedas' \in 0..MaxQuedas
         /\ encerrando' = encerrando
         /\ interrompido' = interrompido \/ interrompido' = TRUE
         /\ Calado => interrompido' = TRUE
<1>1. quedas' \in 0..MaxQuedas
  BY QuedasNaturais DEF TypeOK, falhas, Calado
<1>2. encerrando' = encerrando
  BY DEF falhas, Calado
<1>3. interrompido' = interrompido \/ interrompido' = TRUE
  BY DEF falhas, Calado
<1>4. Calado => interrompido' = TRUE
  BY DEF Calado
<1> QED
  BY <1>1, <1>2, <1>3, <1>4

\* A step of a goroutine moves that goroutine, from where it is not done
LEMMA UmPassoAnda ==
  ASSUME TypeOK, NEW x \in Passos, DoPasso(x) \/ DesistirDoPod(x)
  PROVE  /\ pc[x] \in Pontos \ {"fora", "ok", "falhou"}
         /\ \E p \in Pontos \ {"fora"} : pc' = [pc EXCEPT ![x] = p]
         /\ UNCHANGED <<grafo, config, execucao, attempt, nivel, encerrando>>
         /\ interrompido' = interrompido \/ interrompido' = TRUE
<1>1. CASE Ocupar(x)
  BY <1>1 DEF Ocupar, IrPara, Pontos, doRun, resto, falhas, Gravar
<1>2. CASE DesistirDaVaga(x)
  BY <1>2 DEF DesistirDaVaga, IrPara, Pontos, doRun, resto, falhas
<1>3. CASE Criar(x)
  <2>1. UNCHANGED falhas \/ Calado
    BY <1>3 DEF Criar
  <2> QED
    BY <1>3, <2>1, CaladoConta DEF Criar, IrPara, Pontos, doRun, resto
<1>4. CASE VerFim(x)
  BY <1>4 DEF VerFim, IrPara, Pontos, doRun, resto, falhas
<1>5. CASE Limpar(x)
  <2>1. UNCHANGED falhas \/ Calado
    BY <1>5 DEF Limpar
  <2> QED
    BY <1>5, <2>1, CaladoConta DEF Limpar, IrPara, Pontos, doRun, resto
<1>6. CASE Terminar(x)
  BY <1>6 DEF Terminar, IrPara, Pontos, doRun, resto, falhas
<1>7. CASE Repetir(x)
  BY <1>7 DEF Repetir, IrPara, Pontos, doRun, resto, falhas
<1>8. CASE DesistirDoPod(x)
  BY <1>8 DEF DesistirDoPod, IrPara, Pontos, doRun, resto, falhas
<1> QED
  BY <1>1, <1>2, <1>3, <1>4, <1>5, <1>6, <1>7, <1>8 DEF DoPasso
(***************************************************************************)
(* Types                                                                   *)
(***************************************************************************)

\* The attempts are counted from zero
LEMMA VezesContam ==
  /\ 0 \in Vezes
  /\ \A c \in Configuracoes, n \in Vezes :
       /\ c[1] \in Nat /\ c[2] \in Nat
       /\ (n + 1 < c[1] \/ n + 1 < c[2]) => n + 1 \in Vezes
BY TentativasPositivas DEF Vezes

\* The pod of an attempt has a name
LEMMA NomeServe ==
  ASSUME TypeOK, NEW x \in Passos
  PROVE  Nome(x) \in Nomes /\ Nome(x)[1] = x
BY VezesContam DEF Nome, Nomes, TypeOK

\* Pods appear and disappear by their names
LEMMA PodsTemTipo ==
  ASSUME TypeOK, NEW x \in Passos, Aparece(x) \/ Apagar(x) \/ UNCHANGED doPod
  PROVE  pod' \in [Nomes -> Fases] /\ origem' \in [Nomes -> Vezes]
<1> DEFINE n == Nome(x)
<1>1. n \in Nomes /\ attempt[x[1]] \in Vezes /\ 0 \in Vezes
  BY NomeServe, VezesContam DEF TypeOK, Passos
<1>2. \/ pod' = pod /\ origem' = origem
      \/ pod' = [pod EXCEPT ![n] = "vivo"] /\ origem' = [origem EXCEPT ![n] = attempt[x[1]]]
      \/ pod' = [pod EXCEPT ![n] = "nao"] /\ origem' = [origem EXCEPT ![n] = 0]
  BY DEF Aparece, Apagar, doPod
<1> HIDE DEF n
<1> QED
  BY <1>1, <1>2 DEF TypeOK, Fases

\* The goroutines of a level are set going, and nobody else's
LEMMA LancarMuda ==
  ASSUME TypeOK, NEW r \in Runs, NEW k, k \in 0..Cardinality(Nos), Lancar(r, k)
  PROVE  /\ nivel' = [nivel EXCEPT ![r] = k] /\ nivel' \in [Runs -> 0..Cardinality(Nos)]
         /\ pc' \in [Passos -> Pontos] /\ passo' \in [Passos -> Vezes]
         /\ \A x \in Passos :
              \/ x \in DoNivel(r, k) /\ pc'[x] = "vaga" /\ passo'[x] = 0
              \/ x \notin DoNivel(r, k) /\ pc'[x] = pc[x] /\ passo'[x] = passo[x]
BY VezesContam DEF Lancar, TypeOK, Pontos

\* The last level is at most the number of steps
LEMMA NivelSeguinte ==
  ASSUME TypeOK, Andamento, NEW r \in Runs, execucao[r] = "rodando", ~Ultimo(grafo, nivel[r])
  PROVE  nivel[r] + 1 \in 1..Cardinality(Nos)
<1>1. nivel[r] \in 1..Cardinality(Nos) /\ Feitos(grafo)[Cardinality(Nos)] = Nos
  BY DEF Andamento, TemNiveis
<1>2. nivel[r] # Cardinality(Nos)
  BY <1>1 DEF Ultimo
<1> QED
  BY <1>1, <1>2, QuantosNos

\* There is a first level
LEMMA PrimeiroNivel == 1 \in 1..Cardinality(Nos)
BY AlgumPasso, NosFinitos, QuantosNos, FS_EmptySet

\* Every step keeps the types
LEMMA TiposFicam ==
  ASSUME TypeOK, Andamento, RecuoLegal, [Next]_vars
  PROVE  TypeOK'
<1> USE DEF TypeOK
<1> USE VezesContam
<1>1. CASE UNCHANGED vars
  BY <1>1 DEF vars
<1>2. ASSUME NEW r \in Runs, Comecar(r) PROVE TypeOK'
  <2>1. CASE TemNiveis(grafo)
    <3>1. Lancar(r, 1)
      BY <1>2, <2>1 DEF Comecar
    <3>2. nivel' \in [Runs -> 0..Cardinality(Nos)] /\ pc' \in [Passos -> Pontos]
          /\ passo' \in [Passos -> Vezes] /\ \A x \in Passos : pc'[x] \in {"vaga", pc[x]}
      BY <3>1, PrimeiroNivel, LancarMuda
    <3> QED
      BY <1>2, <2>1, <3>2 DEF Comecar, resto, doPod, falhas, Pontos
  <2>2. CASE ~TemNiveis(grafo)
    BY <1>2, <2>2 DEF Comecar, resto, doPod, falhas
  <2> QED
    BY <2>1, <2>2
<1>3. ASSUME NEW r \in Runs, FecharNivel(r) PROVE TypeOK'
  <2>1. CASE ~Ultimo(grafo, nivel[r]) /\ Lancar(r, nivel[r] + 1) /\ UNCHANGED execucao
    <3>1. nivel[r] + 1 \in 1..Cardinality(Nos)
      BY <1>3, <2>1, NivelSeguinte DEF FecharNivel
    <3>2. nivel' \in [Runs -> 0..Cardinality(Nos)] /\ pc' \in [Passos -> Pontos]
          /\ passo' \in [Passos -> Vezes] /\ \A x \in Passos : pc'[x] \in {"vaga", pc[x]}
      BY <2>1, <3>1, LancarMuda
    <3> QED
      BY <1>3, <2>1, <3>2 DEF FecharNivel, resto, doPod, falhas, Pontos
  <2>2. CASE /\ execucao' \in {[execucao EXCEPT ![r] = "erro"], [execucao EXCEPT ![r] = "ok"]}
             /\ pc' = Limpa(r) /\ UNCHANGED <<nivel, passo>>
    <3>1. pc' \in [Passos -> Pontos] /\ \A x \in Passos : pc'[x] \in {"fora", pc[x]}
      BY <2>2 DEF Limpa, Pontos
    <3> QED
      BY <1>3, <2>2, <3>1 DEF FecharNivel, resto, doPod, falhas, Pontos
  <2> QED
    BY <1>3, <2>1, <2>2 DEF FecharNivel
<1>4. ASSUME NEW r \in Runs, IniciarDeNovo(r) PROVE TypeOK'
  BY <1>4 DEF IniciarDeNovo, resto, doPod, falhas
<1>5. ASSUME NEW x \in Passos, Ocupar(x) PROVE TypeOK'
  <2>1. tarefa' \in [Passos -> [Vezes -> {"nao", "running", "success", "failed"}]]
    BY <1>5 DEF Ocupar, Gravar
  <2> QED
    BY <1>5, <2>1 DEF Ocupar, IrPara, resto, doRun, doPod, falhas
<1>6. ASSUME NEW x \in Passos, DesistirDaVaga(x) PROVE TypeOK'
  BY <1>6 DEF DesistirDaVaga, IrPara, resto, doRun, doPod, falhas
<1>7. ASSUME NEW x \in Passos, Criar(x) PROVE TypeOK'
  <2>1. Aparece(x) \/ UNCHANGED doPod
    BY <1>7 DEF Criar
  <2>2. pod' \in [Nomes -> Fases] /\ origem' \in [Nomes -> Vezes]
    BY <2>1, PodsTemTipo
  <2>3. UNCHANGED falhas \/ Calado
    BY <1>7 DEF Criar
  <2>4. quedas' \in 0..MaxQuedas /\ encerrando' \in BOOLEAN /\ interrompido' \in BOOLEAN
    BY <2>3, CaladoConta
  <2>5. \/ IrPara(x, "esperar") /\ UNCHANGED resultado
        \/ IrPara(x, "fim") /\ Desfecho(x, "erro")
    BY <1>7 DEF Criar
  <2> QED
    BY <1>7, <2>2, <2>4, <2>5 DEF Criar, IrPara, Desfecho, resto, doRun
<1>8. ASSUME NEW x \in Passos, VerFim(x) PROVE TypeOK'
  BY <1>8, NomeServe DEF VerFim, IrPara, Desfecho, resto, doRun, doPod, falhas, Fases
<1>9. ASSUME NEW x \in Passos, DesistirDoPod(x) PROVE TypeOK'
  BY <1>9 DEF DesistirDoPod, IrPara, Desfecho, resto, doRun, doPod, falhas
<1>10. ASSUME NEW x \in Passos, Limpar(x) PROVE TypeOK'
  <2>1. Apagar(x) \/ UNCHANGED doPod
    BY <1>10 DEF Limpar
  <2>2. pod' \in [Nomes -> Fases] /\ origem' \in [Nomes -> Vezes]
    BY <2>1, PodsTemTipo
  <2>3. UNCHANGED falhas \/ Calado
    BY <1>10 DEF Limpar
  <2>4. quedas' \in 0..MaxQuedas /\ encerrando' \in BOOLEAN /\ interrompido' \in BOOLEAN
    BY <2>3, CaladoConta
  <2> QED
    BY <1>10, <2>2, <2>4 DEF Limpar, IrPara, resto, doRun
<1>11. ASSUME NEW x \in Passos, Terminar(x) PROVE TypeOK'
  <2>1. tarefa' \in [Passos -> [Vezes -> {"nao", "running", "success", "failed"}]]
    BY <1>11 DEF Terminar, Gravar
  <2>2. \E p \in {"ok", "recuo", "falhou"} : IrPara(x, p)
    BY <1>11 DEF Terminar
  <2> QED
    BY <1>11, <2>1, <2>2 DEF Terminar, IrPara, Desfecho, resto, doRun, doPod, falhas
<1>12. ASSUME NEW x \in Passos, Repetir(x) PROVE TypeOK'
  <2>1. passo[x] + 1 \in Vezes
    BY <1>12 DEF Repetir, RecuoLegal
  <2>2. passo' \in [Passos -> Vezes]
    BY <1>12, <2>1 DEF Repetir
  <2>3. \E p \in {"vaga", "falhou"} : IrPara(x, p)
    BY <1>12 DEF Repetir
  <2> QED
    BY <1>12, <2>2, <2>3 DEF Repetir, IrPara, resto, doRun, doPod, falhas
<1>13. ASSUME NEW m \in Nomes, Concluir(m) PROVE TypeOK'
  BY <1>13 DEF Concluir, resto, doRun, falhas, Fases
<1>14. CASE Encerrar
  BY <1>14, QuedasNaturais DEF Encerrar, resto, doRun, doPod
<1>15. CASE Recomecar /\ quedas' \in 0..MaxQuedas
  BY <1>15 DEF Recomecar, resto, doPod
<1>16. CASE Sair
  BY <1>15, <1>16 DEF Sair
<1>17. CASE Cair
  BY <1>15, <1>17, QuedasNaturais DEF Cair
<1> QED
  BY <1>1, <1>2, <1>3, <1>4, <1>5, <1>6, <1>7, <1>8, <1>9, <1>10, <1>11, <1>12, <1>13,
     <1>14, <1>16, <1>17 DEF Next, DoPasso
(***************************************************************************)
(* Levels and goroutines                                                   *)
(***************************************************************************)

\* When a level closes, no goroutine of the run is under way; and when the next one
\* starts, none has failed
LEMMA NivelFechado ==
  ASSUME TypeOK, Andamento, NEW r \in Runs, FecharNivel(r), NEW x \in Passos, x[1] = r
  PROVE  /\ pc[x] \in {"fora", "ok", "falhou"}
         /\ execucao' = execucao => pc[x] \in {"fora", "ok"}
<1>1. execucao[r] = "rodando" /\ \A y \in DoNivel(r, nivel[r]) : pc[y] \in {"ok", "falhou"}
  BY DEF FecharNivel
<1>2. pc[x] \notin {"fora", "ok"} => x \in DoNivel(r, nivel[r])
  BY DEF Andamento, DoNivel
<1>3. execucao' = execucao => \A y \in DoNivel(r, nivel[r]) : pc[y] # "falhou"
  BY <1>1 DEF FecharNivel, TypeOK
<1> QED
  BY <1>1, <1>2, <1>3

\* Every step keeps the goroutines in their levels
LEMMA AndamentoFica ==
  ASSUME TypeOK, Andamento, [Next]_vars
  PROVE  Andamento'
<1> USE DEF TypeOK
<1>1. CASE UNCHANGED vars
  BY <1>1 DEF vars, Andamento
<1>2. ASSUME NEW r \in Runs, Comecar(r) PROVE Andamento'
  <2>1. execucao[r] = "livre" /\ grafo' = grafo
    BY <1>2 DEF Comecar, resto
  <2>2. \A x \in Passos : x[1] = r => pc[x] = "fora"
    BY <2>1 DEF Andamento
  <2>3. CASE TemNiveis(grafo)
    <3>1. Lancar(r, 1) /\ execucao' = [execucao EXCEPT ![r] = "rodando"]
      BY <1>2, <2>3 DEF Comecar
    <3>2. /\ nivel' = [nivel EXCEPT ![r] = 1]
          /\ \A x \in Passos : \/ x \in DoNivel(r, 1) /\ pc'[x] = "vaga"
                               \/ pc'[x] = pc[x]
      <4>1. nivel' = [nivel EXCEPT ![r] = 1]
        BY <3>1 DEF Lancar
      <4>2. pc' = [x \in Passos |-> IF x \in DoNivel(r, 1) THEN "vaga" ELSE pc[x]]
        BY <3>1 DEF Lancar
      <4> HIDE DEF TypeOK
      <4> QED
        BY <4>1, <4>2
    <3>3. \A x \in Passos : pc'[x] # "fora" => execucao'[x[1]] = "rodando"
      BY <3>1, <3>2 DEF Andamento, DoNivel, Passos
    <3>4. \A x \in Passos : pc'[x] \notin {"fora", "ok"} => x[2] \in Nivel(grafo, nivel'[x[1]])
      BY <2>2, <3>2 DEF Andamento, DoNivel, Passos
    <3>5. \A q \in Runs : execucao'[q] = "rodando" => TemNiveis(grafo) /\ nivel'[q] \in 1..Cardinality(Nos)
      BY <2>3, <3>1, <3>2, PrimeiroNivel DEF Andamento
    <3> QED
      BY <2>1, <3>3, <3>4, <3>5 DEF Andamento
  <2>4. CASE ~TemNiveis(grafo)
    BY <1>2, <2>1, <2>2, <2>4 DEF Comecar, Andamento, Passos
  <2> QED
    BY <2>3, <2>4
<1>3. ASSUME NEW r \in Runs, FecharNivel(r) PROVE Andamento'
  <2>1. grafo' = grafo /\ execucao[r] = "rodando"
    BY <1>3 DEF FecharNivel, resto
  <2>2. CASE ~Ultimo(grafo, nivel[r]) /\ Lancar(r, nivel[r] + 1) /\ UNCHANGED execucao
    <3>1. nivel[r] + 1 \in 1..Cardinality(Nos)
      BY <2>1, <2>2, NivelSeguinte
    <3>2. /\ nivel' = [nivel EXCEPT ![r] = nivel[r] + 1]
          /\ \A x \in Passos : \/ x \in DoNivel(r, nivel[r] + 1) /\ pc'[x] = "vaga"
                               \/ pc'[x] = pc[x]
      BY <2>2, <3>1, LancarMuda
    <3>3. \A x \in Passos : pc'[x] # "fora" => execucao'[x[1]] = "rodando"
      BY <2>1, <2>2, <3>2 DEF Andamento, DoNivel
    <3>4. \A x \in Passos : pc'[x] \notin {"fora", "ok"} => x[2] \in Nivel(grafo, nivel'[x[1]])
      <4> SUFFICES ASSUME NEW x \in Passos, pc'[x] \notin {"fora", "ok"}
                   PROVE  x[2] \in Nivel(grafo, nivel'[x[1]])
        OBVIOUS
      <4>1. CASE x \in DoNivel(r, nivel[r] + 1)
        BY <3>2, <4>1 DEF DoNivel
      <4>2. CASE x \notin DoNivel(r, nivel[r] + 1)
        <5>1. pc'[x] = pc[x] /\ x[1] # r
          BY <1>3, <2>2, <3>2, <4>2, NivelFechado
        <5> QED
          BY <3>2, <5>1 DEF Andamento, Passos
      <4> QED
        BY <4>1, <4>2
    <3>5. \A q \in Runs : execucao'[q] = "rodando" => TemNiveis(grafo) /\ nivel'[q] \in 1..Cardinality(Nos)
      BY <2>2, <3>1, <3>2 DEF Andamento
    <3> QED
      BY <2>1, <3>3, <3>4, <3>5 DEF Andamento
  <2>3. CASE /\ execucao' \in {[execucao EXCEPT ![r] = "erro"], [execucao EXCEPT ![r] = "ok"]}
             /\ pc' = Limpa(r) /\ UNCHANGED <<nivel, passo>>
    <3>1. /\ \A x \in Passos : pc'[x] = IF x[1] = r THEN "fora" ELSE pc[x]
          /\ \A q \in Runs : q # r => execucao'[q] = execucao[q]
          /\ execucao'[r] # "rodando"
      BY <2>3 DEF Limpa
    <3> QED
      BY <2>1, <2>3, <3>1 DEF Andamento, Passos
  <2> QED
    BY <1>3, <2>2, <2>3 DEF FecharNivel
<1>4. ASSUME NEW r \in Runs, IniciarDeNovo(r) PROVE Andamento'
  BY <1>4 DEF IniciarDeNovo, resto, Andamento, Passos
<1>5. ASSUME NEW x \in Passos, DoPasso(x) \/ DesistirDoPod(x) PROVE Andamento'
  <2>1. /\ pc[x] \notin {"fora", "ok"} /\ UNCHANGED <<grafo, execucao, nivel>>
        /\ \A y \in Passos : y # x => pc'[y] = pc[y]
    BY <1>5, UmPassoAnda
  <2> QED
    BY <2>1 DEF Andamento
<1>6. ASSUME NEW m \in Nomes, Concluir(m) PROVE Andamento'
  BY <1>6 DEF Concluir, resto, doRun, Andamento
<1>7. CASE Encerrar
  BY <1>7 DEF Encerrar, resto, doRun, Andamento
<1>8. CASE Sair \/ Cair
  BY <1>8 DEF Sair, Cair, Recomecar, resto, Andamento
<1> QED
  BY <1>1, <1>2, <1>3, <1>4, <1>5, <1>6, <1>7, <1>8 DEF Next

\* A wait for another attempt is begun where there is one
LEMMA RecuoFica ==
  ASSUME TypeOK, Andamento, RecuoLegal, [Next]_vars
  PROVE  RecuoLegal'
<1> USE DEF TypeOK
<1> SUFFICES ASSUME NEW x \in Passos, pc'[x] = "recuo"
             PROVE  passo'[x] + 1 < config'[2]
  BY DEF RecuoLegal
<1>1. CASE UNCHANGED vars
  BY <1>1 DEF vars, RecuoLegal
<1>2. ASSUME NEW r \in Runs, Comecar(r) \/ FecharNivel(r) \/ IniciarDeNovo(r)
      PROVE  pc[x] = "recuo" /\ passo'[x] = passo[x] /\ config' = config
  BY <1>2 DEF Comecar, FecharNivel, IniciarDeNovo, Lancar, Limpa, resto
<1>3. ASSUME NEW y \in Passos, DoPasso(y) \/ DesistirDoPod(y), y # x
      PROVE  pc[x] = "recuo" /\ passo'[x] = passo[x] /\ config' = config
  <2>1. pc'[x] = pc[x] /\ config' = config
    BY <1>3, UmPassoAnda
  <2>2. passo'[x] = passo[x]
    BY <1>3 DEF DoPasso, Ocupar, DesistirDaVaga, Criar, VerFim, Limpar, Terminar, Repetir, DesistirDoPod
  <2> QED
    BY <2>1, <2>2
<1>4. CASE DoPasso(x) \/ DesistirDoPod(x)
  <2>1. Terminar(x)
    BY <1>4 DEF DoPasso, Ocupar, DesistirDaVaga, Criar, VerFim, Limpar, Repetir, DesistirDoPod, IrPara
  <2> QED
    BY <2>1 DEF Terminar, IrPara, resto
<1>5. ASSUME NEW m \in Nomes, Concluir(m)
      PROVE  pc[x] = "recuo" /\ passo'[x] = passo[x] /\ config' = config
  BY <1>5 DEF Concluir, resto
<1>6. CASE Encerrar
  BY <1>6 DEF Encerrar, resto, RecuoLegal
<1>7. CASE Sair \/ Cair
  BY <1>7 DEF Sair, Cair, Recomecar
<1> QED
  BY <1>1, <1>2, <1>3, <1>4, <1>5, <1>6, <1>7 DEF Next, RecuoLegal

(***************************************************************************)
(* Places                                                                  *)
(***************************************************************************)

\* Every step keeps the places: one for each goroutine between ocupar and libera
LEMMA LugaresFicam ==
  ASSUME TypeOK, Andamento, LugaresCertos, [Next]_vars
  PROVE  LugaresCertos'
<1> USE DEF TypeOK, ComLugar
<1>1. CASE UNCHANGED vars
  BY <1>1 DEF vars, LugaresCertos
<1>2. ASSUME vagas' = vagas,
             \A x \in Passos : pc'[x] \in ComLugar <=> pc[x] \in ComLugar
      PROVE  LugaresCertos'
  BY <1>2 DEF LugaresCertos
<1>3. ASSUME NEW r \in Runs, Comecar(r) PROVE LugaresCertos'
  <2>1. \A x \in Passos : x[1] = r => pc[x] = "fora"
    BY <1>3 DEF Comecar, Andamento
  <2>2. \A x \in Passos : pc'[x] = pc[x] \/ (x[1] = r /\ pc'[x] = "vaga")
    BY <1>3 DEF Comecar, Lancar, DoNivel
  <2> QED
    BY <1>2, <1>3, <2>1, <2>2 DEF Comecar
<1>4. ASSUME NEW r \in Runs, FecharNivel(r) PROVE LugaresCertos'
  <2>1. \A x \in Passos : x[1] = r => pc[x] \in {"fora", "ok", "falhou"}
    BY <1>4, NivelFechado
  <2>2. \A x \in Passos : pc'[x] = pc[x] \/ (x[1] = r /\ pc'[x] \in {"fora", "vaga"})
    BY <1>4 DEF FecharNivel, Lancar, DoNivel, Limpa
  <2> QED
    BY <1>2, <1>4, <2>1, <2>2 DEF FecharNivel
<1>5. ASSUME NEW r \in Runs, IniciarDeNovo(r) PROVE LugaresCertos'
  BY <1>2, <1>5 DEF IniciarDeNovo
<1>6. ASSUME NEW x \in Passos, Ocupar(x) PROVE LugaresCertos'
  <2>1. /\ vagas' = vagas \cup {x} /\ Cardinality(vagas) < MaxPods
        /\ \A y \in Passos : pc'[y] = IF y = x THEN "criar" ELSE pc[y]
    BY <1>6 DEF Ocupar, IrPara
  <2>2. IsFiniteSet(vagas') /\ Cardinality(vagas') <= Cardinality(vagas) + 1 /\ Cardinality(vagas) \in Nat
    <3>1. IsFiniteSet(vagas) /\ Cardinality(vagas) \in Nat
      BY FS_CardinalityType DEF LugaresCertos
    <3>2. /\ IsFiniteSet(vagas \cup {x})
          /\ Cardinality(vagas \cup {x}) = IF x \in vagas THEN Cardinality(vagas) ELSE Cardinality(vagas) + 1
      BY <3>1, FS_AddElement
    <3> QED
      BY <2>1, <3>1, <3>2
  <2>3. Cardinality(vagas') <= MaxPods
    BY <2>1, <2>2, FS_CardinalityType, VagasPositivas
  <2> QED
    BY <2>1, <2>2, <2>3 DEF LugaresCertos
<1>7. ASSUME NEW x \in Passos, Terminar(x) PROVE LugaresCertos'
  <2>1. /\ vagas' = vagas \ {x}
        /\ \E p \in {"ok", "recuo", "falhou"} : \A y \in Passos : pc'[y] = IF y = x THEN p ELSE pc[y]
    BY <1>7 DEF Terminar, IrPara
  <2>2. IsFiniteSet(vagas') /\ Cardinality(vagas') <= Cardinality(vagas)
    BY <2>1, FS_Subset DEF LugaresCertos
  <2>3. Cardinality(vagas') <= MaxPods
    BY <2>2, FS_CardinalityType, VagasPositivas DEF LugaresCertos
  <2> QED
    BY <2>1, <2>2, <2>3 DEF LugaresCertos
<1>8. ASSUME NEW x \in Passos,
             \/ DesistirDaVaga(x) \/ Criar(x) \/ VerFim(x) \/ DesistirDoPod(x)
             \/ Limpar(x) \/ Repetir(x)
      PROVE  LugaresCertos'
  <2>1. vagas' = vagas
    BY <1>8 DEF DesistirDaVaga, Criar, VerFim, DesistirDoPod, Limpar, Repetir
  <2>2. \E p \in Pontos : IrPara(x, p) /\ (pc[x] \in ComLugar <=> p \in ComLugar)
    <3>1. CASE DesistirDaVaga(x)
      BY <3>1 DEF DesistirDaVaga, Pontos
    <3>2. CASE Criar(x)
      BY <3>2 DEF Criar, Pontos
    <3>3. CASE VerFim(x) \/ DesistirDoPod(x)
      BY <3>3 DEF VerFim, DesistirDoPod, Pontos
    <3>4. CASE Limpar(x)
      BY <3>4 DEF Limpar, Pontos
    <3>5. CASE Repetir(x)
      BY <3>5 DEF Repetir, Pontos
    <3> QED
      BY <1>8, <3>1, <3>2, <3>3, <3>4, <3>5
  <2> QED
    BY <1>2, <2>1, <2>2 DEF IrPara
<1>9. ASSUME NEW m \in Nomes, Concluir(m) PROVE LugaresCertos'
  BY <1>2, <1>9 DEF Concluir
<1>10. CASE Encerrar
  BY <1>2, <1>10 DEF Encerrar
<1>11. CASE Sair \/ Cair
  <2>1. vagas' = {} /\ \A x \in Passos : pc'[x] = "fora"
    BY <1>11 DEF Sair, Cair, Recomecar
  <2> QED
    BY <2>1, FS_EmptySet, VagasPositivas DEF LugaresCertos
<1> QED
  BY <1>1, <1>3, <1>4, <1>5, <1>6, <1>7, <1>8, <1>9, <1>10, <1>11 DEF Next, DoPasso
(***************************************************************************)
(* Steps of a process that nobody interrupts                               *)
(***************************************************************************)

\* A cancelled context is remembered
LEMMA ParadaFica ==
  ASSUME TypeOK, ParadaLembrada, [Next]_vars
  PROVE  ParadaLembrada' /\ (interrompido => interrompido')
<1>1. CASE UNCHANGED vars
  BY <1>1 DEF vars, ParadaLembrada
<1>2. ASSUME NEW r \in Runs, Comecar(r) \/ FecharNivel(r) \/ IniciarDeNovo(r)
      PROVE  encerrando' = encerrando /\ interrompido' = interrompido
  BY <1>2 DEF Comecar, FecharNivel, IniciarDeNovo, falhas
<1>3. ASSUME NEW x \in Passos, DoPasso(x) \/ DesistirDoPod(x)
      PROVE  encerrando' = encerrando /\ (interrompido' = interrompido \/ interrompido' = TRUE)
  BY <1>3, UmPassoAnda
<1>4. ASSUME NEW m \in Nomes, Concluir(m)
      PROVE  encerrando' = encerrando /\ interrompido' = interrompido
  BY <1>4 DEF Concluir, falhas
<1>5. CASE Encerrar \/ Sair \/ Cair
  <2>1. interrompido' = TRUE
    BY <1>5 DEF Encerrar, Sair, Cair, Recomecar
  <2> QED
    BY <2>1 DEF ParadaLembrada
<1> QED
  BY <1>1, <1>2, <1>3, <1>4, <1>5 DEF Next, ParadaLembrada

\* A step after which nothing was interrupted is one of a run, a goroutine or a pod,
\* under a context that is not cancelled
LEMMA PassoCalmo ==
  ASSUME TypeOK, ParadaLembrada, [Next]_vars, ~interrompido'
  PROVE  /\ ~interrompido /\ ~encerrando
         /\ \/ UNCHANGED vars
            \/ \E r \in Runs : Comecar(r) \/ FecharNivel(r) \/ IniciarDeNovo(r)
            \/ \E x \in Passos : DoPasso(x) \/ DesistirDoPod(x)
            \/ \E m \in Nomes : Concluir(m)
<1>1. ~interrompido /\ ~encerrando
  BY ParadaFica DEF ParadaLembrada
<1>2. Encerrar \/ Sair \/ Cair => interrompido' = TRUE
  BY DEF Encerrar, Sair, Cair, Recomecar
<1> QED
  BY <1>1, <1>2 DEF Next

\* A step of a goroutine leaves the others alone
LEMMA SoDele ==
  ASSUME TypeOK, NEW x \in Passos, DoPasso(x) \/ DesistirDoPod(x), NEW y \in Passos, y # x
  PROVE  tarefa'[y] = tarefa[y] /\ passo'[y] = passo[y] /\ pc'[y] = pc[y]
<1>1. pc'[y] = pc[y]
  BY UmPassoAnda DEF TypeOK
<1>2. passo'[y] = passo[y]
  BY DEF DoPasso, Ocupar, DesistirDaVaga, Criar, VerFim, Limpar, Terminar, Repetir,
         DesistirDoPod, TypeOK
<1>3. tarefa' = tarefa \/ \E s \in {"running", "success", "failed"} : Gravar(x, s)
  BY DEF DoPasso, Ocupar, DesistirDaVaga, Criar, VerFim, Limpar, Terminar, Repetir, DesistirDoPod
<1>4. tarefa'[y] = tarefa[y]
  BY <1>3 DEF Gravar, TypeOK
<1> QED
  BY <1>1, <1>2, <1>4

(***************************************************************************)
(* Pods                                                                    *)
(***************************************************************************)

\* While nobody interrupts and failed pods are not kept, every pod has its goroutine
LEMMA DonoFica ==
  ASSUME TypeOK, Andamento, ParadaLembrada, NenhumPodOrfao, [Next]_vars
  PROVE  NenhumPodOrfao'
<1> USE DEF TypeOK
<1> SUFFICES ASSUME ~interrompido', ~ManterPodEmFalha, NEW m \in Nomes, pod'[m] # "nao"
             PROVE  pc'[m[1]] \in {"esperar", "limpar"} /\ m = <<m[1], 0, passo'[m[1]]>>
  BY DEF NenhumPodOrfao, Nome
<1>1. ~interrompido /\ ~encerrando
  BY PassoCalmo
<1>2. \A n \in Nomes : pod[n] # "nao" =>
        pc[n[1]] \in {"esperar", "limpar"} /\ n = <<n[1], 0, passo[n[1]]>>
  BY <1>1 DEF NenhumPodOrfao, Nome
<1>3. m[1] \in Passos
  BY DEF Nomes
<1>4. CASE UNCHANGED vars
  BY <1>2, <1>4 DEF vars
<1>5. ASSUME NEW r \in Runs, Comecar(r) \/ FecharNivel(r)
      PROVE  pc'[m[1]] \in {"esperar", "limpar"} /\ m = <<m[1], 0, passo'[m[1]]>>
  <2>1. pod' = pod
    BY <1>5 DEF Comecar, FecharNivel, doPod
  <2>2. pc[m[1]] \in {"esperar", "limpar"} /\ m = <<m[1], 0, passo[m[1]]>>
    BY <1>2, <2>1
  <2>3. Comecar(r) => m[1][1] # r
    BY <1>3, <2>2 DEF Comecar, Andamento
  <2>4. FecharNivel(r) => m[1][1] # r
    BY <1>3, <2>2, NivelFechado
  <2>5. pc'[m[1]] = pc[m[1]] /\ passo'[m[1]] = passo[m[1]]
    BY <1>3, <1>5, <2>3, <2>4 DEF Comecar, FecharNivel, Lancar, Limpa, DoNivel
  <2> QED
    BY <2>2, <2>5
<1>6. ASSUME NEW r \in Runs, IniciarDeNovo(r)
      PROVE  pc'[m[1]] \in {"esperar", "limpar"} /\ m = <<m[1], 0, passo'[m[1]]>>
  BY <1>2, <1>6 DEF IniciarDeNovo, doPod
<1>7. ASSUME NEW x \in Passos, DoPasso(x) \/ DesistirDoPod(x), pod' = pod
      PROVE  pc'[m[1]] \in {"esperar", "limpar"} /\ m = <<m[1], 0, passo'[m[1]]>>
  <2>1. pc[m[1]] \in {"esperar", "limpar"} /\ m = <<m[1], 0, passo[m[1]]>>
    BY <1>2, <1>7
  <2>2. CASE m[1] # x
    BY <1>3, <1>7, <2>1, <2>2, SoDele
  <2>3. CASE m[1] = x /\ pc[x] = "esperar"
    <3>1. VerFim(x) \/ DesistirDoPod(x)
      BY <1>7, <2>3 DEF DoPasso, Ocupar, DesistirDaVaga, Criar, Limpar, Terminar, Repetir
    <3> QED
      BY <2>1, <2>3, <3>1 DEF VerFim, DesistirDoPod, IrPara
  <2>4. CASE m[1] = x /\ pc[x] = "limpar"
    <3>1. Limpar(x)
      BY <1>7, <2>4 DEF DoPasso, Ocupar, DesistirDaVaga, Criar, VerFim, Terminar, Repetir, DesistirDoPod
    <3>2. Calado => interrompido' = TRUE
      BY DEF Calado
    <3>3. Apagar(x)
      BY <1>7, <3>1, <3>2 DEF Limpar
    <3>4. Nome(x) = m /\ pod'[m] = "nao"
      BY <2>1, <2>4, <3>3 DEF Apagar, Nome
    <3> QED
      BY <3>4
  <2> QED
    BY <2>1, <2>2, <2>3, <2>4
<1>8. ASSUME NEW x \in Passos, Criar(x)
      PROVE  pc'[m[1]] \in {"esperar", "limpar"} /\ m = <<m[1], 0, passo'[m[1]]>>
  <2>1. Calado => interrompido' = TRUE
    BY DEF Calado
  <2>2. CASE pod' = pod
    BY <1>7, <1>8, <2>2 DEF DoPasso
  <2>3. CASE pod' # pod
    <3>1. IrPara(x, "esperar") /\ Aparece(x) /\ passo' = passo
      BY <1>1, <1>8, <2>1, <2>3 DEF Criar, doPod
    <3>2. CASE m = Nome(x)
      BY <3>1, <3>2 DEF IrPara, Nome
    <3>3. CASE m # Nome(x)
      <4>1. pod[m] # "nao"
        BY <3>1, <3>3 DEF Aparece, doPod
      <4>2. m[1] # x
        BY <1>2, <1>8, <4>1 DEF Criar
      <4> QED
        BY <1>2, <1>3, <3>1, <4>1, <4>2 DEF IrPara
    <3> QED
      BY <3>2, <3>3
  <2> QED
    BY <2>2, <2>3
<1>9. ASSUME NEW x \in Passos, Limpar(x), pod' # pod
      PROVE  pc'[m[1]] \in {"esperar", "limpar"} /\ m = <<m[1], 0, passo'[m[1]]>>
  <2>1. Apagar(x) /\ passo' = passo /\ IrPara(x, "fim")
    BY <1>9 DEF Limpar, doPod
  <2>2. m # Nome(x) /\ pod[m] # "nao"
    BY <2>1, NomeServe DEF Apagar
  <2>3. m[1] # x
    BY <1>2, <2>2 DEF Nome
  <2> QED
    BY <1>2, <1>3, <2>1, <2>2, <2>3 DEF IrPara
<1>10. ASSUME NEW x \in Passos, DoPasso(x) \/ DesistirDoPod(x), pod' # pod
       PROVE  Criar(x) \/ Limpar(x)
  BY <1>10 DEF DoPasso, Ocupar, DesistirDaVaga, VerFim, Terminar, Repetir, DesistirDoPod, doPod
<1>11. ASSUME NEW n \in Nomes, Concluir(n)
       PROVE  pc'[m[1]] \in {"esperar", "limpar"} /\ m = <<m[1], 0, passo'[m[1]]>>
  <2>1. pod[m] # "nao"
    BY <1>11 DEF Concluir, Vivo
  <2> QED
    BY <1>2, <1>11, <2>1 DEF Concluir
<1> QED
  BY <1>4, <1>5, <1>6, <1>7, <1>8, <1>9, <1>10, <1>11, PassoCalmo

\* Under a graph with a cycle no goroutine is started, and so no pod
LEMMA CicloFica ==
  ASSUME TypeOK, Andamento, SemPodComCiclo, [Next]_vars
  PROVE  SemPodComCiclo'
<1> USE DEF TypeOK
<1> SUFFICES ASSUME Ciclico(grafo'), NEW m \in Nomes PROVE pod'[m] = "nao"
  BY DEF SemPodComCiclo
<1>1. grafo' = grafo
  BY DEF Next, vars, DoPasso, Comecar, FecharNivel, IniciarDeNovo, Ocupar, DesistirDaVaga,
         Criar, VerFim, Limpar, Terminar, Repetir, DesistirDoPod, Concluir, Encerrar, Sair,
         Cair, Recomecar, resto
<1>2. Ciclico(grafo) /\ \A n \in Nomes : pod[n] = "nao"
  BY <1>1 DEF SemPodComCiclo
<1>3. \A x \in Passos : pc[x] = "fora"
  BY <1>2, NiveisOuCiclo DEF Andamento, Passos
<1>4. ASSUME NEW x \in Passos PROVE ~(DoPasso(x) \/ DesistirDoPod(x))
  BY <1>3 DEF DoPasso, Ocupar, DesistirDaVaga, Criar, VerFim, Limpar, Terminar, Repetir, DesistirDoPod
<1>5. pod' = pod
  BY <1>2, <1>4 DEF Next, vars, Comecar, FecharNivel, IniciarDeNovo, Concluir, Vivo, Encerrar,
                    Sair, Cair, Recomecar, doPod
<1> QED
  BY <1>2, <1>5

\* A step tried once in an execution names its pod once and for all
LEMMA NomeFica ==
  ASSUME TypeOK, RecuoLegal, NomeUnico, [Next]_vars
  PROVE  NomeUnico'
<1> USE DEF TypeOK
<1>1. config' = config
  BY DEF Next, vars, DoPasso, Comecar, FecharNivel, IniciarDeNovo, Ocupar, DesistirDaVaga,
         Criar, VerFim, Limpar, Terminar, Repetir, DesistirDoPod, Concluir, Encerrar, Sair,
         Cair, Recomecar, resto
<1> SUFFICES ASSUME config[2] = 1
             PROVE  /\ \A x \in Passos : passo'[x] = 0
                    /\ \A m \in Nomes : pod'[m] # "nao" => m[2] = 0 /\ m[3] = 0
  BY <1>1 DEF NomeUnico
<1>2. /\ \A x \in Passos : passo[x] = 0 /\ pc[x] # "recuo"
      /\ \A m \in Nomes : pod[m] # "nao" => m[2] = 0 /\ m[3] = 0
  BY VezesContam DEF NomeUnico, RecuoLegal
<1>3. CASE UNCHANGED vars
  BY <1>2, <1>3 DEF vars
<1>4. ASSUME NEW r \in Runs, Comecar(r) \/ FecharNivel(r) \/ IniciarDeNovo(r)
      PROVE  pod' = pod /\ \A x \in Passos : passo'[x] = 0
  BY <1>2, <1>4 DEF Comecar, FecharNivel, IniciarDeNovo, Lancar, doPod
<1>5. ASSUME NEW x \in Passos, DoPasso(x) \/ DesistirDoPod(x)
      PROVE  /\ passo' = passo
             /\ pod' = pod \/ Aparece(x) \/ Apagar(x)
  BY <1>2, <1>5 DEF DoPasso, Ocupar, DesistirDaVaga, Criar, VerFim, Limpar, Terminar, Repetir,
                    DesistirDoPod, doPod
<1>6. ASSUME NEW x \in Passos, Aparece(x) \/ Apagar(x), NEW m \in Nomes, pod'[m] # "nao"
      PROVE  m[2] = 0 /\ m[3] = 0
  <2>1. CASE m = Nome(x)
    BY <1>2, <2>1 DEF Nome
  <2>2. CASE m # Nome(x)
    <3>1. pod[m] # "nao"
      BY <1>6, <2>2 DEF Aparece, Apagar, doPod
    <3> QED
      BY <1>2, <3>1
  <2> QED
    BY <2>1, <2>2
<1>7. ASSUME NEW n \in Nomes, Concluir(n)
      PROVE  passo' = passo /\ \A m \in Nomes : pod'[m] # "nao" => pod[m] # "nao"
  BY <1>7 DEF Concluir, Vivo
<1>8. CASE Encerrar \/ Sair \/ Cair
  BY <1>2, <1>8 DEF Encerrar, Sair, Cair, Recomecar, doPod
<1> QED
  BY <1>2, <1>3, <1>4, <1>5, <1>6, <1>7, <1>8 DEF Next
(***************************************************************************)
(* Rows and outcomes                                                       *)
(***************************************************************************)

\* A run's rows are what they were unless one of its goroutines moves
LEMMA LinhaDeOutro ==
  ASSUME TypeOK, Andamento, NEW x \in Passos, DoPasso(x) \/ DesistirDoPod(x),
         NEW y \in Passos, execucao[y[1]] # "rodando" \/ y[2] \in Feitos(grafo)[nivel[y[1]] - 1]
  PROVE  y # x
<1>1. pc[x] \notin {"fora", "ok"}
  BY UmPassoAnda
<1>2. execucao[x[1]] = "rodando" /\ x[2] \in Nivel(grafo, nivel[x[1]])
  BY <1>1 DEF Andamento
<1> QED
  BY <1>2 DEF Nivel

\* The last row of a step that was not interrupted says what its goroutine came to
LEMMA LinhaDoPasso ==
  ASSUME TypeOK, ~encerrando, NEW x \in Passos, DoPasso(x) \/ DesistirDoPod(x)
  PROVE  /\ pc'[x] = "ok" => \E t \in Vezes : tarefa'[x][t] = "success"
         /\ pc'[x] = "falhou" => tarefa'[x][passo'[x]] = "failed"
<1>1. CASE Terminar(x)
  <2>1. passo' = passo /\ passo[x] \in Vezes
    BY <1>1 DEF Terminar, TypeOK
  <2>2. tarefa'[x][passo[x]] = IF resultado[x] = "succeeded" THEN "success" ELSE "failed"
    BY <1>1, <2>1 DEF Terminar, Gravar, TypeOK
  <2>3. /\ pc'[x] = "ok" => resultado[x] = "succeeded"
        /\ pc'[x] = "falhou" => resultado[x] # "succeeded"
    BY <1>1 DEF Terminar, IrPara, TypeOK
  <2> QED
    BY <2>1, <2>2, <2>3
<1>2. CASE ~Terminar(x)
  BY <1>2 DEF DoPasso, Ocupar, DesistirDaVaga, Criar, VerFim, Limpar, Repetir, DesistirDoPod,
              IrPara, TypeOK
<1> QED
  BY <1>1, <1>2

\* Every step keeps the rows and the goroutines in agreement
LEMMA LinhasFicam ==
  ASSUME TypeOK, Andamento, ParadaLembrada, LinhasConferem, [Next]_vars
  PROVE  LinhasConferem'
<1> USE DEF TypeOK
<1> SUFFICES ASSUME ~interrompido'
             PROVE  /\ \A y \in Passos : /\ pc'[y] = "ok" => TemSucesso(y)'
                                         /\ pc'[y] = "falhou" => tarefa'[y][passo'[y]] = "failed"
                    /\ \A q \in Runs : execucao'[q] = "rodando" =>
                         \A n \in Feitos(grafo')[nivel'[q] - 1] : TemSucesso(<<q, n>>)'
  BY DEF LinhasConferem, TemSucesso
<1>1. ~interrompido /\ ~encerrando
  BY PassoCalmo
<1>2. /\ \A y \in Passos : /\ pc[y] = "ok" => TemSucesso(y)
                           /\ pc[y] = "falhou" => tarefa[y][passo[y]] = "failed"
      /\ \A q \in Runs : execucao[q] = "rodando" =>
           \A n \in Feitos(grafo)[nivel[q] - 1] : TemSucesso(<<q, n>>)
  BY <1>1 DEF LinhasConferem
<1>3. CASE UNCHANGED vars
  BY <1>2, <1>3 DEF vars, TemSucesso
<1>4. CASE \E r \in Runs : Comecar(r)
  <2>1. PICK r \in Runs : Comecar(r)
    BY <1>4
  <2>2. tarefa' = tarefa /\ grafo' = grafo
    BY <2>1 DEF Comecar, resto
  <2>3. \A y \in Passos : pc'[y] = "vaga" \/ (pc'[y] = pc[y] /\ passo'[y] = passo[y])
    BY <2>1 DEF Comecar, Lancar
  <2>4. \A q \in Runs : execucao'[q] = "rodando" =>
          \/ execucao[q] = "rodando" /\ nivel'[q] = nivel[q]
          \/ nivel'[q] = 1
    BY <2>1 DEF Comecar, Lancar
  <2>5. Feitos(grafo)[1 - 1] = {}
    BY FeitosPorNivel
  <2>6. \A q \in Runs : execucao'[q] = "rodando" =>
          \A n \in Feitos(grafo)[nivel'[q] - 1] : TemSucesso(<<q, n>>)
    BY <1>2, <2>4, <2>5
  <2> QED
    <3>1. \A z : TemSucesso(z)' <=> TemSucesso(z)
      BY <2>2 DEF TemSucesso
    <3>2. \A y \in Passos : /\ pc'[y] = "ok" => TemSucesso(y)'
                            /\ pc'[y] = "falhou" => tarefa'[y][passo'[y]] = "failed"
      BY <1>2, <2>2, <2>3, <3>1
    <3> QED
      BY <2>2, <2>6, <3>1, <3>2
<1>5. CASE \E r \in Runs : FecharNivel(r)
  <2>1. PICK r \in Runs : FecharNivel(r)
    BY <1>5
  <2>2. tarefa' = tarefa /\ grafo' = grafo /\ execucao[r] = "rodando"
    BY <2>1 DEF FecharNivel, resto
  <2>3. \A y \in Passos : pc'[y] \in {"vaga", "fora"} \/ (pc'[y] = pc[y] /\ passo'[y] = passo[y])
    BY <2>1 DEF FecharNivel, Lancar, Limpa
  <2>4. \A q \in Runs : execucao'[q] = "rodando" =>
          execucao[q] = "rodando" /\ (nivel'[q] = nivel[q] \/ q = r)
    BY <2>1 DEF FecharNivel, Lancar
  <2>5. ASSUME execucao'[r] = "rodando"
        PROVE  \A n \in Feitos(grafo)[nivel'[r] - 1] : TemSucesso(<<r, n>>)
    <3>1. /\ ~Ultimo(grafo, nivel[r]) /\ nivel' = [nivel EXCEPT ![r] = nivel[r] + 1]
          /\ \A x \in DoNivel(r, nivel[r]) : pc[x] = "ok"
      BY <2>1, <2>5 DEF FecharNivel, Lancar
    <3>2. nivel[r] \in 1..Cardinality(Nos) /\ nivel'[r] - 1 = nivel[r]
      BY <2>2, <3>1 DEF Andamento
    <3>3. Feitos(grafo)[nivel[r]] \subseteq Nos
      BY <3>2, FeitosCresce
    <3>4. ASSUME NEW n \in Feitos(grafo)[nivel[r]] PROVE TemSucesso(<<r, n>>)
      <4>1. CASE n \in Feitos(grafo)[nivel[r] - 1]
        BY <1>2, <2>2, <4>1
      <4>2. CASE n \notin Feitos(grafo)[nivel[r] - 1]
        <5>1. <<r, n>> \in Passos /\ <<r, n>> \in DoNivel(r, nivel[r])
          BY <3>3, <3>4, <4>2 DEF DoNivel, Passos, Nivel
        <5> QED
          BY <1>2, <3>1, <5>1
      <4> QED
        BY <4>1, <4>2
    <3> QED
      BY <3>2, <3>4
  <2>6. \A q \in Runs : execucao'[q] = "rodando" =>
          \A n \in Feitos(grafo)[nivel'[q] - 1] : TemSucesso(<<q, n>>)
    BY <1>2, <2>4, <2>5
  <2> QED
    BY <1>2, <2>2, <2>3, <2>6 DEF TemSucesso
<1>6. CASE \E r \in Runs : IniciarDeNovo(r)
  <2>1. PICK r \in Runs : IniciarDeNovo(r)
    BY <1>6
  <2>2. /\ UNCHANGED <<tarefa, grafo, pc, passo, nivel>>
        /\ \A q \in Runs : execucao'[q] = "rodando" => execucao[q] = "rodando"
    BY <2>1 DEF IniciarDeNovo, resto
  <2> QED
    BY <1>2, <2>2 DEF TemSucesso
<1>7. CASE \E x \in Passos : DoPasso(x) \/ DesistirDoPod(x)
  <2>1. PICK x \in Passos : DoPasso(x) \/ DesistirDoPod(x)
    BY <1>7
  <2>2. UNCHANGED <<grafo, execucao, nivel>>
    BY <2>1, UmPassoAnda
  <2>3. \A y \in Passos : y # x => tarefa'[y] = tarefa[y] /\ passo'[y] = passo[y] /\ pc'[y] = pc[y]
    BY <2>1, SoDele
  <2>4. /\ pc'[x] = "ok" => TemSucesso(x)'
        /\ pc'[x] = "falhou" => tarefa'[x][passo'[x]] = "failed"
    BY <1>1, <2>1, LinhaDoPasso DEF TemSucesso
  <2>5. ASSUME NEW q \in Runs, execucao[q] = "rodando", NEW n \in Feitos(grafo)[nivel[q] - 1]
        PROVE  TemSucesso(<<q, n>>)'
    <3>1. nivel[q] - 1 \in 0..Cardinality(Nos)
      BY <2>5, QuantosNos DEF Andamento
    <3>2. <<q, n>> \in Passos
      BY <2>5, <3>1, FeitosCresce DEF Passos
    <3>3. <<q, n>> # x
      BY <2>1, <2>5, <3>2, LinhaDeOutro
    <3> QED
      BY <1>2, <2>3, <2>5, <3>2, <3>3 DEF TemSucesso
  <2> QED
    BY <1>2, <2>2, <2>3, <2>4, <2>5 DEF TemSucesso
<1>8. CASE \E m \in Nomes : Concluir(m)
  <2>1. UNCHANGED <<tarefa, grafo, pc, passo, nivel, execucao>>
    BY <1>8 DEF Concluir, resto, doRun
  <2> QED
    BY <1>2, <2>1 DEF TemSucesso
<1> QED
  BY <1>3, <1>4, <1>5, <1>6, <1>7, <1>8, PassoCalmo

\* Every step keeps the outcome of an execution what its rows say
LEMMA DesfechoFica ==
  ASSUME TypeOK, Andamento, ParadaLembrada, LinhasConferem, DesfechoConfere, [Next]_vars
  PROVE  DesfechoConfere'
<1> USE DEF TypeOK
<1> SUFFICES ASSUME ~interrompido', NEW r \in Runs
             PROVE  /\ execucao'[r] = "ok" => \A n \in Nos : TemSucesso(<<r, n>>)'
                    /\ execucao'[r] = "erro" =>
                         \/ Ciclico(grafo')
                         \/ \E n \in Nos : tarefa'[<<r, n>>][passo'[<<r, n>>]] = "failed"
  BY DEF DesfechoConfere, TemSucesso
<1>1. ~interrompido /\ ~encerrando
  BY PassoCalmo
<1>2. /\ execucao[r] = "ok" => \A n \in Nos : TemSucesso(<<r, n>>)
      /\ execucao[r] = "erro" => \/ Ciclico(grafo)
                                \/ \E n \in Nos : tarefa[<<r, n>>][passo[<<r, n>>]] = "failed"
  BY <1>1 DEF DesfechoConfere
<1>3. CASE UNCHANGED vars
  BY <1>2, <1>3 DEF vars, TemSucesso
<1>4. CASE \E q \in Runs : Comecar(q)
  <2>1. PICK q \in Runs : Comecar(q)
    BY <1>4
  <2>2. tarefa' = tarefa /\ grafo' = grafo
    BY <2>1 DEF Comecar, resto
  <2>3. CASE q = r
    <3>1. execucao'[r] \in {"rodando", "erro"} /\ (execucao'[r] = "erro" => ~TemNiveis(grafo))
      BY <2>1, <2>3 DEF Comecar
    <3> QED
      BY <2>2, <3>1, NiveisOuCiclo
  <2>4. CASE q # r
    <3>1. execucao'[r] = execucao[r]
      BY <2>1, <2>4 DEF Comecar
    <3>2. \A n \in Nos : passo'[<<r, n>>] = passo[<<r, n>>]
      BY <2>1, <2>4 DEF Comecar, Lancar, DoNivel, Passos
    <3> QED
      BY <1>2, <2>2, <3>1, <3>2 DEF TemSucesso
  <2> QED
    BY <2>3, <2>4
<1>5. CASE \E q \in Runs : FecharNivel(q)
  <2>1. PICK q \in Runs : FecharNivel(q)
    BY <1>5
  <2>2. tarefa' = tarefa /\ grafo' = grafo /\ execucao[q] = "rodando"
    BY <2>1 DEF FecharNivel, resto
  <2>3. CASE q # r
    <3>1. execucao'[r] = execucao[r]
      BY <2>1, <2>3 DEF FecharNivel
    <3>2. \A n \in Nos : passo'[<<r, n>>] = passo[<<r, n>>]
      BY <2>1, <2>3 DEF FecharNivel, Lancar, DoNivel, Passos
    <3> QED
      BY <1>2, <2>2, <3>1, <3>2 DEF TemSucesso
  <2>4. CASE q = r /\ execucao'[r] = "ok"
    <3>1. Ultimo(grafo, nivel[r]) /\ \A x \in DoNivel(r, nivel[r]) : pc[x] = "ok"
      BY <2>1, <2>4 DEF FecharNivel, Lancar
    <3>2. ASSUME NEW n \in Nos PROVE TemSucesso(<<r, n>>)
      <4>1. CASE n \in Feitos(grafo)[nivel[r] - 1]
        BY <1>1, <2>2, <2>4, <4>1 DEF LinhasConferem
      <4>2. CASE n \notin Feitos(grafo)[nivel[r] - 1]
        <5>1. <<r, n>> \in Passos /\ <<r, n>> \in DoNivel(r, nivel[r])
          BY <3>1, <4>2 DEF DoNivel, Passos, Nivel, Ultimo
        <5> QED
          BY <1>1, <3>1, <5>1 DEF LinhasConferem
      <4> QED
        BY <4>1, <4>2
    <3> QED
      BY <2>2, <2>4, <3>2 DEF TemSucesso
  <2>5. CASE q = r /\ execucao'[r] = "erro"
    <3>1. PICK x \in DoNivel(r, nivel[r]) : pc[x] = "falhou"
      BY <2>1, <2>2, <2>5 DEF FecharNivel
    <3>2. x \in Passos /\ x = <<r, x[2]>> /\ x[2] \in Nos
      BY DEF DoNivel, Passos
    <3>3. passo' = passo
      BY <2>1, <2>2, <2>5 DEF FecharNivel
    <3>4. tarefa[x][passo[x]] = "failed"
      BY <1>1, <3>1, <3>2 DEF LinhasConferem
    <3> QED
      BY <2>2, <2>5, <3>2, <3>3, <3>4
  <2>6. q = r => execucao'[r] \in {"rodando", "ok", "erro"}
    BY <2>1, <2>2 DEF FecharNivel
  <2> QED
    BY <2>3, <2>4, <2>5, <2>6
<1>6. CASE \E q \in Runs : IniciarDeNovo(q)
  <2>1. PICK q \in Runs : IniciarDeNovo(q)
    BY <1>6
  <2>2. UNCHANGED <<tarefa, grafo, passo>> /\ (execucao'[r] = execucao[r] \/ execucao'[r] = "livre")
    BY <2>1 DEF IniciarDeNovo, resto
  <2> QED
    BY <1>2, <2>2 DEF TemSucesso
<1>7. CASE \E x \in Passos : DoPasso(x) \/ DesistirDoPod(x)
  <2>1. PICK x \in Passos : DoPasso(x) \/ DesistirDoPod(x)
    BY <1>7
  <2>2. UNCHANGED <<grafo, execucao>>
    BY <2>1, UmPassoAnda
  <2>3. ASSUME execucao[r] # "rodando", NEW n \in Nos
        PROVE  tarefa'[<<r, n>>] = tarefa[<<r, n>>] /\ passo'[<<r, n>>] = passo[<<r, n>>]
    <3>1. <<r, n>> \in Passos /\ <<r, n>> # x
      BY <2>1, <2>3, LinhaDeOutro DEF Passos
    <3> QED
      BY <2>1, <3>1, SoDele
  <2> QED
    <3>1. CASE execucao[r] = "rodando"
      BY <2>2, <3>1
    <3>2. CASE execucao[r] = "ok"
      BY <1>2, <2>2, <2>3, <3>2 DEF TemSucesso
    <3>3. CASE execucao[r] = "erro"
      BY <1>2, <2>2, <2>3, <3>3
    <3> QED
      BY <2>2, <3>1, <3>2, <3>3
<1>8. CASE \E m \in Nomes : Concluir(m)
  <2>1. UNCHANGED <<tarefa, grafo, passo, execucao>>
    BY <1>8 DEF Concluir, resto, doRun
  <2> QED
    BY <1>2, <2>1 DEF TemSucesso
<1> QED
  BY <1>3, <1>4, <1>5, <1>6, <1>7, <1>8, PassoCalmo

(***************************************************************************)
(* The invariant, and what follows from it                                 *)
(***************************************************************************)

Indutivo ==
  /\ TypeOK
  /\ Andamento
  /\ RecuoLegal
  /\ LugaresCertos
  /\ ParadaLembrada
  /\ NenhumPodOrfao
  /\ LinhasConferem
  /\ DesfechoConfere
  /\ NomeUnico
  /\ SemPodComCiclo

\* It holds before any run is executed
LEMMA InicioIndutivo == Init => Indutivo
<1> SUFFICES ASSUME Init PROVE Indutivo
  OBVIOUS
<1> USE DEF Init
<1>1. PICK R \in (SUBSET Runs) \ {{}} : execucao = [r \in Runs |-> IF r \in R THEN "livre" ELSE "fora"]
  OBVIOUS
<1>2. TypeOK
  <2>1. /\ grafo \in Grafos /\ config \in Configuracoes
        /\ execucao \in [Runs -> {"fora", "livre", "rodando", "ok", "erro"}]
        /\ quedas \in 0..MaxQuedas /\ encerrando \in BOOLEAN /\ interrompido \in BOOLEAN
    BY <1>1
  <2>2. attempt \in [Runs -> Vezes] /\ nivel \in [Runs -> 0..Cardinality(Nos)]
    BY VezesContam, QuantosNos
  <2>3. /\ pc \in [Passos -> Pontos] /\ passo \in [Passos -> Vezes]
        /\ resultado \in [Passos -> {"nada", "succeeded", "failed", "erro"}]
        /\ \A x \in Passos : pc[x] = "fora"
    BY VezesContam DEF Pontos
  <2>4. tarefa \in [Passos -> [Vezes -> {"nao", "running", "success", "failed"}]]
    OBVIOUS
  <2>5. vagas \subseteq Passos /\ pod \in [Nomes -> Fases] /\ origem \in [Nomes -> Vezes]
    BY VezesContam DEF Fases
  <2> HIDE DEF Init
  <2> QED
    BY <2>1, <2>2, <2>3, <2>4, <2>5 DEF TypeOK, Pontos
<1>3. Andamento /\ RecuoLegal
  BY <1>1 DEF Andamento, RecuoLegal
<1>4. LugaresCertos
  BY FS_EmptySet, VagasPositivas DEF LugaresCertos, ComLugar
<1>5. ParadaLembrada /\ NenhumPodOrfao /\ NomeUnico /\ SemPodComCiclo
  BY DEF ParadaLembrada, NenhumPodOrfao, NomeUnico, SemPodComCiclo
<1>6. LinhasConferem /\ DesfechoConfere
  BY <1>1 DEF LinhasConferem, DesfechoConfere
<1> QED
  BY <1>2, <1>3, <1>4, <1>5, <1>6 DEF Indutivo

\* Every step keeps it
LEMMA PassoIndutivo == Indutivo /\ [Next]_vars => Indutivo'
BY TiposFicam, AndamentoFica, RecuoFica, LugaresFicam, ParadaFica, DonoFica, LinhasFicam,
   DesfechoFica, NomeFica, CicloFica DEF Indutivo

\* The inductive invariant holds in every state
LEMMA SempreIndutivo == Spec => []Indutivo
BY InicioIndutivo, PassoIndutivo, PTL DEF Spec

\* The pods alive are not more than the places
LEMMA TetoVale ==
  ASSUME Indutivo, ~ManterPodEmFalha
  PROVE  TetoDePods
<1> SUFFICES ASSUME ~interrompido
             PROVE  Cardinality({m \in Nomes : Vivo(m)}) <= MaxPods
  BY DEF TetoDePods
<1> DEFINE V == {m \in Nomes : Vivo(m)}
           f == [m \in V |-> m[1]]
<1>1. \A m \in V : pc[m[1]] \in {"esperar", "limpar"} /\ m = Nome(m[1]) /\ m[1] \in Passos
  BY DEF Indutivo, NenhumPodOrfao, Vivo, Nomes
<1>2. f \in Injection(V, vagas)
  <2>1. f \in [V -> vagas]
    BY <1>1 DEF Indutivo, LugaresCertos, ComLugar
  <2>2. \A m, n \in V : f[m] = f[n] => m = n
    BY <1>1
  <2> QED
    BY <2>1, <2>2 DEF Injection, IsInjective
<1>3. IsFiniteSet(vagas) /\ Cardinality(vagas) <= MaxPods /\ Cardinality(vagas) \in Nat
  BY FS_CardinalityType DEF Indutivo, LugaresCertos
<1>4. IsFiniteSet(V) /\ Cardinality(V) <= Cardinality(vagas)
  BY <1>2, <1>3, FS_Injection
<1> QED
  BY <1>3, <1>4, FS_CardinalityType, VagasPositivas

\* Whatever the graph, and however many runs share the process, a pod of a step runs
\* only after every step it depends on has its row of success and no pod alive, though
\* Runner.Run knows levels and not edges
\* (src/internal/application/execution/runner.go; failed pods are not kept).
THEOREM OrdemSempreDoGrafo ==
  ASSUME ~ManterPodEmFalha
  PROVE  Spec => []OrdemDoGrafo
<1>1. ASSUME Indutivo PROVE OrdemDoGrafo
  <2> SUFFICES ASSUME ~interrompido, NEW x \in Passos, TemPodVivo(x),
                      NEW y \in Passos, y[1] = x[1], <<y[2], x[2]>> \in grafo
               PROVE  TemSucesso(y) /\ ~TemPodVivo(y)
    BY DEF OrdemDoGrafo
  <2>1. \A z \in Passos : TemPodVivo(z) => pc[z] \in {"esperar", "limpar"}
    BY <1>1 DEF Indutivo, NenhumPodOrfao, TemPodVivo, PodsDe, Vivo
  <2>2. execucao[x[1]] = "rodando" /\ x[2] \in Nivel(grafo, nivel[x[1]])
    BY <1>1, <2>1 DEF Indutivo, Andamento
  <2>3. nivel[x[1]] \in 1..Cardinality(Nos)
    BY <1>1, <2>2 DEF Indutivo, Andamento, Passos
  <2>4. y[2] \in Feitos(grafo)[nivel[x[1]] - 1]
    BY <2>2, <2>3, ArestaSobeNivel DEF Passos
  <2>5. TemSucesso(y)
    <3>1. y = <<x[1], y[2]>>
      BY DEF Passos
    <3>2. TemSucesso(<<x[1], y[2]>>)
      BY <1>1, <2>2, <2>4 DEF Indutivo, LinhasConferem, Passos
    <3> QED
      BY <3>1, <3>2
  <2>6. ~TemPodVivo(y)
    <3>1. SUFFICES ASSUME TemPodVivo(y) PROVE FALSE
      OBVIOUS
    <3>2. y[2] \in Nivel(grafo, nivel[x[1]])
      BY <1>1, <2>1, <3>1 DEF Indutivo, Andamento
    <3> QED
      BY <2>4, <3>2 DEF Nivel
  <2> QED
    BY <2>5, <2>6
<1> QED
  BY <1>1, SempreIndutivo, PTL

\* The pods of all runs together that are alive never exceed --max-pods, none is left
\* behind by a step that went on, and none belongs to a graph with a cycle: ocupar and
\* libera of the runner around Execute and limpar of the executor
\* (src/internal/execution/kubernetes/executor.go; failed pods are not kept).
THEOREM PodsSempreSobControle ==
  ASSUME ~ManterPodEmFalha
  PROVE  Spec => []PodsSobControle
<1>1. ASSUME Indutivo PROVE PodsSobControle
  <2>1. TypeOK /\ NenhumPodOrfao
    BY <1>1 DEF Indutivo
  <2>2. TetoDePods
    BY <1>1, TetoVale
  <2>3. CicloNaoRoda
    BY <1>1, NiveisOuCiclo DEF Indutivo, SemPodComCiclo, CicloNaoRoda
  <2> QED
    BY <2>1, <2>2, <2>3 DEF PodsSobControle
<1> QED
  BY <1>1, SempreIndutivo, PTL

\* Under `brevis scheduler`, which tries a step once in an execution, a step never has
\* two pods alive, whatever dies, is stopped, fails to be deleted or is kept: the pod
\* of the dead execution is met by its name and adopted.
THEOREM SempreUmPodPorPasso == Spec => []UmPodPorPasso
<1>1. ASSUME Indutivo PROVE UmPodPorPasso
  <2> SUFFICES ASSUME config[2] = 1, NEW x \in Passos
               PROVE  Cardinality({m \in PodsDe(x) : Vivo(m)}) <= 1
    BY DEF UmPodPorPasso
  <2> DEFINE V == {m \in PodsDe(x) : Vivo(m)}
             n == <<x, 0, 0>>
  <2>1. \A m \in V : m = n
    BY <1>1 DEF Indutivo, NomeUnico, PodsDe, Vivo, Nomes
  <2>2. V = {} \/ V = {n}
    BY <2>1
  <2> HIDE DEF V, n
  <2>3. Cardinality(V) = 0 \/ Cardinality(V) = 1
    BY <2>2, FS_EmptySet, FS_Singleton
  <2> QED
    BY <2>3 DEF V
<1> QED
  BY <1>1, SempreIndutivo, PTL

\* While nothing is killed, an execution ends well only when every step of the graph
\* has a row of success, and with an error only for a cycle or for a step whose last row
\* is a failure, whatever the number of levels, attempts and simultaneous runs.
THEOREM DesfechoSempreConfere == Spec => []DesfechoConfere
<1>1. Indutivo => DesfechoConfere
  BY DEF Indutivo
<1> QED
  BY <1>1, SempreIndutivo, PTL
================================================================================
