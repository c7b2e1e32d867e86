------------------------------ MODULE ExtractProofs ------------------------------
(***************************************************************************)
(* Proofs about Extract and Credential, for any requests, any number of    *)
(* sources, processes, workers, pages and rows, and any number of failures *)
(* and deaths: what a consumer gets of its sources, what the outcome says  *)
(* of them, and what becomes of a credential that walks share, renew and   *)
(* store.                                                                  *)
(***************************************************************************)
EXTENDS Extract, FiniteSetTheorems, SequenceTheorems, TLAPS

--------------------------------------------------------------------------------
(* Types, and the places of the workers                                        *)

Fases == {"fila", "obter", "renovar", "guardar", "pedir", "aplicar", "drenar", "errar", "fim"}

TiposDoSegredo ==
  /\ emitida \in Nat \ {0} /\ boas \subseteq 1..emitida
  /\ cabecalho \in [Fontes -> Deslogada..emitida] /\ rodada \in [Fontes -> Deslogada..emitida]
  /\ jarro \in [Fontes -> 0..emitida]
  /\ cache \in [Processos -> Deslogada..emitida]
  /\ guardado \in [v : Deslogada..emitida, g : Nat] /\ lembrada \in [Processos -> 0..guardado.g]
  /\ recusadas \subseteq Fontes /\ naoSalvou \subseteq Fontes
  /\ logins \in [Processos -> Nat] /\ turvo \in BOOLEAN

TiposDoAndamento ==
  /\ endereco \in [Fontes -> Nat] /\ tent \in [Fontes -> 0..(cfg.tentativas - 1)]
  /\ corpoLido \in [Fontes -> BOOLEAN]
  /\ pagina \in [Fontes -> Seq(Int)] /\ emitidas \in [Fontes -> Nat]
  /\ paginas \in [Fontes -> 0..cfg.maxPages] /\ vistas \in [Fontes -> SUBSET Nat]

TiposDaLeitura ==
  /\ consumidor \in [Processos -> {"lendo", "cancelado", "fim"}]
  /\ entregues \in [Processos -> Seq(Fontes \X Int)]
  /\ falharam \in [Processos -> SUBSET Fontes]
  /\ desfecho \in [Processos -> {"nenhum", "ok", "erro", "parou", "morto"}]

\* a worker has one walk at a time
Lugares == \A p \in Processos : Cardinality({f \in DaOrigem(p) : Ativa(f)}) <= cfg.trabalhadores
\* a walk that asks for a page may still read one
AindaCabe == \A f \in Fontes : pc[f] \notin {"drenar", "errar", "fim"} => paginas[f] < cfg.maxPages

Tipos ==
  /\ cfg \in Pedidos /\ pc \in [Fontes -> Fases] /\ falhas \in 0..MaxFalhas
  /\ TiposDoSegredo /\ TiposDoAndamento /\ TiposDaLeitura

\* what a request is made of
PedidoBom ==
  /\ cfg.n \in Nat /\ cfg.processo \in [1..cfg.n -> Nat]
  /\ cfg.trabalhadores \in Nat /\ cfg.trabalhadores > 0 /\ cfg.maxPages \in Nat /\ cfg.maxPages > 0
  /\ cfg.tentativas \in Nat /\ cfg.tentativas > 0 /\ cfg.limite \in Nat /\ cfg.limite > 0
  /\ cfg.total \in Nat /\ cfg.laco \in Nat /\ (cfg.tamanho = 0 \/ cfg.tamanho = cfg.limite)
  /\ cfg.estrategia \in {"nenhuma", "link", "cursor", "page", "offset"}
  /\ cfg.laco # 0 => cfg.estrategia \in {"link", "cursor"}
  /\ cfg.cred \in {"nenhuma", "valor", "login"} /\ cfg.loja \in {"nenhuma", "arquivo", "gcs"}
  /\ \A b \in {cfg.renova, cfg.validade, cfg.ttl, cfg.gira, cfg.revoga, cfg.morta, cfg.giraPagina,
               cfg.tolera, cfg.para, cfg.corpo} : b \in BOOLEAN

\* A request is well formed
LEMMA DoPedido == ASSUME cfg \in Pedidos PROVE PedidoBom
<1> PICK c \in Pedidos : c = cfg
  OBVIOUS
<1>1. /\ c.n \in Nat /\ c.processo \in [1..c.n -> Nat]
      /\ {c.trabalhadores, c.maxPages, c.tentativas, c.limite} \subseteq Nat \ {0}
      /\ {c.total, c.laco} \subseteq Nat /\ c.tamanho \in {0, c.limite}
      /\ c.estrategia \in {"nenhuma", "link", "cursor", "page", "offset"}
      /\ c.laco # 0 => c.estrategia \in {"link", "cursor"}
      /\ c.cred \in {"nenhuma", "valor", "login"} /\ c.loja \in {"nenhuma", "arquivo", "gcs"}
      /\ {c.renova, c.validade, c.ttl, c.gira, c.revoga, c.morta, c.giraPagina, c.tolera, c.para, c.corpo} \subseteq BOOLEAN
  BY PedidosValidos, Zenon
<1>2. /\ c.trabalhadores \in Nat \ {0} /\ c.maxPages \in Nat \ {0}
      /\ c.tentativas \in Nat \ {0} /\ c.limite \in Nat \ {0}
      /\ c.total \in Nat /\ c.laco \in Nat /\ (c.tamanho = 0 \/ c.tamanho = c.limite)
  BY <1>1, Zenon
<1> QED BY <1>1, <1>2 DEF PedidoBom

\* Every source belongs to a process, and there are finitely many
LEMMA DasFontes ==
  ASSUME cfg \in Pedidos
  PROVE  /\ \A f \in Fontes : Proc(f) \in Processos /\ f \in DaOrigem(Proc(f))
         /\ \A p \in Processos : DaOrigem(p) \subseteq Fontes /\ IsFiniteSet(DaOrigem(p)) /\ DaOrigem(p) # {}
         /\ Fontes \subseteq Nat \ {0}
<1>1. PedidoBom
  BY DoPedido
<1>2. IsFiniteSet(Fontes)
  <2>1. 1 \in Int /\ cfg.n \in Int
    BY <1>1 DEF PedidoBom
  <2> QED BY <2>1, FS_Interval, Zenon DEF Fontes
<1>3. \A p \in Processos : IsFiniteSet(DaOrigem(p))
  BY <1>2, FS_Subset DEF DaOrigem
<1>4. Fontes \subseteq Nat \ {0}
  BY <1>1 DEF Fontes, PedidoBom
<1>5. \A f \in Fontes : Proc(f) \in Processos
  BY DEF Fontes, Processos, Proc
<1> QED BY <1>3, <1>4, <1>5 DEF DaOrigem, Processos, Proc

--------------------------------------------------------------------------------
(* What a step leaves alone                                                    *)

\* the actions of a walk, with what Credenciar stands for
Mover(f) ==
  \/ Comecar(f)
  \/ Vivo(f) /\ UNCHANGED <<andamento, leitura>>
     /\ (Obter(f) \/ SemCredencial(f) \/ NaoObter(f) \/ Renovar(f) \/ NaoRenovar(f) \/ Guardar(f))
  \/ Receber(f) \/ Recusar(f) \/ Falhar(f) \/ Desistir(f)
  \/ Aplicar(f) \/ NaoDecodificar(f) \/ Avancar(f)
  \/ Entregar(f) \/ Errar(f) \/ Largar(f)
\* A step of a walk is one of the moves, and does not change what was asked for
LEMMA Passos ==
  ASSUME NEW f \in Fontes, Caminhar(f)
  PROVE  Mover(f) /\ cfg' = cfg
<1>1. Mover(f)
  BY DEF Caminhar, Credenciar, Mover
<1>2. cfg' = cfg
  BY <1>1 DEF Mover, Comecar, Obter, SemCredencial, NaoObter, Renovar, NaoRenovar, Guardar, Receber, Recusar,
     Falhar, Desistir, Aplicar, NaoDecodificar, Avancar, Entregar, Errar, Largar
<1> QED BY <1>1, <1>2

\* No step changes what was asked for
LEMMA PedidoFica == ASSUME [Next]_vars PROVE cfg' = cfg
<1>1. CASE \E f \in Fontes : Caminhar(f)
  BY <1>1, Passos
<1>2. CASE \E p \in Processos : Fechar(p) \/ Cair(p) \/ Vencer(p)
  BY <1>2 DEF Fechar, Cair, Vencer
<1>3. CASE UNCHANGED vars
  BY <1>3 DEF vars
<1> QED BY <1>1, <1>2, <1>3 DEF Next

\* the same sources and processes
LEMMA MesmasFontes ==
  ASSUME cfg' = cfg
  PROVE  Fontes' = Fontes /\ Processos' = Processos /\ (\A f \in Fontes : Proc(f)' = Proc(f))
         /\ (\A p \in Processos : DaOrigem(p)' = DaOrigem(p))
BY DEF Fontes, Processos, Proc, DaOrigem

\* where the walk goes, and that the others stay
LEMMA PassoDoPc ==
  ASSUME Tipos, NEW f \in Fontes, Mover(f)
  PROVE  /\ pc' \in [Fontes -> Fases] /\ \A e \in Fontes \ {f} : pc'[e] = pc[e]
         /\ pc'[f] # "fila" /\ pc[f] # "fim"
         /\ pc[f] = "fila" => pc'[f] = "obter"
         /\ falhas' \in 0..MaxFalhas /\ falhas' >= falhas
<1> USE DEF Tipos, Em, Fases
<1>1. ASSUME NEW s \in Fases \ {"fila"}, Em(f, s)
      PROVE  /\ pc' \in [Fontes -> Fases] /\ \A e \in Fontes \ {f} : pc'[e] = pc[e]
             /\ pc'[f] = s
  BY <1>1
<1>2. ASSUME falhas' = falhas \/ Falha PROVE falhas' \in 0..MaxFalhas /\ falhas' >= falhas
  BY <1>2, FalhasNaturais DEF Falha
<1>3. CASE Comecar(f)
  <2>1. Em(f, "obter") /\ pc[f] = "fila" /\ falhas' = falhas
    BY <1>3 DEF Comecar
  <2> QED BY <2>1, <1>1, <1>2
<1>4. CASE Obter(f)
  <2>1. pc[f] = "obter" /\ (Em(f, "renovar") \/ Em(f, "pedir")) /\ (falhas' = falhas \/ Falha)
    BY <1>4 DEF Obter, ObterSemErro, Usar, Produzir
  <2> QED BY <2>1, <1>1, <1>2
<1>5. CASE SemCredencial(f) \/ NaoObter(f) \/ NaoRenovar(f) \/ Guardar(f)
  <2>1. pc[f] \in {"obter", "renovar", "guardar"} /\ (Em(f, "pedir") \/ Em(f, "errar")) /\ (falhas' = falhas \/ Falha)
    BY <1>5 DEF SemCredencial, NaoObter, NaoRenovar, Guardar
  <2> QED BY <2>1, <1>1, <1>2
<1>6. CASE Renovar(f)
  <2>1. pc[f] = "renovar" /\ (Em(f, "pedir") \/ Em(f, "errar") \/ Em(f, "guardar")) /\ falhas' = falhas
    BY <1>6 DEF Renovar, DepoisDeRodar
  <2> QED BY <2>1, <1>1, <1>2
<1>7. CASE Receber(f) \/ Recusar(f) \/ Desistir(f)
  <2>1. pc[f] = "pedir" /\ (Em(f, "aplicar") \/ Em(f, "errar")) /\ (falhas' = falhas \/ Falha)
    BY <1>7 DEF Receber, Recusar, Desistir
  <2> QED BY <2>1, <1>1, <1>2
<1>8. CASE Falhar(f)
  <2>1. pc[f] = "pedir" /\ (Em(f, "errar") \/ pc' = pc) /\ Falha
    BY <1>8 DEF Falhar
  <2> QED BY <2>1, <1>1, <1>2
<1>9. CASE Aplicar(f) \/ NaoDecodificar(f) \/ Errar(f) \/ Largar(f)
  <2>1. pc[f] \notin {"fila", "fim"} /\ (Em(f, "drenar") \/ Em(f, "errar") \/ Em(f, "fim")) /\ (falhas' = falhas \/ Falha)
    BY <1>9 DEF Aplicar, NaoDecodificar, Errar, Largar, Ativa
  <2> QED BY <2>1, <1>1, <1>2
<1>10. CASE Avancar(f)
  <2>1. pc[f] = "drenar" /\ (Em(f, "pedir") \/ Em(f, "fim")) /\ falhas' = falhas
    BY <1>10 DEF Avancar, DepoisDaPagina
  <2> QED BY <2>1, <1>1, <1>2
<1>11. CASE Entregar(f)
  <2>1. pc[f] = "drenar" /\ pc' = pc /\ falhas' = falhas
    BY <1>11 DEF Entregar
  <2> QED BY <2>1, <1>2
<1> QED BY <1>3, <1>4, <1>5, <1>6, <1>7, <1>8, <1>9, <1>10, <1>11 DEF Mover

--------------------------------------------------------------------------------
(* Types of the credential                                                     *)

\* what was typed by the last value issued stays so when another one is
LEMMA Cresce ==
  ASSUME TiposDoSegredo, emitida' = emitida \/ emitida' = emitida + 1
  PROVE  /\ emitida' \in Nat \ {0} /\ Deslogada..emitida \subseteq Deslogada..emitida' /\ 0..emitida \subseteq 0..emitida'
         /\ emitida' \in 1..emitida' /\ Semente \in 1..emitida' /\ 1..emitida \subseteq 1..emitida'
         /\ 1..emitida' \subseteq 0..emitida' /\ 0..emitida' \subseteq Deslogada..emitida' /\ Deslogada \in Deslogada..emitida'
BY DEF TiposDoSegredo, Deslogada, Semente

\* The credential keeps its types; a token issued is the next one, and so is a generation
LEMMA SegredoTipado ==
  ASSUME Tipos, NEW f \in Fontes, Mover(f), cfg' = cfg
  PROVE  TiposDoSegredo' /\ (emitida' = emitida \/ emitida' = emitida + 1)
         /\ (guardado' = guardado \/ guardado'.g = guardado.g + 1)
<1> DEFINE Nova == emitida' = emitida \/ (emitida' = emitida + 1 /\ boas' \subseteq boas \cup {emitida + 1})
<1>a. TiposDoSegredo
  BY DEF Tipos
<1>b. Proc(f) \in Processos
  BY DasFontes DEF Tipos
<1>c. /\ emitida' = emitida \/ (emitida' = emitida + 1)
      /\ boas' \subseteq boas \cup {emitida'}
  <2>1. CASE UNCHANGED provedor
    BY <2>1 DEF provedor
  <2>2. CASE Emitir(f)
    BY <2>2 DEF Emitir
  <2>3. CASE ObterSemErro(f)
    BY <2>3 DEF ObterSemErro, Produzir, provedor
  <2>4. UNCHANGED provedor \/ Emitir(f) \/ ObterSemErro(f)
    BY DEF Mover, Comecar, Obter, SemCredencial, NaoObter, Renovar, NaoRenovar, Guardar, Receber, Recusar,
       Falhar, Desistir, Aplicar, NaoDecodificar, Avancar, Entregar, Errar, Largar, credenciais
  <2> QED BY <2>1, <2>2, <2>3, <2>4
<1>d. emitida' \in Nat \ {0} /\ boas' \subseteq 1..emitida'
  BY <1>a, <1>c, Cresce DEF TiposDoSegredo
<1>e. guardado \in [v : Deslogada..emitida, g : Nat] /\ lembrada \in [Processos -> 0..guardado.g] /\ guardado.g \in Nat
      /\ guardado.v \in Deslogada..emitida
  BY <1>a DEF TiposDoSegredo
<1>f. cabecalho' \in [Fontes -> Deslogada..emitida'] /\ rodada' \in [Fontes -> Deslogada..emitida'] /\ jarro' \in [Fontes -> 0..emitida']
  <2>1. cabecalho \in [Fontes -> Deslogada..emitida'] /\ rodada \in [Fontes -> Deslogada..emitida'] /\ jarro \in [Fontes -> 0..emitida']
    BY <1>a, <1>c, Cresce DEF TiposDoSegredo
  <2>2. cabecalho' = cabecalho \/ \E v \in Deslogada..emitida' : cabecalho' = [cabecalho EXCEPT ![f] = v]
    <3>1. CASE Obter(f)
      BY <3>1, <1>a, <1>b, <1>c, Cresce DEF Obter, ObterSemErro, Usar, Produzir, TiposDoSegredo, provedor
    <3>2. CASE Renovar(f)
      BY <3>2, <1>a, <1>c, Cresce DEF Renovar, Rodar, Emitir
    <3>3. CASE Aplicar(f)
      <4>1. cabecalho' = [cabecalho EXCEPT ![f] = IF jarro[f] # Nenhum THEN jarro[f] ELSE @]
        BY <3>3 DEF Aplicar, AplicarRotacao
      <4>2. jarro[f] \in Deslogada..emitida' /\ cabecalho[f] \in Deslogada..emitida'
        BY <2>1, <1>a, <1>c, Cresce
      <4> QED BY <4>1, <4>2
    <3>4. CASE ~Obter(f) /\ ~Renovar(f) /\ ~Aplicar(f)
      BY <3>4 DEF Mover, Comecar, SemCredencial, NaoObter, NaoRenovar, Guardar, Receber, Recusar,
         Falhar, Desistir, NaoDecodificar, Avancar, Entregar, Errar, Largar, credenciais
    <3> QED BY <3>1, <3>2, <3>3, <3>4
  <2>3. rodada' = rodada \/ \E v \in Deslogada..emitida' : rodada' = [rodada EXCEPT ![f] = v]
    <3>1. CASE Renovar(f)
      BY <3>1, <1>a, <1>c, Cresce DEF Renovar, Rodar, Emitir
    <3>2. CASE ~Renovar(f)
      BY <3>2 DEF Mover, Comecar, Obter, SemCredencial, NaoObter, NaoRenovar, Guardar, Receber, Recusar,
         Falhar, Desistir, Aplicar, NaoDecodificar, Avancar, Entregar, Errar, Largar, credenciais
    <3> QED BY <3>1, <3>2
  <2>4. jarro' = jarro \/ \E v \in 0..emitida' : jarro' = [jarro EXCEPT ![f] = v]
    <3>1. CASE Receber(f)
      BY <3>1, <1>a, <1>c, Cresce DEF Receber, Por, Emitir
    <3>2. CASE Aplicar(f)
      <4>1. jarro' = [jarro EXCEPT ![f] = 0]
        BY <3>2 DEF Aplicar, AplicarRotacao, Nenhum
      <4>2. 0 \in 0..emitida'
        BY <1>d
      <4> QED BY <4>1, <4>2
    <3>3. CASE ~Receber(f) /\ ~Aplicar(f)
      BY <3>3 DEF Mover, Comecar, Obter, SemCredencial, NaoObter, Renovar, NaoRenovar, Guardar, Recusar,
         Falhar, Desistir, NaoDecodificar, Avancar, Entregar, Errar, Largar, credenciais
    <3> QED BY <3>1, <3>2, <3>3
  <2> QED BY <2>1, <2>2, <2>3, <2>4
<1>g. /\ cache' \in [Processos -> Deslogada..emitida'] /\ logins' \in [Processos -> Nat]
      /\ guardado' \in [v : Deslogada..emitida', g : Nat] /\ (guardado' = guardado \/ guardado'.g = guardado.g + 1)
      /\ lembrada' \in [Processos -> 0..guardado'.g]
      /\ recusadas' \subseteq Fontes /\ naoSalvou' \subseteq Fontes /\ turvo' \in BOOLEAN
  <2>1. cache \in [Processos -> Deslogada..emitida'] /\ logins \in [Processos -> Nat]
        /\ guardado \in [v : Deslogada..emitida', g : Nat]
        /\ recusadas \subseteq Fontes /\ naoSalvou \subseteq Fontes /\ turvo \in BOOLEAN
    BY <1>a, <1>c, Cresce DEF TiposDoSegredo
  <2>2. CASE Obter(f)
    <3>1. UNCHANGED <<guardado, naoSalvou, recusadas>> /\ (turvo' = turvo \/ turvo' = TRUE)
      BY <2>2 DEF Obter, ObterSemErro
    <3>2. lembrada' = lembrada \/ lembrada' = [lembrada EXCEPT ![Proc(f)] = guardado.g]
      BY <2>2 DEF Obter, ObterSemErro, Lembrar
    <3>3. \E v \in Deslogada..emitida' : cache' = [cache EXCEPT ![Proc(f)] = v]
      BY <2>2, <1>a, <1>b, <1>c, Cresce DEF Obter, ObterSemErro, Usar, Produzir, TiposDoSegredo, provedor
    <3>4. logins' = logins \/ logins' = [logins EXCEPT ![Proc(f)] = @ + 1]
      BY <2>2 DEF Obter, ObterSemErro, Produzir
    <3>5. guardado.g \in 0..guardado.g
      BY <1>e
    <3>6. cache' \in [Processos -> Deslogada..emitida']
      BY <2>1, <3>3
    <3>7. logins' \in [Processos -> Nat]
      BY <2>1, <3>4
    <3>8. lembrada' \in [Processos -> 0..guardado'.g]
      BY <3>1, <3>2, <3>5, <1>e
    <3> QED BY <2>1, <3>1, <3>6, <3>7, <3>8
  <2>3. CASE NaoObter(f)
    <3>1. UNCHANGED <<guardado, naoSalvou, recusadas, cache, logins>> /\ turvo' = TRUE
      BY <2>3 DEF NaoObter
    <3>2. lembrada' = lembrada \/ lembrada' = [lembrada EXCEPT ![Proc(f)] = guardado.g]
      BY <2>3 DEF NaoObter, Lembrar
    <3>3. guardado.g \in 0..guardado.g
      BY <1>e
    <3> QED BY <2>1, <3>1, <3>2, <3>3, <1>e
  <2>4. CASE Guardar(f)
    <3>1. UNCHANGED <<recusadas, cache, logins, lembrada>> /\ (turvo' = turvo \/ turvo' = TRUE)
          /\ (naoSalvou' = naoSalvou \/ naoSalvou' = naoSalvou \cup {f})
          /\ (guardado' = guardado \/ guardado' = [v |-> cabecalho[f], g |-> guardado.g + 1])
      BY <2>4 DEF Guardar
    <3>2. cabecalho[f] \in Deslogada..emitida'
      BY <1>a, <1>c, Cresce DEF TiposDoSegredo
    <3>3. guardado'.g \in Nat /\ guardado.g <= guardado'.g /\ guardado' \in [v : Deslogada..emitida', g : Nat]
          /\ (guardado' = guardado \/ guardado'.g = guardado.g + 1)
      BY <3>1, <3>2, <2>1, <1>e
    <3>4. 0..guardado.g \subseteq 0..guardado'.g
      BY <3>3, <1>e
    <3>5. lembrada' \in [Processos -> 0..guardado'.g]
      BY <3>1, <3>4, <1>e
    <3> QED BY <2>1, <3>1, <3>3, <3>5
  <2>5. CASE ~Obter(f) /\ ~NaoObter(f) /\ ~Guardar(f)
    <3>1. UNCHANGED <<cache, guardado, lembrada, logins, naoSalvou>>
      BY <2>5 DEF Mover, Comecar, SemCredencial, Renovar, NaoRenovar, Receber, Recusar,
         Falhar, Desistir, Aplicar, NaoDecodificar, Avancar, Entregar, Errar, Largar, credenciais, loja
    <3>2. recusadas' = recusadas \/ recusadas' = recusadas \cup {f}
      BY <2>5 DEF Mover, Comecar, SemCredencial, Renovar, NaoRenovar, Receber, Recusar,
         Falhar, Desistir, Aplicar, NaoDecodificar, Avancar, Entregar, Errar, Largar, credenciais
    <3>3. turvo' \in BOOLEAN
      BY <2>5, <2>1 DEF Mover, Comecar, SemCredencial, Renovar, NaoRenovar, Receber, Recusar,
         Falhar, Desistir, Aplicar, NaoDecodificar, Avancar, Entregar, Errar, Largar, credenciais
    <3> QED BY <2>1, <3>1, <3>2, <3>3, <1>e
  <2> QED BY <2>2, <2>3, <2>4, <2>5
<1>h. Fontes' = Fontes /\ Processos' = Processos
  BY MesmasFontes
<1> QED BY <1>c, <1>d, <1>f, <1>g, <1>h DEF TiposDoSegredo
--------------------------------------------------------------------------------
(* Types of the walks                                                          *)

\* the rows from a to b: none, or a first one and the rest
LEMMA DasLinhas ==
  ASSUME NEW a \in Int, NEW b \in Int
  PROVE  /\ Linhas(a, b) \in Seq(Int) /\ (Linhas(a, b) = <<>> <=> b < a)
         /\ a <= b => Linhas(a, b) # <<>> /\ Head(Linhas(a, b)) = a /\ Tail(Linhas(a, b)) = Linhas(a + 1, b)
<1>1. CASE b < a
  <2>1. Linhas(a, b) = <<>>
    BY <1>1 DEF Linhas
  <2> QED BY <2>1, <1>1
<1>2. CASE a <= b
  <2>1. b - a + 1 \in Nat /\ b - a + 1 > 0
    BY <1>2
  <2>2. Linhas(a, b) \in [1..(b - a + 1) -> Int]
    BY DEF Linhas
  <2>3. Linhas(a, b) \in Seq(Int) /\ Len(Linhas(a, b)) = b - a + 1
    BY <2>1, <2>2
  <2>4. Head(Linhas(a, b)) = a
    BY <2>1, <2>3 DEF Linhas
  <2>5. Tail(Linhas(a, b)) = Linhas(a + 1, b)
    <3> PICK s \in Seq(Int) : s = Linhas(a, b)
      BY <2>3
    <3>a. s # <<>>
      BY <2>1, <2>3
    <3>1. Tail(s) \in Seq(Int) /\ Len(Tail(s)) = b - a /\ \A n \in 1..(b - a) : Tail(s)[n] = s[n + 1]
      BY <2>1, <2>3, <3>a, HeadTailProperties
    <3>2. Tail(s) = [n \in 1..(b - a) |-> s[n + 1]]
      <4>1. Tail(s) \in [1..(b - a) -> Int]
        BY <3>1, LenProperties
      <4> QED BY <3>1, <4>1
    <3>3. \A n \in 1..(b - a) : s[n + 1] = (a + 1) + n - 1
      BY <2>1 DEF Linhas
    <3>4. b - (a + 1) + 1 = b - a
      OBVIOUS
    <3>5. Linhas(a + 1, b) = [n \in 1..(b - a) |-> (a + 1) + n - 1]
      BY <3>4 DEF Linhas
    <3> QED BY <3>2, <3>3, <3>5
  <2> QED BY <1>2, <2>1, <2>3, <2>4, <2>5
<1> QED BY <1>1, <1>2

\* where a page begins, and where it ends
Inicio(a) ==
  CASE cfg.estrategia = "nenhuma" -> 0
    [] cfg.estrategia = "offset"  -> a
    [] OTHER                      -> (a - 1) * cfg.limite
FimDa(a) == IF cfg.estrategia = "nenhuma" THEN cfg.total ELSE Menor(Inicio(a) + cfg.limite, cfg.total)

\* A page later the rows are one page further
LEMMA Produto == \A a, l \in Int : (a - 1) * l + l = a * l
OBVIOUS

\* The page at an address is a stretch of the rows
LEMMA DaPagina ==
  ASSUME cfg \in Pedidos, NEW a \in Nat
  PROVE  /\ Inicio(a) \in Int /\ FimDa(a) \in Int /\ FimDa(a) <= cfg.total
         /\ PaginaDe(a) = Linhas(Inicio(a) + 1, FimDa(a)) /\ PaginaDe(a) \in Seq(Int)
<1>1. PedidoBom
  BY DoPedido
<1>2. (a - 1) * cfg.limite \in Int /\ a * cfg.limite \in Int /\ (a - 1) * cfg.limite + cfg.limite = a * cfg.limite
  <2> PICK l \in Int : l = cfg.limite
    BY <1>1 DEF PedidoBom
  <2>1. a \in Int /\ a - 1 \in Int
    OBVIOUS
  <2>2. (a - 1) * l + l = a * l
    BY <2>1, Produto, Zenon
  <2>3. (a - 1) * l \in Int /\ a * l \in Int
    BY <2>1
  <2> QED BY <2>2, <2>3
<1>3. Inicio(a) \in Int /\ FimDa(a) \in Int /\ FimDa(a) <= cfg.total
  <2>1. Inicio(a) \in Int
    BY <1>2 DEF Inicio
  <2> PICK i \in Int : i = Inicio(a)
    BY <2>1
  <2>2. cfg.total \in Int /\ cfg.limite \in Int
    BY <1>1 DEF PedidoBom
  <2>3. FimDa(a) = IF cfg.estrategia = "nenhuma" THEN cfg.total ELSE IF i + cfg.limite < cfg.total THEN i + cfg.limite ELSE cfg.total
    BY DEF FimDa, Menor
  <2> QED BY <2>1, <2>2, <2>3
<1>4. PaginaDe(a) = Linhas(Inicio(a) + 1, FimDa(a))
  <2>1. CASE cfg.estrategia = "nenhuma"
    <3>1. PaginaDe(a) = Linhas(1, cfg.total) /\ Inicio(a) = 0 /\ FimDa(a) = cfg.total
      BY <2>1 DEF PaginaDe, Inicio, FimDa
    <3> QED BY <3>1
  <2>2. CASE cfg.estrategia = "offset"
    BY <2>2 DEF PaginaDe, Inicio, FimDa
  <2>3. CASE cfg.estrategia \notin {"nenhuma", "offset"}
    <3>1. /\ PaginaDe(a) = Linhas((a - 1) * cfg.limite + 1, Menor(a * cfg.limite, cfg.total))
          /\ Inicio(a) = (a - 1) * cfg.limite
          /\ FimDa(a) = Menor((a - 1) * cfg.limite + cfg.limite, cfg.total)
      BY <2>3 DEF PaginaDe, Inicio, FimDa
    <3> QED BY <1>2, <3>1
  <2> QED BY <2>1, <2>2, <2>3
<1> QED BY <1>3, <1>4, DasLinhas

\* A move keeps the types of the walks, and touches no other walk
LEMMA AndamentoTipado ==
  ASSUME Tipos, AindaCabe, NEW f \in Fontes, Mover(f), cfg' = cfg
  PROVE  TiposDoAndamento' /\ AindaCabe'
         /\ \A e \in Fontes \ {f} : /\ endereco'[e] = endereco[e] /\ pagina'[e] = pagina[e]
                                    /\ emitidas'[e] = emitidas[e] /\ paginas'[e] = paginas[e] /\ vistas'[e] = vistas[e]
<1>a. TiposDoAndamento /\ PedidoBom
  BY DoPedido DEF Tipos
<1>b. Fontes' = Fontes
  BY MesmasFontes
<1>c. /\ pc' \in [Fontes -> Fases] /\ \A e \in Fontes \ {f} : pc'[e] = pc[e]
  BY PassoDoPc
<1>d. \A e \in Fontes : pc[e] \notin {"drenar", "errar", "fim"} => paginas[e] < cfg.maxPages
  BY DEF AindaCabe
<1>1. CASE UNCHANGED andamento
  <2>1. pc'[f] \notin {"drenar", "errar", "fim"} => pc[f] \notin {"drenar", "errar", "fim"}
    <3>1. CASE pc[f] = "fim"
      BY <3>1, PassoDoPc
    <3>2. CASE pc[f] = "errar"
      <4>1. Errar(f) \/ Largar(f)
        BY <3>2 DEF Mover, Comecar, Obter, SemCredencial, NaoObter, Renovar, NaoRenovar, Guardar, Receber, Recusar,
          Falhar, Desistir, Aplicar, NaoDecodificar, Avancar, Entregar
      <4>2. Em(f, "fim")
        BY <4>1 DEF Errar, Largar
      <4> QED BY <4>2 DEF Em, Tipos
    <3>3. CASE pc[f] = "drenar"
      <4>1. NaoDecodificar(f) \/ Avancar(f) \/ Entregar(f) \/ Largar(f)
        BY <3>3 DEF Mover, Comecar, Obter, SemCredencial, NaoObter, Renovar, NaoRenovar, Guardar, Receber, Recusar,
          Falhar, Desistir, Aplicar, Errar
      <4>2. CASE NaoDecodificar(f) \/ Largar(f)
        BY <4>2 DEF NaoDecodificar, Largar, Em, Tipos
      <4>3. CASE Entregar(f)
        BY <4>3, <3>3 DEF Entregar
      <4>4. CASE Avancar(f)
        <5>1. CASE pc'[f] = "pedir"
          <6>1. pc'[f] = DepoisDaPagina(f, NextPageURL(endereco[f], emitidas[f]))
            BY <4>4 DEF Avancar, Em, Tipos
          <6>2. ~(paginas[f] >= cfg.maxPages)
            BY <6>1, <5>1 DEF DepoisDaPagina
          <6>3. NextPageURL(endereco[f], emitidas[f]) \notin vistas[f]
            BY <6>1, <5>1 DEF DepoisDaPagina
          <6>4. vistas' = Por(vistas, f, vistas[f] \cup {NextPageURL(endereco[f], emitidas[f])})
            BY <4>4, <5>1 DEF Avancar
          <6>5. NextPageURL(endereco[f], emitidas[f]) \in vistas'[f]
            BY <6>4, <1>a DEF Por, TiposDoAndamento
          <6> QED BY <6>3, <6>5, <1>1 DEF andamento
        <5>2. CASE pc'[f] # "pedir"
          <6>1. pc'[f] = "fim"
            BY <4>4, <5>2 DEF Avancar, Em, DepoisDaPagina, Tipos
          <6> QED BY <6>1
        <5> QED BY <5>1, <5>2
      <4> QED BY <4>1, <4>2, <4>3, <4>4
    <3> QED BY <3>1, <3>2, <3>3
  <2> QED BY <2>1, <1>1, <1>a, <1>b, <1>c, <1>d DEF andamento, TiposDoAndamento, AindaCabe
<1>2. CASE Receber(f)
  <2>1. /\ pagina' = Por(pagina, f, PaginaDe(endereco[f])) /\ corpoLido' = Por(corpoLido, f, TRUE)
        /\ UNCHANGED <<endereco, tent, emitidas, paginas, vistas>> /\ pc[f] = "pedir"
    BY <1>2 DEF Receber
  <2>2. PaginaDe(endereco[f]) \in Seq(Int)
    BY <1>a, DaPagina DEF TiposDoAndamento, Tipos
  <2>3. pagina' \in [Fontes -> Seq(Int)] /\ corpoLido' \in [Fontes -> BOOLEAN]
    BY <2>1, <2>2, <1>a DEF Por, TiposDoAndamento
  <2>4. AindaCabe'
    BY <2>1, <1>b, <1>c, <1>d DEF AindaCabe
  <2>5. /\ endereco' \in [Fontes -> Nat] /\ tent' \in [Fontes -> 0..(cfg.tentativas - 1)] /\ emitidas' \in [Fontes -> Nat]
        /\ paginas' \in [Fontes -> 0..cfg.maxPages] /\ vistas' \in [Fontes -> SUBSET Nat]
    BY <2>1, <1>a DEF TiposDoAndamento
  <2>6. TiposDoAndamento'
    BY <2>3, <2>5, <1>b DEF TiposDoAndamento
  <2>7. \A e \in Fontes \ {f} : pagina'[e] = pagina[e]
    BY <2>1, <1>a DEF Por, TiposDoAndamento
  <2> QED BY <2>1, <2>4, <2>6, <2>7
<1>3. CASE Falhar(f)
  <2>1. /\ tent' = tent \/ (tent[f] + 1 < cfg.tentativas /\ tent' = Por(tent, f, tent[f] + 1))
        /\ corpoLido' = Por(corpoLido, f, TRUE)
        /\ UNCHANGED <<endereco, pagina, emitidas, paginas, vistas>> /\ pc[f] = "pedir"
    <3>1. tent' = tent \/ (tent[f] + 1 < cfg.tentativas /\ tent' = Por(tent, f, tent[f] + 1))
      BY <1>3 DEF Falhar, PodeTentarDeNovo
    <3> QED BY <1>3, <3>1 DEF Falhar
  <2>2. tent' \in [Fontes -> 0..(cfg.tentativas - 1)]
    <3>1. tent[f] + 1 < cfg.tentativas => tent[f] + 1 \in 0..(cfg.tentativas - 1)
      BY <1>a DEF TiposDoAndamento, PedidoBom
    <3> QED BY <2>1, <3>1, <1>a DEF Por, TiposDoAndamento
  <2>3. corpoLido' \in [Fontes -> BOOLEAN]
    BY <2>1, <1>a DEF Por, TiposDoAndamento
  <2>4. AindaCabe'
    BY <2>1, <1>b, <1>c, <1>d DEF AindaCabe
  <2> QED BY <2>1, <2>2, <2>3, <2>4, <1>a, <1>b DEF TiposDoAndamento
<1>4. CASE Aplicar(f)
  <2>1. /\ paginas' = Por(paginas, f, paginas[f] + 1) /\ emitidas' = Por(emitidas, f, 0) /\ tent' = Por(tent, f, 0)
        /\ UNCHANGED <<endereco, corpoLido, pagina, vistas>> /\ pc[f] = "aplicar" /\ pc'[f] = "drenar"
    BY <1>4 DEF Aplicar, Em, Tipos
  <2>2. paginas[f] + 1 \in 0..cfg.maxPages /\ 0 \in 0..(cfg.tentativas - 1)
    <3>1. paginas[f] \in 0..cfg.maxPages /\ cfg.maxPages \in Nat /\ cfg.tentativas \in Nat /\ cfg.tentativas > 0
      BY <1>a DEF TiposDoAndamento, PedidoBom
    <3>2. paginas[f] < cfg.maxPages
      BY <2>1, <1>d
    <3> QED BY <3>1, <3>2
  <2>3. TiposDoAndamento'
    BY <2>1, <2>2, <1>a, <1>b DEF Por, TiposDoAndamento
  <2> QED BY <2>1, <2>3, <1>a, <1>b, <1>c, <1>d DEF Por, TiposDoAndamento, AindaCabe
<1>5. CASE Avancar(f)
  <2> PICK prox : prox = NextPageURL(endereco[f], emitidas[f])
    OBVIOUS
  <2>1. pc'[f] = DepoisDaPagina(f, prox) /\ pc[f] = "drenar" /\ UNCHANGED <<tent, corpoLido, pagina, emitidas, paginas>>
    BY <1>5 DEF Avancar, Em, Tipos
  <2>2. CASE pc'[f] = "pedir"
    <3>1. endereco' = Por(endereco, f, prox) /\ vistas' = Por(vistas, f, vistas[f] \cup {prox}) /\ prox # SemProxima
          /\ paginas[f] < cfg.maxPages
      <4>1. prox # SemProxima /\ ~(paginas[f] >= cfg.maxPages)
        BY <2>1, <2>2 DEF DepoisDaPagina
      <4>2. paginas[f] \in Int /\ cfg.maxPages \in Int
        BY <1>a DEF TiposDoAndamento, PedidoBom
      <4>3. paginas[f] < cfg.maxPages
        BY <4>1, <4>2
      <4> QED BY <1>5, <2>2, <4>1, <4>3 DEF Avancar
    <3>2. prox \in Nat
      <4>1. endereco[f] \in Nat /\ emitidas[f] \in Nat
        BY <1>a DEF TiposDoAndamento
      <4>2. cfg.laco \in Nat /\ cfg.limite \in Nat /\ (cfg.tamanho = 0 \/ cfg.tamanho = cfg.limite)
        BY <1>a DEF PedidoBom
      <4>3. Aponta(endereco[f]) \in Nat
        BY <4>1, <4>2 DEF Aponta
      <4> QED BY <3>1, <4>1, <4>2, <4>3 DEF NextPageURL, SabeQueAcabou, MoreKeyDaFonte
    <3>3. TiposDoAndamento'
      BY <2>1, <3>1, <3>2, <1>a, <1>b DEF Por, TiposDoAndamento
    <3>4. AindaCabe'
      BY <2>1, <3>1, <1>b, <1>c, <1>d DEF AindaCabe
    <3> QED BY <2>1, <3>1, <3>3, <3>4, <1>a DEF Por, TiposDoAndamento
  <2>3. CASE pc'[f] # "pedir"
    <3>1. UNCHANGED <<endereco, vistas>> /\ pc'[f] = "fim"
      BY <1>5, <2>1, <2>3 DEF Avancar, DepoisDaPagina
    <3> QED BY <2>1, <3>1, <1>a, <1>b, <1>c, <1>d DEF TiposDoAndamento, AindaCabe
  <2> QED BY <2>2, <2>3
<1>6. CASE Entregar(f)
  <2>1. /\ pagina' = Por(pagina, f, Tail(pagina[f])) /\ emitidas' = Por(emitidas, f, emitidas[f] + 1)
        /\ UNCHANGED <<pc, endereco, tent, corpoLido, paginas, vistas>> /\ pagina[f] # <<>>
    BY <1>6 DEF Entregar
  <2>2. Tail(pagina[f]) \in Seq(Int) /\ emitidas[f] + 1 \in Nat
    BY <2>1, <1>a DEF TiposDoAndamento
  <2> QED BY <2>1, <2>2, <1>a, <1>b, <1>c, <1>d DEF Por, TiposDoAndamento, AindaCabe
<1>7. UNCHANGED andamento \/ Receber(f) \/ Falhar(f) \/ Aplicar(f) \/ Avancar(f) \/ Entregar(f)
  BY DEF Mover, Comecar, Recusar, Desistir, NaoDecodificar, Errar, Largar
<1> QED BY <1>1, <1>2, <1>3, <1>4, <1>5, <1>6, <1>7
--------------------------------------------------------------------------------
(* Types of what the consumers have                                            *)

\* A move keeps the types of the consumers, and touches no other consumer
LEMMA LeituraTipada ==
  ASSUME Tipos, AindaCabe, NEW f \in Fontes, Mover(f), cfg' = cfg
  PROVE  TiposDaLeitura'
         /\ \A q \in Processos \ {Proc(f)} : /\ consumidor'[q] = consumidor[q] /\ entregues'[q] = entregues[q]
                                             /\ falharam'[q] = falharam[q] /\ desfecho'[q] = desfecho[q]
<1>a. TiposDaLeitura /\ Proc(f) \in Processos
  BY DasFontes DEF Tipos
<1>b. Fontes' = Fontes /\ Processos' = Processos
  BY MesmasFontes
<1>1. CASE UNCHANGED leitura
  BY <1>1, <1>a, <1>b DEF leitura, TiposDaLeitura
<1>2. CASE Entregar(f)
  <2>1. /\ entregues' = Por(entregues, Proc(f), Append(entregues[Proc(f)], <<f, Head(pagina[f])>>))
        /\ consumidor' = consumidor \/ consumidor' = Por(consumidor, Proc(f), "cancelado")
        /\ UNCHANGED <<falharam, desfecho>> /\ pagina[f] # <<>>
    BY <1>2 DEF Entregar
  <2>2. Head(pagina[f]) \in Int
    <3>1. pagina[f] \in Seq(Int)
      BY DEF Tipos, TiposDoAndamento
    <3> QED BY <2>1, <3>1, HeadTailProperties
  <2>3. Append(entregues[Proc(f)], <<f, Head(pagina[f])>>) \in Seq(Fontes \X Int)
    BY <2>2, <1>a, AppendProperties DEF TiposDaLeitura
  <2>4. entregues' \in [Processos -> Seq(Fontes \X Int)]
    BY <2>1, <2>3, <1>a DEF Por, TiposDaLeitura
  <2> QED BY <2>1, <2>4, <1>a, <1>b DEF Por, TiposDaLeitura
<1>3. CASE Errar(f)
  <2>1. CASE Tolerar(f)
    <3>1. /\ falharam' = Por(falharam, Proc(f), falharam[Proc(f)] \cup {f}) /\ UNCHANGED <<consumidor, desfecho, entregues>>
      BY <1>3, <2>1 DEF Errar, Tolerar
    <3>2. falharam[Proc(f)] \cup {f} \in SUBSET Fontes
      BY <1>a DEF TiposDaLeitura
    <3> QED BY <3>1, <3>2, <1>a, <1>b DEF TiposDaLeitura, Por
  <2>2. CASE Abortar(f)
    BY <1>3, <2>2, <1>a, <1>b DEF Errar, Abortar, TiposDaLeitura, Por
  <2> QED BY <1>3, <2>1, <2>2 DEF Errar
<1>4. UNCHANGED leitura \/ Entregar(f) \/ Errar(f)
  BY DEF Mover, Comecar, Receber, Recusar, Falhar, Desistir, Aplicar, NaoDecodificar, Avancar, Largar
<1> QED BY <1>1, <1>2, <1>3, <1>4

--------------------------------------------------------------------------------
(* The workers                                                                 *)

\* walks are only opened by a worker that is free
LEMMA LugaresFicam ==
  ASSUME Tipos, Lugares, NEW f \in Fontes, Mover(f), cfg' = cfg
  PROVE  Lugares'
<1> SUFFICES ASSUME NEW p \in Processos PROVE Cardinality({e \in DaOrigem(p) : Ativa(e)}') <= cfg.trabalhadores
  BY MesmasFontes DEF Lugares
<1> DEFINE Antes == {e \in DaOrigem(p) : Ativa(e)}
           Depois == {e \in DaOrigem(p) : Ativa(e)'}
<1>1. {e \in DaOrigem(p) : Ativa(e)}' = Depois
  BY MesmasFontes
<1>2. IsFiniteSet(Antes) /\ Cardinality(Antes) \in Nat /\ Cardinality(Antes) <= cfg.trabalhadores /\ cfg.trabalhadores \in Nat
  <2>1. IsFiniteSet(Antes)
    BY DasFontes, FS_Subset DEF Tipos
  <2>2. cfg.trabalhadores \in Nat
    BY DoPedido DEF Tipos, PedidoBom
  <2> QED BY <2>1, <2>2, FS_CardinalityType DEF Lugares
<1>3. CASE pc[f] # "fila" \/ Proc(f) # p
  <2>1. Depois \subseteq Antes
    <3>1. f \in DaOrigem(p) => Ativa(f)
      BY <1>3, PassoDoPc DEF Ativa, DaOrigem
    <3> QED BY <3>1, PassoDoPc DEF Ativa, DaOrigem
  <2>2. Cardinality(Depois) <= Cardinality(Antes) /\ Cardinality(Depois) \in Nat
    BY <2>1, <1>2, FS_Subset, FS_CardinalityType
  <2> QED BY <1>1, <1>2, <2>2
<1>4. CASE pc[f] = "fila" /\ Proc(f) = p
  <2>1. Comecar(f)
    BY <1>4 DEF Mover, Obter, SemCredencial, NaoObter, Renovar, NaoRenovar, Guardar, Receber, Recusar,
       Falhar, Desistir, Aplicar, NaoDecodificar, Avancar, Entregar, Errar, Largar, Ativa
  <2>2. Cardinality(Antes) < cfg.trabalhadores
    BY <2>1, <1>4 DEF Comecar, HaTrabalhador
  <2>3. Depois = Antes \cup {f} /\ f \notin Antes
    BY <1>4, PassoDoPc DEF Ativa, DaOrigem
  <2>4. Cardinality(Depois) = Cardinality(Antes) + 1
    BY <2>3, <1>2, FS_AddElement
  <2>5. Cardinality(Depois) <= cfg.trabalhadores
    <3> HIDE DEF Antes, Depois
    <3> QED BY <1>2, <2>2, <2>4
  <2> QED BY <1>1, <2>5
<1> QED BY <1>3, <1>4

\* With one worker a source is read after those before it
EmFila ==
  cfg.trabalhadores = 1 =>
    \A f, g \in Fontes : g < f /\ Proc(g) = Proc(f) /\ pc[f] # "fila" => pc[g] = "fim"

\* With one worker the order of the sources is kept
LEMMA FilaFica ==
  ASSUME Tipos, Lugares, EmFila, NEW f \in Fontes, Mover(f), cfg' = cfg
  PROVE  EmFila'
<1> SUFFICES ASSUME cfg.trabalhadores = 1, NEW e \in Fontes, NEW g \in Fontes, g < e, Proc(g) = Proc(e), pc'[e] # "fila"
             PROVE  pc'[g] = "fim"
  BY MesmasFontes DEF EmFila
<1>1. CASE pc[e] # "fila"
  BY <1>1, PassoDoPc DEF EmFila
<1>2. CASE pc[e] = "fila"
  <2>1. e = f /\ Comecar(f)
    BY <1>2, PassoDoPc DEF Mover, Obter, SemCredencial, NaoObter, Renovar, NaoRenovar, Guardar, Receber, Recusar,
       Falhar, Desistir, Aplicar, NaoDecodificar, Avancar, Entregar, Errar, Largar, Ativa
  <2>2. pc[g] # "fila" /\ Cardinality({h \in DaOrigem(Proc(f)) : Ativa(h)}) < 1
    BY <2>1, DasFontes DEF Comecar, HaTrabalhador, DaOrigem, Tipos
  <2>3. {h \in DaOrigem(Proc(f)) : Ativa(h)} = {}
    <3>1. IsFiniteSet({h \in DaOrigem(Proc(f)) : Ativa(h)})
      BY DasFontes, FS_Subset DEF Tipos
    <3>2. Cardinality({h \in DaOrigem(Proc(f)) : Ativa(h)}) = 0
      BY <2>2, <3>1, FS_CardinalityType
    <3> QED BY <3>1, <3>2, FS_EmptySet
  <2>4. ~Ativa(g)
    BY <2>1, <2>3 DEF DaOrigem
  <2>5. pc[g] = "fim" /\ g # f
    BY <2>1, <2>2, <2>4, DasFontes DEF Ativa, Tipos
  <2> QED BY <2>5, PassoDoPc
<1> QED BY <1>1, <1>2

Base == Tipos /\ AindaCabe /\ Lugares /\ EmFila

\* the steps of a process: it ends, it dies, or its TTL runs out
LEMMA DoProcesso ==
  ASSUME Base, NEW p \in Processos, Fechar(p) \/ Cair(p) \/ (Vencer(p) /\ UNCHANGED <<andamento, leitura>>)
  PROVE  /\ Base' /\ cfg' = cfg /\ UNCHANGED andamento
         /\ \A e \in Fontes : pc'[e] = pc[e] \/ (pc'[e] = "fim" /\ Proc(e) = p)
<1>1. cfg' = cfg /\ UNCHANGED andamento
  BY DEF Fechar, Cair, Vencer
<1>2. /\ pc' \in [Fontes -> Fases] /\ falhas' \in 0..MaxFalhas
      /\ \A e \in Fontes : pc'[e] = pc[e] \/ (pc'[e] = "fim" /\ Proc(e) = p)
  <2>1. falhas' = falhas \/ Falha
    BY DEF Fechar, Cair, Vencer
  <2>2. pc' = pc \/ pc' = [e \in Fontes |-> IF Proc(e) = p THEN "fim" ELSE pc[e]]
    BY DEF Fechar, Cair, Vencer
  <2> QED BY <2>1, <2>2, FalhasNaturais DEF Falha, Base, Tipos, Fases
<1>3. TiposDoSegredo'
  <2>1. UNCHANGED <<cabecalho, jarro, lembrada, guardado, naoSalvou, provedor, recusadas, rodada, logins>> /\ turvo' \in BOOLEAN
        /\ (cache' = cache \/ cache' = [cache EXCEPT ![p] = Nenhum])
    BY DEF Fechar, Cair, Vencer, Base, Tipos, TiposDoSegredo, credenciais, loja
  <2>2. Nenhum \in Deslogada..emitida
    BY DEF Nenhum, Deslogada, Base, Tipos, TiposDoSegredo
  <2>3. cache' \in [Processos -> Deslogada..emitida]
    BY <2>1, <2>2 DEF Base, Tipos, TiposDoSegredo
  <2> QED BY <1>1, <2>1, <2>3, MesmasFontes DEF Base, Tipos, TiposDoSegredo, provedor
<1>4. TiposDaLeitura'
  <2>1. DesfechoDe(p) \in {"ok", "erro"}
    BY DEF DesfechoDe
  <2>2. /\ consumidor' = consumidor \/ consumidor' = Por(consumidor, p, "fim")
        /\ desfecho' = desfecho \/ \E d \in {"parou", "ok", "erro", "morto"} : desfecho' = Por(desfecho, p, d)
        /\ UNCHANGED <<entregues, falharam>>
    BY <2>1 DEF Fechar, Cair, Vencer, leitura
  <2> QED BY <1>1, <2>2, MesmasFontes DEF Base, Tipos, TiposDaLeitura, Por
<1>5. TiposDoAndamento' /\ AindaCabe'
  BY <1>1, <1>2, MesmasFontes DEF Base, Tipos, TiposDoAndamento, AindaCabe, andamento
<1>6. Lugares'
  <2> SUFFICES ASSUME NEW q \in Processos PROVE Cardinality({e \in DaOrigem(q) : Ativa(e)}') <= cfg.trabalhadores
    BY <1>1, MesmasFontes DEF Lugares
  <2>1. {e \in DaOrigem(q) : Ativa(e)}' \subseteq {e \in DaOrigem(q) : Ativa(e)}
    BY <1>1, <1>2, MesmasFontes DEF Ativa, DaOrigem
  <2>2. IsFiniteSet({e \in DaOrigem(q) : Ativa(e)})
    BY DasFontes, FS_Subset DEF Base, Tipos
  <2>3. Cardinality({e \in DaOrigem(q) : Ativa(e)}') <= Cardinality({e \in DaOrigem(q) : Ativa(e)})
        /\ Cardinality({e \in DaOrigem(q) : Ativa(e)}') \in Nat /\ Cardinality({e \in DaOrigem(q) : Ativa(e)}) \in Nat
    BY <2>1, <2>2, FS_Subset, FS_CardinalityType
  <2>4. cfg.trabalhadores \in Nat
    BY DoPedido DEF Base, Tipos, PedidoBom
  <2> QED BY <2>3, <2>4 DEF Base, Lugares
<1>7. EmFila'
  <2> SUFFICES ASSUME cfg.trabalhadores = 1, NEW e \in Fontes, NEW g \in Fontes, g < e, Proc(g) = Proc(e), pc'[e] # "fila"
               PROVE  pc'[g] = "fim"
    BY <1>1, MesmasFontes DEF EmFila
  <2>1. CASE pc[e] # "fila"
    BY <2>1, <1>2 DEF Base, EmFila
  <2>2. CASE pc[e] = "fila"
    <3>1. Cair(p) /\ Proc(e) = p
      BY <2>2, <1>2 DEF Fechar, Vencer, Cair
    <3>2. pc' = [h \in Fontes |-> IF Proc(h) = p THEN "fim" ELSE pc[h]]
      BY <3>1 DEF Cair
    <3> QED BY <3>1, <3>2
  <2> QED BY <2>1, <2>2
<1> QED BY <1>1, <1>2, <1>3, <1>4, <1>5, <1>6, <1>7, MesmasFontes DEF Base, Tipos

\* Types and places hold at the start
LEMMA BaseInicial == Init => Base
<1> SUFFICES ASSUME Init PROVE Base
  OBVIOUS
<1> USE DEF Init
<1>1. PedidoBom /\ cfg \in Pedidos
  BY DoPedido
<1>2. TiposDoSegredo
  <2>1. emitida = 1 /\ Nenhum \in Deslogada..emitida /\ Nenhum \in 0..emitida /\ Nenhum \in 0..0 /\ Semente \in 1..emitida
    BY DEF IniciarCredencial, Nenhum, Deslogada, Semente
  <2>2. guardado.g = 0 /\ guardado \in [v : Deslogada..emitida, g : Nat]
    BY <2>1 DEF IniciarCredencial
  <2>3. boas \subseteq 1..emitida
    BY <2>1 DEF IniciarCredencial
  <2>4. lembrada \in [Processos -> 0..guardado.g] /\ cache \in [Processos -> Deslogada..emitida] /\ logins \in [Processos -> Nat]
    BY <2>1, <2>2 DEF IniciarCredencial
  <2>5. cabecalho \in [Fontes -> Deslogada..emitida] /\ rodada \in [Fontes -> Deslogada..emitida] /\ jarro \in [Fontes -> 0..emitida]
    BY <2>1 DEF IniciarCredencial
  <2>6. recusadas = {} /\ naoSalvou = {} /\ turvo = FALSE /\ emitida \in Nat \ {0}
    BY <2>1 DEF IniciarCredencial
  <2> QED BY <2>2, <2>3, <2>4, <2>5, <2>6 DEF TiposDoSegredo
<1>3. TiposDoAndamento
  <2>1. 0 \in 0..(cfg.tentativas - 1) /\ 0 \in 0..cfg.maxPages /\ FirstPageURL \in Nat /\ <<>> \in Seq(Int)
    BY <1>1 DEF PedidoBom, FirstPageURL
  <2> QED BY <2>1 DEF TiposDoAndamento
<1>4. TiposDaLeitura
  <2>1. <<>> \in Seq(Fontes \X Int)
    OBVIOUS
  <2> QED BY <2>1 DEF TiposDaLeitura
<1>5. Lugares
  <2> SUFFICES ASSUME NEW p \in Processos PROVE Cardinality({f \in DaOrigem(p) : Ativa(f)}) <= cfg.trabalhadores
    BY DEF Lugares
  <2>1. {f \in DaOrigem(p) : Ativa(f)} = {}
    BY DEF DaOrigem, Ativa
  <2>2. Cardinality({f \in DaOrigem(p) : Ativa(f)}) = 0
    BY <2>1, FS_EmptySet
  <2> QED BY <2>2, <1>1 DEF PedidoBom
<1>6. AindaCabe
  BY <1>1 DEF AindaCabe, PedidoBom
<1>7. falhas \in 0..MaxFalhas
  BY FalhasNaturais DEF IniciarCredencial
<1> QED BY <1>1, <1>2, <1>3, <1>4, <1>5, <1>6, <1>7 DEF Base, Tipos, EmFila, Fases

\* Every step keeps types and places
LEMMA BaseFica == Base /\ [Next]_vars => Base'
<1> SUFFICES ASSUME Base, [Next]_vars PROVE Base'
  OBVIOUS
<1>1. CASE \E f \in Fontes : Caminhar(f)
  <2> PICK f \in Fontes : Caminhar(f)
    BY <1>1
  <2>1. Mover(f) /\ cfg' = cfg
    BY Passos
  <2>2. /\ pc' \in [Fontes -> Fases] /\ falhas' \in 0..MaxFalhas
    BY <2>1, PassoDoPc DEF Base
  <2>3. TiposDoSegredo' /\ TiposDoAndamento' /\ AindaCabe' /\ TiposDaLeitura' /\ Lugares' /\ EmFila'
    BY <2>1, SegredoTipado, AndamentoTipado, LeituraTipada, LugaresFicam, FilaFica DEF Base
  <2> QED BY <2>1, <2>2, <2>3, MesmasFontes DEF Base, Tipos
<1>2. CASE \E p \in Processos : Fechar(p) \/ Cair(p) \/ (Vencer(p) /\ UNCHANGED <<andamento, leitura>>)
  BY <1>2, DoProcesso
<1>3. CASE UNCHANGED vars
  <2>1. UNCHANGED <<cfg, pc, falhas, cabecalho, jarro, cache, lembrada, guardado, naoSalvou, emitida, boas, recusadas, rodada, logins, turvo>>
    BY <1>3 DEF vars, credenciais, loja, provedor
  <2>2. UNCHANGED <<endereco, tent, corpoLido, pagina, emitidas, paginas, vistas, consumidor, entregues, falharam, desfecho>>
    BY <1>3 DEF vars, andamento, leitura
  <2>3. Fontes' = Fontes /\ Processos' = Processos
    BY <2>1, MesmasFontes
  <2>4. Tipos'
    BY <2>1, <2>2, <2>3 DEF Base, Tipos, TiposDoSegredo, TiposDoAndamento, TiposDaLeitura
  <2>5. AindaCabe' /\ EmFila' /\ Lugares'
    BY <2>1, <2>2 DEF Base, AindaCabe, EmFila, Lugares, Fontes, Processos, Proc, DaOrigem, Ativa
  <2> QED BY <2>4, <2>5 DEF Base
<1> QED BY <1>1, <1>2, <1>3 DEF Next
--------------------------------------------------------------------------------
(* The credential: what a walk holds between renewal and store                 *)

\* a step touches the header, the jar and the renewal of its own walk, and what its own
\* process remembers; what has been disturbed stays so
LEMMA SegredoDosOutros ==
  ASSUME Tipos, NEW f \in Fontes, Mover(f), cfg' = cfg
  PROVE  /\ \A e \in Fontes \ {f} : cabecalho'[e] = cabecalho[e] /\ jarro'[e] = jarro[e] /\ rodada'[e] = rodada[e]
         /\ \A q \in Processos \ {Proc(f)} : lembrada'[q] = lembrada[q] /\ cache'[q] = cache[q] /\ logins'[q] = logins[q]
         /\ turvo => turvo'
         /\ naoSalvou \subseteq naoSalvou'
         /\ guardado' = guardado \/ Guardar(f)
         /\ lembrada' = lembrada \/ (Obter(f) \/ NaoObter(f))
<1> USE DEF Tipos, TiposDoSegredo
<1>1. \A e \in Fontes \ {f} : cabecalho'[e] = cabecalho[e]
  BY DEF Mover, Comecar, Obter, ObterSemErro, Usar, Produzir, SemCredencial, NaoObter, Renovar, Rodar, NaoRenovar, Guardar, Receber, Recusar,
     Falhar, Desistir, Aplicar, AplicarRotacao, NaoDecodificar, Avancar, Entregar, Errar, Largar, credenciais
<1>2. \A e \in Fontes \ {f} : jarro'[e] = jarro[e]
  BY DEF Mover, Comecar, Obter, SemCredencial, NaoObter, Renovar, NaoRenovar, Guardar, Receber, Recusar, Por,
     Falhar, Desistir, Aplicar, AplicarRotacao, NaoDecodificar, Avancar, Entregar, Errar, Largar, credenciais
<1>3. \A e \in Fontes \ {f} : rodada'[e] = rodada[e]
  BY DEF Mover, Comecar, Obter, SemCredencial, NaoObter, Renovar, Rodar, NaoRenovar, Guardar, Receber, Recusar,
     Falhar, Desistir, Aplicar, NaoDecodificar, Avancar, Entregar, Errar, Largar, credenciais
<1>4. lembrada' = lembrada \/ (Obter(f) \/ NaoObter(f))
  BY DEF Mover, Comecar, SemCredencial, Renovar, NaoRenovar, Guardar, Receber, Recusar,
     Falhar, Desistir, Aplicar, NaoDecodificar, Avancar, Entregar, Errar, Largar, credenciais, loja
<1>5. guardado' = guardado \/ Guardar(f)
  BY DEF Mover, Comecar, Obter, SemCredencial, NaoObter, Renovar, NaoRenovar, Receber, Recusar,
     Falhar, Desistir, Aplicar, NaoDecodificar, Avancar, Entregar, Errar, Largar, credenciais, loja
<1>6. turvo => turvo'
  BY DEF Mover, Comecar, Obter, ObterSemErro, SemCredencial, NaoObter, Renovar, NaoRenovar, Guardar, Receber, Recusar,
     Falhar, Desistir, Aplicar, NaoDecodificar, Avancar, Entregar, Errar, Largar, credenciais
<1>10. naoSalvou \subseteq naoSalvou'
  BY DEF Mover, Comecar, Obter, SemCredencial, NaoObter, Renovar, NaoRenovar, Guardar, Receber, Recusar,
     Falhar, Desistir, Aplicar, NaoDecodificar, Avancar, Entregar, Errar, Largar, credenciais, loja
<1>7. \A q \in Processos \ {Proc(f)} : lembrada'[q] = lembrada[q]
  <2>1. Obter(f) \/ NaoObter(f) => lembrada' = lembrada \/ lembrada' = [lembrada EXCEPT ![Proc(f)] = guardado.g]
    BY DEF Obter, ObterSemErro, NaoObter, Lembrar
  <2> QED BY <2>1, <1>4
<1>8. \A q \in Processos \ {Proc(f)} : cache'[q] = cache[q]
  BY DEF Mover, Comecar, Obter, ObterSemErro, Usar, Produzir, SemCredencial, NaoObter, Renovar, NaoRenovar, Guardar, Receber, Recusar,
     Falhar, Desistir, Aplicar, NaoDecodificar, Avancar, Entregar, Errar, Largar, credenciais, loja
<1>9. \A q \in Processos \ {Proc(f)} : logins'[q] = logins[q]
  BY DEF Mover, Comecar, Obter, ObterSemErro, Produzir, SemCredencial, NaoObter, Renovar, NaoRenovar, Guardar, Receber, Recusar,
     Falhar, Desistir, Aplicar, NaoDecodificar, Avancar, Entregar, Errar, Largar, credenciais
<1> QED BY <1>1, <1>2, <1>3, <1>4, <1>5, <1>6, <1>7, <1>8, <1>9, <1>10

\* what a walk is sure of on its way through the renewal
Passagem(f) ==
  /\ pc[f] \in {"fila", "obter", "renovar"} => rodada[f] = Nenhum
  /\ pc[f] \in {"renovar", "guardar"} => cfg.renova /\ cfg.cred # "nenhuma"
  /\ pc[f] = "guardar" => /\ cabecalho[f] = rodada[f] /\ rodada[f] # Nenhum
                          /\ cfg.loja # "nenhuma"
                          /\ cfg.validade => cabecalho[f] > 0

\* A walk stays sure of what it is sure of on its way
LEMMA PassagemFica ==
  ASSUME Base, NEW f \in Fontes, Mover(f), cfg' = cfg, Passagem(f)
  PROVE  Passagem(f)'
<1>a. Tipos /\ TiposDoSegredo
  BY DEF Base, Tipos
<1>1. CASE Comecar(f)
  BY <1>1, <1>a DEF Comecar, Passagem, Em, Tipos
<1>2. CASE Obter(f)
  <2>1. pc[f] = "obter" /\ cfg.cred # "nenhuma" /\ rodada' = rodada /\ (pc'[f] = IF cfg.renova THEN "renovar" ELSE "pedir")
    BY <1>2, <1>a DEF Obter, ObterSemErro, Usar, Produzir, Em, Tipos
  <2> QED BY <2>1 DEF Passagem
<1>3. CASE Renovar(f)
  <2>1. CASE pc'[f] = "guardar"
    <3>1. /\ rodada'[f] = cabecalho'[f] /\ cfg.loja # "nenhuma" /\ pc[f] = "renovar"
          /\ (cabecalho'[f] = emitida + 1 \/ (cabecalho'[f] = Deslogada /\ ~cfg.validade))
      BY <1>3, <2>1, <1>a DEF Renovar, Rodar, DepoisDeRodar, Em, Tipos, TiposDoSegredo
    <3>2. emitida + 1 > 0 /\ emitida + 1 # Nenhum /\ Deslogada # Nenhum
      BY <1>a DEF TiposDoSegredo, Nenhum, Deslogada
    <3> QED BY <2>1, <3>1, <3>2 DEF Passagem
  <2>2. CASE pc'[f] # "guardar"
    <3>1. pc'[f] \in {"pedir", "errar"}
      BY <1>3, <2>2, <1>a DEF Renovar, DepoisDeRodar, Em, Tipos
    <3> QED BY <3>1 DEF Passagem
  <2> QED BY <2>1, <2>2
<1>4. CASE ~Comecar(f) /\ ~Obter(f) /\ ~Renovar(f)
  <2>1. pc'[f] \in {"pedir", "aplicar", "drenar", "errar", "fim"}
    BY <1>4, <1>a DEF Mover, SemCredencial, NaoObter, NaoRenovar, Guardar, Receber, Recusar,
       Falhar, Desistir, Aplicar, NaoDecodificar, Avancar, DepoisDaPagina, Entregar, Errar, Largar, Em, Tipos
  <2> QED BY <2>1 DEF Passagem
<1> QED BY <1>1, <1>2, <1>3, <1>4

\* in GCS what a walk is about to write is newer than what it would replace
Geracao(f) ==
  cfg.validade /\ cfg.loja = "gcs" /\ cfg.trabalhadores = 1 /\ pc[f] = "guardar" /\ lembrada[Proc(f)] = guardado.g =>
    guardado.v <= cabecalho[f]

\* What is about to be written to GCS stays newer than what it replaces
LEMMA GeracaoFica ==
  ASSUME Base, NEW f \in Fontes, Mover(f), cfg' = cfg, NEW e \in Fontes, Geracao(e)
  PROVE  Geracao(e)'
<1> SUFFICES ASSUME cfg.validade, cfg.loja = "gcs", cfg.trabalhadores = 1, pc'[e] = "guardar", lembrada'[Proc(e)] = guardado'.g
             PROVE  guardado'.v <= cabecalho'[e]
  BY MesmasFontes DEF Geracao
<1>a. Tipos /\ TiposDoSegredo /\ Proc(e) \in Processos /\ Proc(f) \in Processos
  BY DasFontes DEF Base, Tipos
<1>b. guardado.v \in Deslogada..emitida /\ guardado.g \in Nat /\ emitida \in Nat
      /\ \A q \in Processos : lembrada[q] \in 0..guardado.g
  BY <1>a DEF TiposDoSegredo
<1>1. CASE e = f
  <2>1. Renovar(f)
    BY <1>1, <1>a DEF Mover, Comecar, Obter, ObterSemErro, Usar, Produzir, SemCredencial, NaoObter, NaoRenovar, Guardar, Receber, Recusar,
       Falhar, Desistir, Aplicar, NaoDecodificar, Avancar, DepoisDaPagina, Entregar, Errar, Largar, Em, Tipos
  <2>2. cabecalho'[f] = emitida + 1 /\ guardado' = guardado
    BY <2>1, <1>1, <1>a DEF Renovar, Rodar, DepoisDeRodar, Em, Tipos, TiposDoSegredo, loja
  <2> QED BY <1>1, <2>2, <1>b DEF Deslogada
<1>2. CASE e # f /\ Proc(e) # Proc(f)
  <2>1. lembrada'[Proc(e)] = lembrada[Proc(e)] /\ cabecalho'[e] = cabecalho[e] /\ pc[e] = "guardar"
    BY <1>2, <1>a, SegredoDosOutros, PassoDoPc
  <2>2. CASE guardado' = guardado
    BY <2>1, <2>2 DEF Geracao
  <2>3. CASE guardado' # guardado
    <3>1. guardado'.g = guardado.g + 1
      BY <2>3, <1>a, SegredoTipado
    <3> QED BY <3>1, <2>1, <1>a, <1>b
  <2> QED BY <2>2, <2>3
<1>3. CASE e # f /\ Proc(e) = Proc(f)
  <2>1. pc[e] = "guardar" /\ pc[f] # "fim"
    BY <1>3, <1>a, PassoDoPc
  <2>2. f < e \/ e < f
    BY <1>3, <1>a, DasFontes DEF Tipos
  <2>3. (e < f /\ pc[f] = "fila") \/ (f < e /\ pc[f] = "fim")
    BY <2>1, <2>2, <1>3 DEF Base, EmFila
  <2>4. pc[f] = "fila" /\ e < f
    BY <2>1, <2>3
  <2>5. Comecar(f)
    BY <2>4 DEF Mover, Obter, SemCredencial, NaoObter, Renovar, NaoRenovar, Guardar, Receber, Recusar,
       Falhar, Desistir, Aplicar, NaoDecodificar, Avancar, Entregar, Errar, Largar, Ativa
  <2>6. guardado' = guardado /\ lembrada' = lembrada /\ cabecalho' = cabecalho
    BY <2>5 DEF Comecar, loja
  <2> QED BY <2>1, <2>6 DEF Geracao
<1> QED BY <1>1, <1>2, <1>3

--------------------------------------------------------------------------------
(* One walk after the other                                                    *)

\* while nothing was disturbed one walk is active, and one whose consumer has had enough
\* is handing over a row
Sozinha ==
  ~turvo =>
    /\ \A f, g \in Fontes : Ativa(f) /\ Ativa(g) => f = g
    /\ \A f \in Fontes : Ativa(f) /\ ~Vivo(f) => pc[f] = "drenar"

\* One walk stays the only active one while nothing was disturbed
LEMMA SozinhaFica ==
  ASSUME Base, Sozinha, NEW f \in Fontes, Mover(f), cfg' = cfg
  PROVE  Sozinha'
<1> SUFFICES ASSUME ~turvo'
             PROVE  /\ \A e, g \in Fontes : Ativa(e)' /\ Ativa(g)' => e = g
                    /\ \A e \in Fontes : Ativa(e)' /\ ~Vivo(e)' => pc'[e] = "drenar"
  BY MesmasFontes DEF Sozinha
<1>a. ~turvo /\ Tipos
  BY SegredoDosOutros DEF Base
<1>b. /\ \A e, g \in Fontes : Ativa(e) /\ Ativa(g) => e = g
      /\ \A e \in Fontes : Ativa(e) /\ ~Vivo(e) => pc[e] = "drenar"
  BY <1>a DEF Sozinha
<1>c. \A e \in Fontes : Proc(e) \in Processos /\ Proc(e)' = Proc(e)
  BY <1>a, DasFontes, MesmasFontes DEF Tipos
<1>1. CASE Comecar(f)
  <2>1. \A g \in Fontes : ~Ativa(g)
    BY <1>1 DEF Comecar
  <2>2. \A g \in Fontes : Ativa(g)' => g = f
    BY <2>1, <1>a, PassoDoPc DEF Ativa
  <2>3. Vivo(f)'
    BY <1>1, <1>c DEF Comecar, Vivo, leitura
  <2> QED BY <2>2, <2>3
<1>2. CASE ~Comecar(f)
  <2>1. Ativa(f)
    BY <1>2 DEF Mover, Obter, SemCredencial, NaoObter, Renovar, NaoRenovar, Guardar, Receber, Recusar,
       Falhar, Desistir, Aplicar, NaoDecodificar, Avancar, Entregar, Errar, Largar, Ativa
  <2>2. \A g \in Fontes : Ativa(g)' => Ativa(g)
    BY <2>1, <1>a, PassoDoPc DEF Ativa
  <2>3. \A g \in Fontes : Ativa(g)' => g = f
    BY <2>1, <2>2, <1>b
  <2>4. Ativa(f)' /\ ~Vivo(f)' => pc'[f] = "drenar"
    <3>1. CASE Largar(f) \/ Errar(f)
      BY <3>1, <1>a DEF Largar, Errar, Em, Ativa, Tipos
    <3>2. CASE Entregar(f)
      BY <3>2, <1>a DEF Entregar, Tipos
    <3>3. CASE ~Largar(f) /\ ~Errar(f) /\ ~Entregar(f)
      <4>1. Vivo(f) /\ consumidor' = consumidor
        BY <1>2, <3>3 DEF Mover, Receber, Recusar, Falhar, Desistir, Aplicar, NaoDecodificar, Avancar, leitura
      <4> QED BY <4>1, <1>c DEF Vivo
    <3> QED BY <3>1, <3>2, <3>3
  <2> QED BY <2>3, <2>4
<1> QED BY <1>1, <1>2

\* What a walk renewed is in the store before anybody else moves
Salva ==
  ~turvo /\ LendoLoja /\ ~cfg.ttl =>
    \A f \in Fontes :
      /\ pc[f] \in {"renovar", "guardar"} /\ cfg.loja = "gcs" => lembrada[Proc(f)] = guardado.g
      /\ cfg.validade => /\ pc[f] = "guardar" => cabecalho[f] = emitida
                         /\ rodada[f] # Nenhum /\ pc[f] # "guardar" => guardado.v >= rodada[f] \/ f \in naoSalvou

\* What is renewed is stored before anybody else moves
LEMMA SalvaFica ==
  ASSUME Base, Sozinha, Salva, \A e \in Fontes : Passagem(e), SementeNaoEnvenena,
         NEW f \in Fontes, Mover(f), cfg' = cfg
  PROVE  Salva'
<1> SUFFICES ASSUME ~turvo', LendoLoja, ~cfg.ttl, NEW e \in Fontes
             PROVE  /\ pc'[e] \in {"renovar", "guardar"} /\ cfg.loja = "gcs" => lembrada'[Proc(e)] = guardado'.g
                    /\ cfg.validade => /\ pc'[e] = "guardar" => cabecalho'[e] = emitida'
                                       /\ rodada'[e] # Nenhum /\ pc'[e] # "guardar" => guardado'.v >= rodada'[e] \/ e \in naoSalvou'
  BY MesmasFontes DEF Salva, LendoLoja
<1>a. ~turvo /\ Tipos /\ TiposDoSegredo /\ Proc(f) \in Processos /\ Proc(e) \in Processos
  BY SegredoDosOutros, DasFontes DEF Base, Tipos
<1>b. guardado.v \in Deslogada..emitida /\ guardado.g \in Nat /\ emitida \in Nat /\ rodada[e] \in Deslogada..emitida
      /\ cabecalho[f] \in Deslogada..emitida /\ rodada[f] \in Deslogada..emitida
  BY <1>a DEF TiposDoSegredo
<1>c. /\ pc[e] \in {"renovar", "guardar"} /\ cfg.loja = "gcs" => lembrada[Proc(e)] = guardado.g
      /\ cfg.validade => /\ pc[e] = "guardar" => cabecalho[e] = emitida
                         /\ rodada[e] # Nenhum /\ pc[e] # "guardar" => guardado.v >= rodada[e] \/ e \in naoSalvou
  BY <1>a DEF Salva
<1>d. naoSalvou \subseteq naoSalvou'
  BY <1>a, SegredoDosOutros
<1>1. CASE Guardar(f)
  <2>1. cfg.loja = "gcs" => lembrada[Proc(f)] = guardado.g
    BY <1>1, <1>a DEF Guardar, Salva
  <2>2. (guardado' = [v |-> cabecalho[f], g |-> guardado.g + 1] \/ (guardado' = guardado /\ f \in naoSalvou')) /\ pc'[f] = "pedir" /\ pc[f] = "guardar"
        /\ UNCHANGED <<cabecalho, rodada>>
    BY <1>1, <2>1, <1>a DEF Guardar, PodeGravar, Em, Tipos
  <2>3. e # f => ~Ativa(e) /\ pc'[e] = pc[e]
    BY <1>1, <1>a, PassoDoPc DEF Sozinha, Guardar, Ativa
  <2>4. cfg.validade /\ guardado' # guardado => guardado'.v = emitida
    BY <2>2, <1>a DEF Salva, Passagem
  <2>5. pc'[e] \notin {"renovar", "guardar"}
    BY <2>2, <2>3 DEF Ativa
  <2>6. cfg.validade /\ rodada'[e] # Nenhum => guardado'.v >= rodada'[e] \/ e \in naoSalvou'
    <3>1. cfg.validade => (guardado'.v = emitida => guardado'.v >= rodada'[e])
      BY <2>2, <1>b DEF Deslogada
    <3>2. guardado' = guardado => f \in naoSalvou'
      BY <2>2, <1>b
    <3>3. cfg.validade /\ rodada[e] # Nenhum /\ guardado' = guardado /\ e # f => guardado.v >= rodada[e] \/ e \in naoSalvou
      BY <1>c, <2>3 DEF Ativa
    <3> QED BY <3>1, <3>2, <3>3, <2>2, <2>4, <1>d
  <2> QED BY <2>5, <2>6
<1>2. CASE Renovar(f)
  <2>1. guardado' = guardado /\ lembrada' = lembrada /\ pc[f] = "renovar"
    BY <1>2 DEF Renovar, loja
  <2>2. CASE e = f
    <3>1. pc'[f] = "guardar" => (cfg.validade => cabecalho'[f] = emitida')
      BY <1>2, <1>a DEF Renovar, Rodar, Emitir, DepoisDeRodar, Em, Tipos, TiposDoSegredo
    <3>2. rodada'[f] # Nenhum /\ pc'[f] # "guardar" => rodada'[f] = Deslogada
      <4>1. rodada[f] = Nenhum
        BY <2>1 DEF Passagem
      <4>2. cfg.loja # "nenhuma"
        BY DEF LendoLoja
      <4> QED BY <1>2, <4>1, <4>2, <1>a DEF Renovar, Rodar, DepoisDeRodar, Em, Tipos, TiposDoSegredo
    <3>3. guardado.v >= Deslogada
      BY <1>b DEF Deslogada
    <3> QED BY <2>1, <2>2, <3>1, <3>2, <3>3, <1>c, <1>d
  <2>3. CASE e # f
    <3>1. ~Ativa(e) /\ pc'[e] = pc[e] /\ rodada'[e] = rodada[e]
      BY <1>2, <2>3, <1>a, PassoDoPc, SegredoDosOutros DEF Sozinha, Renovar, Ativa
    <3> QED BY <3>1, <2>1, <1>c, <1>d DEF Ativa
  <2> QED BY <2>2, <2>3
<1>3. CASE Obter(f)
  <2>1. cfg.loja = "gcs" => lembrada'[Proc(f)] = guardado.g
    BY <1>3, <1>a DEF Obter, ObterSemErro, Lembrar, TiposDoSegredo
  <2>2. guardado' = guardado /\ rodada' = rodada /\ pc[f] = "obter" /\ pc'[f] \in {"renovar", "pedir"}
    BY <1>3, <1>a DEF Obter, ObterSemErro, Usar, Produzir, Em, Tipos
  <2>3. e # f => ~Ativa(e) /\ pc'[e] = pc[e]
    BY <2>2, <1>a, PassoDoPc DEF Sozinha, Ativa
  <2>4. e = f => rodada[e] = Nenhum
    BY <2>2 DEF Passagem
  <2> QED BY <2>1, <2>2, <2>3, <2>4, <1>c, <1>d DEF Ativa
<1>4. CASE ~Guardar(f) /\ ~Renovar(f) /\ ~Obter(f)
  <2>1. guardado' = guardado /\ rodada' = rodada
    BY <1>4 DEF Mover, Comecar, SemCredencial, NaoObter, NaoRenovar, Receber, Recusar,
       Falhar, Desistir, Aplicar, NaoDecodificar, Avancar, Entregar, Errar, Largar, credenciais, loja
  <2>2. lembrada' = lembrada
    BY <1>4, <1>a, SegredoDosOutros DEF NaoObter
  <2>3. pc'[f] \notin {"renovar", "guardar"}
    BY <1>4, <1>a DEF Mover, Comecar, SemCredencial, NaoObter, NaoRenovar, Receber, Recusar,
       Falhar, Desistir, Aplicar, NaoDecodificar, Avancar, DepoisDaPagina, Entregar, Errar, Largar, Em, Tipos
  <2>4. CASE e = f
    <3>1. pc[f] = "guardar" => Largar(f)
      BY <1>4 DEF Mover, Comecar, SemCredencial, NaoObter, NaoRenovar, Receber, Recusar,
         Falhar, Desistir, Aplicar, NaoDecodificar, Avancar, Entregar, Errar
    <3>2. pc[f] # "guardar"
      BY <3>1, <1>a DEF Largar, Sozinha, Vivo
    <3> QED BY <2>1, <2>2, <2>3, <2>4, <3>2, <1>c, <1>d
  <2>5. CASE e # f
    <3>1. pc'[e] = pc[e] /\ cabecalho'[e] = cabecalho[e]
      BY <2>5, <1>a, PassoDoPc, SegredoDosOutros
    <3>2. pc[e] = "guardar" => emitida' = emitida
      <4>1. CASE Comecar(f)
        BY <4>1 DEF Comecar, provedor
      <4>2. CASE ~Comecar(f)
        <5>1. Ativa(f)
          BY <4>2 DEF Mover, Obter, SemCredencial, NaoObter, Renovar, NaoRenovar, Guardar, Receber, Recusar,
             Falhar, Desistir, Aplicar, NaoDecodificar, Avancar, Entregar, Errar, Largar, Ativa
        <5> QED BY <5>1, <2>5, <1>a DEF Sozinha, Ativa
      <4> QED BY <4>1, <4>2
    <3> QED BY <2>1, <2>2, <3>1, <3>2, <1>c, <1>d
  <2> QED BY <2>4, <2>5
<1> QED BY <1>1, <1>2, <1>3, <1>4
--------------------------------------------------------------------------------
(* Logins                                                                      *)

UmLogin ==
  cfg.ttl /\ falhas = 0 => \A p \in Processos : logins[p] <= 1 /\ (logins[p] > 0 => cache[p] # Nenhum)

\* A process logs in once while its token lives and nothing fails
LEMMA UmLoginFica ==
  ASSUME Base, UmLogin, NEW f \in Fontes, Mover(f), cfg' = cfg
  PROVE  UmLogin'
<1> SUFFICES ASSUME cfg.ttl, falhas' = 0, NEW p \in Processos
             PROVE  logins'[p] <= 1 /\ (logins'[p] > 0 => cache'[p] # Nenhum)
  BY MesmasFontes DEF UmLogin
<1>a. Tipos /\ TiposDoSegredo /\ Proc(f) \in Processos
  BY DasFontes DEF Base, Tipos
<1>b. falhas = 0
  BY <1>a, PassoDoPc, FalhasNaturais DEF Tipos
<1>c. logins[p] \in Nat /\ logins[p] <= 1 /\ (logins[p] > 0 => cache[p] # Nenhum)
  BY <1>a, <1>b DEF UmLogin, TiposDoSegredo
<1>1. CASE Obter(f) /\ p = Proc(f)
  <2>1. CASE cache[p] # Nenhum
    <3>1. cache' = [cache EXCEPT ![p] = cache[p]] /\ logins' = logins
      BY <1>1, <2>1 DEF Obter, ObterSemErro, Usar
    <3> QED BY <3>1, <1>c, <1>a DEF TiposDoSegredo
  <2>2. CASE cache[p] = Nenhum
    <3>1. logins[p] = 0
      BY <2>2, <1>c
    <3>2. CASE logins' = logins
      BY <3>1, <3>2
    <3>3. CASE logins' # logins
      <4>1. cache' = [cache EXCEPT ![p] = emitida + 1] /\ logins' = [logins EXCEPT ![p] = @ + 1]
        BY <1>1, <3>3 DEF Obter, ObterSemErro, Usar, Produzir
      <4>2. emitida + 1 # Nenhum
        BY <1>a DEF TiposDoSegredo, Nenhum
      <4> QED BY <4>1, <4>2, <3>1, <1>a DEF TiposDoSegredo
    <3> QED BY <3>2, <3>3
  <2> QED BY <2>1, <2>2
<1>2. CASE p # Proc(f)
  BY <1>2, <1>a, <1>c, SegredoDosOutros
<1>3. CASE ~Obter(f)
  <2>1. UNCHANGED <<logins, cache>>
    BY <1>3 DEF Mover, Comecar, SemCredencial, NaoObter, Renovar, NaoRenovar, Guardar, Receber, Recusar,
       Falhar, Desistir, Aplicar, NaoDecodificar, Avancar, Entregar, Errar, Largar, credenciais, loja
  <2> QED BY <2>1, <1>c
<1> QED BY <1>1, <1>2, <1>3

--------------------------------------------------------------------------------
(* Values the provider accepts                                                 *)

\* nothing reissued is waiting, but for a page that was just received
SemJarro(f) == pc[f] \notin {"aplicar", "errar", "fim"} => jarro[f] = Nenhum
NaMao(f) == IF jarro[f] = Nenhum THEN cabecalho[f] ELSE jarro[f]
Aceita(f) ==
  pc[f] \in {"renovar", "guardar", "pedir", "aplicar", "drenar"} /\ cfg.cred # "nenhuma" => NaMao(f) \in boas

\* What a page reissued is taken up before the next request
LEMMA SemJarroFica ==
  ASSUME Base, NEW f \in Fontes, Mover(f), cfg' = cfg, SemJarro(f)
  PROVE  SemJarro(f)'
<1>a. Tipos /\ TiposDoSegredo
  BY DEF Base, Tipos
<1>1. CASE Aplicar(f)
  BY <1>1, <1>a DEF Aplicar, AplicarRotacao, SemJarro, TiposDoSegredo
<1>2. CASE pc[f] \in {"aplicar", "errar", "fim"} /\ ~Aplicar(f)
  <2>1. pc'[f] = "fim"
    BY <1>2, <1>a DEF Mover, Comecar, Obter, SemCredencial, NaoObter, Renovar, NaoRenovar, Guardar, Receber, Recusar,
       Falhar, Desistir, NaoDecodificar, Avancar, Entregar, Errar, Largar, Ativa, Em, Tipos
  <2> QED BY <2>1 DEF SemJarro
<1>3. CASE Receber(f)
  BY <1>3, <1>a DEF Receber, Em, SemJarro, Tipos
<1>4. CASE pc[f] \notin {"aplicar", "errar", "fim"} /\ ~Aplicar(f) /\ ~Receber(f)
  <2>1. jarro' = jarro
    BY <1>4 DEF Mover, Comecar, Obter, SemCredencial, NaoObter, Renovar, NaoRenovar, Guardar, Recusar,
       Falhar, Desistir, NaoDecodificar, Avancar, Entregar, Errar, Largar, credenciais
  <2> QED BY <2>1, <1>4 DEF SemJarro
<1> QED BY <1>1, <1>2, <1>3, <1>4

\* an accepted value is replaced by an accepted one
LEMMA AceitaFica ==
  ASSUME Base, NEW f \in Fontes, Mover(f), cfg' = cfg, SemJarro(f), Aceita(f), ~turvo',
         Obter(f) => cabecalho'[f] \in boas'
  PROVE  Aceita(f)' /\ recusadas' = recusadas
<1>a. Tipos /\ TiposDoSegredo
  BY DEF Base, Tipos
<1>b. emitida + 1 # Nenhum
  BY <1>a DEF TiposDoSegredo, Nenhum
<1>1. CASE Comecar(f) \/ SemCredencial(f)
  BY <1>1, <1>a DEF Comecar, SemCredencial, Em, Aceita, credenciais, Tipos
<1>2. CASE Obter(f)
  <2>1. jarro' = jarro /\ pc[f] = "obter" /\ recusadas' = recusadas
    BY <1>2 DEF Obter
  <2>2. jarro'[f] = Nenhum /\ cabecalho'[f] \in boas'
    BY <2>1, <1>2 DEF SemJarro
  <2> QED BY <2>1, <2>2 DEF Aceita, NaMao
<1>3. CASE Renovar(f)
  <2>1. pc[f] = "renovar" /\ jarro' = jarro /\ jarro[f] = Nenhum
    BY <1>3 DEF Renovar, SemJarro
  <2>2. Autorizada(f)
    BY <2>1 DEF Aceita, NaMao, Autorizada
  <2>3. recusadas' = recusadas
    BY <1>3, <2>2 DEF Renovar
  <2>4. CASE cfg.gira
    <3>1. cabecalho'[f] = emitida + 1 /\ emitida + 1 \in boas'
      BY <1>3, <2>2, <2>4, <1>a DEF Renovar, Rodar, Emitir, TiposDoSegredo
    <3> QED BY <2>1, <2>3, <3>1 DEF Aceita, NaMao
  <2>5. CASE ~cfg.gira
    <3>1. UNCHANGED <<cabecalho, boas>>
      BY <1>3, <2>2, <2>5 DEF Renovar, provedor
    <3> QED BY <2>1, <2>3, <3>1 DEF Aceita, NaMao
  <2> QED BY <2>4, <2>5
<1>4. CASE Guardar(f)
  BY <1>4 DEF Guardar, provedor, Aceita, NaMao
<1>5. CASE Receber(f)
  <2>1. recusadas' = recusadas /\ cabecalho' = cabecalho /\ pc[f] = "pedir"
    BY <1>5 DEF Receber
  <2>2. CASE cfg.giraPagina /\ cfg.cred # "nenhuma"
    <3>1. jarro'[f] = emitida + 1 /\ emitida + 1 \in boas'
      BY <1>5, <2>2, <1>a DEF Receber, Emitir, Por, TiposDoSegredo
    <3> QED BY <2>1, <3>1, <1>b DEF Aceita, NaMao
  <2>3. CASE ~(cfg.giraPagina /\ cfg.cred # "nenhuma")
    <3>1. UNCHANGED <<jarro, boas>>
      BY <1>5, <2>3 DEF Receber, provedor
    <3> QED BY <2>1, <3>1 DEF Aceita, NaMao
  <2> QED BY <2>2, <2>3
<1>6. CASE Recusar(f)
  <2>1. pc[f] = "pedir" /\ pc'[f] = "errar"
    BY <1>6, <1>a DEF Recusar, Em, Tipos
  <2>2. Autorizada(f)
    BY <2>1 DEF Aceita, NaMao, Autorizada, SemJarro
  <2> QED BY <1>6, <2>1, <2>2 DEF Recusar, Aceita
<1>7. CASE Falhar(f)
  <2>1. UNCHANGED <<boas, cabecalho, jarro, recusadas>> /\ pc[f] = "pedir"
    BY <1>7 DEF Falhar, provedor
  <2> QED BY <2>1 DEF Aceita, NaMao
<1>8. CASE Aplicar(f)
  <2>1. cabecalho'[f] = NaMao(f) /\ jarro'[f] = Nenhum /\ pc[f] = "aplicar" /\ boas' = boas /\ recusadas' = recusadas
    BY <1>8, <1>a DEF Aplicar, AplicarRotacao, NaMao, TiposDoSegredo, provedor
  <2> QED BY <2>1 DEF Aceita, NaMao
<1>9. CASE Desistir(f) \/ NaoDecodificar(f) \/ Avancar(f) \/ Entregar(f) \/ Errar(f) \/ Largar(f)
  <2>1. UNCHANGED credenciais /\ pc[f] # "fila"
    BY <1>9 DEF Desistir, NaoDecodificar, Avancar, Entregar, Errar, Largar, Ativa
  <2>2. pc'[f] \in {"errar", "fim"} \/ pc[f] \in {"drenar"}
    BY <1>9, <1>a DEF Desistir, NaoDecodificar, Avancar, Entregar, Errar, Largar, Em, Tipos
  <2> QED BY <2>1, <2>2 DEF Aceita, NaMao, credenciais, provedor
<1>10. CASE NaoObter(f) \/ NaoRenovar(f)
  BY <1>10 DEF NaoObter, NaoRenovar
<1> QED BY <1>1, <1>2, <1>3, <1>4, <1>5, <1>6, <1>7, <1>8, <1>9, <1>10 DEF Mover

\* before the first walk has its credential nothing was issued, stored or kept
Intocado ==
  (\A f \in Fontes : pc[f] \in {"fila", "obter"}) =>
    /\ boas = (IF cfg.morta THEN {} ELSE {Semente}) /\ guardado.v = Nenhum
    /\ \A p \in Processos : cache[p] = Nenhum

\* Until a walk has its credential nothing is issued, stored or kept
LEMMA IntocadoFica ==
  ASSUME Base, Intocado, NEW f \in Fontes, Mover(f), cfg' = cfg
  PROVE  Intocado'
<1> SUFFICES ASSUME \A e \in Fontes : pc'[e] \in {"fila", "obter"}
             PROVE  /\ boas' = (IF cfg.morta THEN {} ELSE {Semente}) /\ guardado'.v = Nenhum
                    /\ \A p \in Processos : cache'[p] = Nenhum
  BY MesmasFontes DEF Intocado
<1>a. Tipos
  BY DEF Base
<1>1. Comecar(f)
  BY <1>a DEF Mover, Obter, ObterSemErro, Usar, Produzir, SemCredencial, NaoObter, Renovar, DepoisDeRodar, NaoRenovar, Guardar, Receber, Recusar,
     Falhar, Desistir, Aplicar, NaoDecodificar, Avancar, DepoisDaPagina, Entregar, Errar, Largar, Em, Tipos
<1>2. UNCHANGED <<boas, guardado, cache>> /\ pc[f] = "fila"
  BY <1>1 DEF Comecar, provedor, loja
<1>3. \A e \in Fontes : pc[e] \in {"fila", "obter"}
  BY <1>2, <1>a, PassoDoPc
<1> QED BY <1>2, <1>3 DEF Intocado

\* what the store holds is accepted, or the seed is
DaLojaServe ==
  (\A f \in Fontes : pc[f] # "guardar") =>
    IF guardado.v = Nenhum THEN cfg.cred = "valor" => Semente \in boas ELSE guardado.v \in boas
Herda ==
  HerdaDaLoja /\ ~cfg.morta /\ ~turvo /\ naoSalvou = {} =>
    recusadas = {} /\ DaLojaServe /\ \A f \in Fontes : Aceita(f)
NaoHerda ==
  ~cfg.morta /\ ~turvo =>
    /\ \A f \in Fontes : (\A g \in Fontes \ {f} : pc[g] = "fila") => Aceita(f)
    /\ \A f \in recusadas : \E g \in Fontes \ {f} : pc[g] = "fim"

\* With the store to inherit from, what is held stays accepted
LEMMA HerdaFica ==
  ASSUME Base, Sozinha, Salva, \A e \in Fontes : Passagem(e) /\ SemJarro(e), Herda,
         NEW f \in Fontes, Mover(f), cfg' = cfg
  PROVE  Herda'
<1> SUFFICES ASSUME HerdaDaLoja, ~cfg.morta, ~turvo', naoSalvou' = {}
             PROVE  recusadas' = {} /\ DaLojaServe' /\ \A e \in Fontes : Aceita(e)'
  BY MesmasFontes DEF Herda, HerdaDaLoja, LendoLoja
<1>a. ~turvo /\ naoSalvou = {} /\ Tipos /\ TiposDoSegredo /\ Proc(f) \in Processos /\ LendoLoja /\ ~cfg.ttl /\ ~cfg.giraPagina
  BY SegredoDosOutros, DasFontes DEF Base, Tipos, HerdaDaLoja
<1>b. recusadas = {} /\ DaLojaServe /\ \A e \in Fontes : Aceita(e)
  BY <1>a DEF Herda
<1>c. \A e \in Fontes \ {f} : pc'[e] = pc[e] /\ (pc[f] # "fila" \/ Comecar(f) => ~Ativa(e))
  <2>1. Comecar(f) => \A e \in Fontes : ~Ativa(e)
    BY DEF Comecar
  <2>2. pc[f] # "fila" => Ativa(f)
    BY <1>a, PassoDoPc DEF Ativa
  <2> QED BY <2>1, <2>2, <1>a, PassoDoPc DEF Sozinha
<1>d. pc[f] # "fila" \/ Comecar(f)
  BY DEF Mover, Obter, SemCredencial, NaoObter, Renovar, NaoRenovar, Guardar, Receber, Recusar,
     Falhar, Desistir, Aplicar, NaoDecodificar, Avancar, Entregar, Errar, Largar, Ativa
<1>1. Obter(f) => cabecalho'[f] \in boas'
  <2> SUFFICES ASSUME Obter(f) PROVE cabecalho'[f] \in boas'
    OBVIOUS
  <2>1. \A e \in Fontes : pc[e] # "guardar"
    BY <1>c DEF Obter, Ativa
  <2>2. CASE guardado.v # Nenhum
    <3>1. Usar(f, guardado.v) /\ UNCHANGED provedor
      BY <2>2, <1>a DEF Obter, ObterSemErro
    <3> QED BY <3>1, <2>1, <2>2, <1>a, <1>b DEF DaLojaServe, Usar, provedor, TiposDoSegredo
  <2>3. CASE guardado.v = Nenhum
    <3>1. Produzir(f)
      BY <2>3, <1>a DEF Obter, ObterSemErro
    <3>2. CASE cfg.cred = "valor"
      BY <3>1, <3>2, <2>1, <2>3, <1>a, <1>b DEF DaLojaServe, Produzir, Usar, provedor, TiposDoSegredo
    <3>3. CASE cfg.cred # "valor"
      BY <3>1, <3>3, <1>a DEF Produzir, Usar, TiposDoSegredo
    <3> QED BY <3>2, <3>3
  <2> QED BY <2>2, <2>3
<1>2. Aceita(f)' /\ recusadas' = recusadas
  BY <1>1, <1>b, AceitaFica
<1>3. \A e \in Fontes \ {f} : Aceita(e)'
  BY <1>c, <1>d DEF Aceita, Ativa
<1>4. DaLojaServe'
  <2> SUFFICES ASSUME \A e \in Fontes : pc'[e] # "guardar"
               PROVE  IF guardado'.v = Nenhum THEN cfg.cred = "valor" => Semente \in boas' ELSE guardado'.v \in boas'
    BY MesmasFontes DEF DaLojaServe
  <2>1. CASE Guardar(f)
    <3>1. pc[f] = "guardar" /\ PodeGravar(Proc(f))
      BY <2>1, <1>a DEF Guardar, PodeGravar, Salva
    <3>2. guardado'.v = cabecalho[f] /\ boas' = boas
      BY <2>1, <3>1, <1>a DEF Guardar, provedor
    <3>3. cabecalho[f] # Nenhum /\ cabecalho[f] \in boas
      BY <3>1, <1>b DEF Passagem, SemJarro, Aceita, NaMao
    <3> QED BY <3>2, <3>3
  <2>2. CASE ~Guardar(f)
    <3>1. guardado' = guardado
      BY <2>2, <1>a, SegredoDosOutros
    <3>2. pc[f] # "guardar"
      <4>1. pc[f] = "guardar" => Largar(f)
        BY <2>2 DEF Mover, Comecar, Obter, SemCredencial, NaoObter, Renovar, NaoRenovar, Receber, Recusar,
           Falhar, Desistir, Aplicar, NaoDecodificar, Avancar, Entregar, Errar
      <4> QED BY <4>1, <1>a DEF Largar, Sozinha, Vivo
    <3>3. \A e \in Fontes : pc[e] # "guardar"
      BY <3>2, <1>c
    <3>4. boas \subseteq boas'
      <4>1. CASE Obter(f)
        BY <4>1 DEF Obter, ObterSemErro, Produzir, provedor
      <4>2. CASE Renovar(f)
        <5>1. Autorizada(f)
          BY <4>2, <1>b DEF Renovar, Autorizada, Aceita, NaMao, SemJarro
        <5>2. ~cfg.gira
          <6>1. cfg.gira => pc'[f] = "guardar"
            BY <4>2, <5>1, <1>a DEF Renovar, DepoisDeRodar, Em, Tipos, LendoLoja
          <6> QED BY <6>1
        <5> QED BY <4>2, <5>1, <5>2 DEF Renovar, provedor
      <4>3. CASE ~Obter(f) /\ ~Renovar(f)
        BY <4>3, <2>2, <1>a DEF Mover, Comecar, SemCredencial, NaoObter, NaoRenovar, Receber, Recusar,
           Falhar, Desistir, Aplicar, NaoDecodificar, Avancar, Entregar, Errar, Largar, credenciais, provedor
      <4> QED BY <4>1, <4>2, <4>3
    <3> QED BY <3>1, <3>3, <3>4, <1>b DEF DaLojaServe
  <2> QED BY <2>1, <2>2
<1> QED BY <1>2, <1>3, <1>4, <1>b

\* Without it, only a walk that follows another can be refused
LEMMA NaoHerdaFica ==
  ASSUME Base, Sozinha, Intocado, \A e \in Fontes : SemJarro(e), NaoHerda,
         NEW f \in Fontes, Mover(f), cfg' = cfg
  PROVE  NaoHerda'
<1> SUFFICES ASSUME ~cfg.morta, ~turvo'
             PROVE  /\ \A e \in Fontes : (\A g \in Fontes \ {e} : pc'[g] = "fila") => Aceita(e)'
                    /\ \A e \in recusadas' : \E g \in Fontes \ {e} : pc'[g] = "fim"
  BY MesmasFontes DEF NaoHerda
<1>a. ~turvo /\ Tipos /\ TiposDoSegredo /\ Proc(f) \in Processos
  BY SegredoDosOutros, DasFontes DEF Base, Tipos
<1>b. /\ \A e \in Fontes : (\A g \in Fontes \ {e} : pc[g] = "fila") => Aceita(e)
      /\ \A e \in recusadas : \E g \in Fontes \ {e} : pc[g] = "fim"
  BY <1>a DEF NaoHerda
<1>c. (\A e \in Fontes \ {f} : pc'[e] = pc[e]) /\ pc'[f] # "fila" /\ pc[f] # "fim"
  BY <1>a, PassoDoPc
<1>d. \A e \in recusadas : \E g \in Fontes \ {e} : pc'[g] = "fim"
  BY <1>b, <1>c
<1>1. CASE \A g \in Fontes \ {f} : pc[g] = "fila"
  <2>1. Obter(f) => cabecalho'[f] \in boas'
    <3> SUFFICES ASSUME Obter(f) PROVE cabecalho'[f] \in boas'
      OBVIOUS
    <3>1. boas = {Semente} /\ guardado.v = Nenhum /\ cache[Proc(f)] = Nenhum
      BY <1>1, <1>a DEF Obter, Intocado
    <3>2. Produzir(f)
      BY <3>1 DEF Obter, ObterSemErro
    <3> QED BY <3>1, <3>2, <1>a DEF Produzir, Usar, provedor, TiposDoSegredo
  <2>2. Aceita(f)' /\ recusadas' = recusadas
    BY <2>1, <1>1, <1>b, AceitaFica
  <2>3. \A e \in Fontes : (\A g \in Fontes \ {e} : pc'[g] = "fila") => Aceita(e)'
    BY <2>2, <1>c
  <2> QED BY <2>2, <2>3, <1>d
<1>2. CASE \E g \in Fontes \ {f} : pc[g] # "fila"
  <2> PICK g \in Fontes \ {f} : pc[g] # "fila"
    BY <1>2
  <2>1. CASE Comecar(f)
    <3>1. recusadas' = recusadas
      BY <2>1 DEF Comecar
    <3>2. \A e \in Fontes : ~(\A h \in Fontes \ {e} : pc'[h] = "fila")
      BY <1>c
    <3> QED BY <3>1, <3>2, <1>c, <1>d
  <2>2. CASE ~Comecar(f)
    <3>1. Ativa(f)
      BY <2>2 DEF Mover, Obter, SemCredencial, NaoObter, Renovar, NaoRenovar, Guardar, Receber, Recusar,
         Falhar, Desistir, Aplicar, NaoDecodificar, Avancar, Entregar, Errar, Largar, Ativa
    <3>2. pc'[g] = "fim"
      BY <3>1, <1>a, <1>c DEF Sozinha, Ativa
    <3>3. recusadas' \subseteq recusadas \cup {f}
      BY <2>2 DEF Mover, Obter, SemCredencial, NaoObter, Renovar, NaoRenovar, Guardar, Receber, Recusar,
         Falhar, Desistir, Aplicar, NaoDecodificar, Avancar, Entregar, Errar, Largar, credenciais
    <3>4. \A e \in Fontes : ~(\A h \in Fontes \ {e} : pc'[h] = "fila")
      BY <3>2, <1>c
    <3> QED BY <3>2, <3>3, <3>4, <1>d
  <2> QED BY <2>1, <2>2
<1> QED BY <1>1, <1>2
--------------------------------------------------------------------------------
(* The invariant of the credential                                             *)

Segredo ==
  /\ \A f \in Fontes : Passagem(f) /\ Geracao(f) /\ SemJarro(f)
  /\ SementeNaoEnvenena /\ Sozinha /\ Salva /\ UmLogin /\ Intocado /\ Herda /\ NaoHerda

\* Everything that happens before the first walk begins is that cfg is chosen
LEMMA SegredoInicial == Init => Segredo
<1> SUFFICES ASSUME Init PROVE Segredo
  OBVIOUS
<1>1. \A f \in Fontes : pc[f] = "fila" /\ rodada[f] = Nenhum /\ jarro[f] = Nenhum
  BY DEF Init, IniciarCredencial
<1>2. guardado.v = Nenhum /\ recusadas = {} /\ boas = (IF cfg.morta THEN {} ELSE {Semente})
      /\ \A p \in Processos : cache[p] = Nenhum /\ logins[p] = 0
  BY DEF Init, IniciarCredencial
<1>3. \A f \in Fontes : Passagem(f) /\ Geracao(f) /\ SemJarro(f) /\ Aceita(f) /\ ~Ativa(f)
  BY <1>1 DEF Passagem, Geracao, SemJarro, Aceita, Ativa
<1>4. SementeNaoEnvenena
  BY <1>2 DEF SementeNaoEnvenena, Nenhum, Deslogada
<1> QED BY <1>1, <1>2, <1>3, <1>4 DEF Segredo, Sozinha, Salva, UmLogin, Intocado, Herda, DaLojaServe, NaoHerda

\* a session that is over is not written where ExpiresAt tells it
LEMMA SementeFica ==
  ASSUME Base, SementeNaoEnvenena, NEW f \in Fontes, Passagem(f), Mover(f), cfg' = cfg
  PROVE  SementeNaoEnvenena'
<1>1. CASE guardado' = guardado
  BY <1>1 DEF SementeNaoEnvenena
<1>2. CASE Guardar(f)
  <2>1. guardado' = guardado \/ guardado'.v = cabecalho[f]
    BY <1>2 DEF Guardar
  <2>2. cfg.validade => cabecalho[f] # Deslogada
    BY <1>2 DEF Guardar, Passagem, Deslogada
  <2> QED BY <2>1, <2>2 DEF SementeNaoEnvenena
<1> QED BY <1>1, <1>2, SegredoDosOutros DEF Base

\* Every step keeps the invariant of the credential
LEMMA SegredoFica == Base /\ Segredo /\ [Next]_vars => Segredo'
<1> SUFFICES ASSUME Base, Segredo, [Next]_vars PROVE Segredo'
  OBVIOUS
<1>1. CASE \E f \in Fontes : Caminhar(f)
  <2> PICK f \in Fontes : Caminhar(f)
    BY <1>1
  <2>1. Mover(f) /\ cfg' = cfg
    BY Passos
  <2>2. ASSUME NEW e \in Fontes PROVE Passagem(e)' /\ SemJarro(e)'
    <3>1. CASE e = f
      BY <2>1, <3>1, PassagemFica, SemJarroFica DEF Segredo
    <3>2. CASE e # f
      <4>1. pc'[e] = pc[e] /\ cabecalho'[e] = cabecalho[e] /\ rodada'[e] = rodada[e] /\ jarro'[e] = jarro[e]
        BY <2>1, <3>2, PassoDoPc, SegredoDosOutros DEF Base
      <4> QED BY <4>1, <2>1 DEF Segredo, Passagem, SemJarro
    <3> QED BY <3>1, <3>2
  <2>3. \A e \in Fontes : Geracao(e)'
    BY <2>1, GeracaoFica DEF Segredo
  <2>4. SementeNaoEnvenena' /\ Sozinha' /\ Salva'
    BY <2>1, SementeFica, SozinhaFica, SalvaFica DEF Segredo
  <2>5. UmLogin' /\ Intocado'
    BY <2>1, UmLoginFica, IntocadoFica DEF Segredo
  <2>6. Herda' /\ NaoHerda'
    BY <2>1, HerdaFica, NaoHerdaFica DEF Segredo
  <2> QED BY <2>1, <2>2, <2>3, <2>4, <2>5, <2>6, MesmasFontes DEF Segredo
<1>2. CASE \E p \in Processos : Fechar(p) \/ Cair(p) \/ (Vencer(p) /\ UNCHANGED <<andamento, leitura>>)
  <2> PICK p \in Processos : Fechar(p) \/ Cair(p) \/ (Vencer(p) /\ UNCHANGED <<andamento, leitura>>)
    BY <1>2
  <2>a. cfg' = cfg /\ \A e \in Fontes : pc'[e] = pc[e] \/ pc'[e] = "fim"
    BY DoProcesso
  <2>b. Fontes' = Fontes /\ Processos' = Processos /\ \A e \in Fontes : Proc(e)' = Proc(e)
    BY <2>a, MesmasFontes
  <2>c. UNCHANGED <<cabecalho, jarro, rodada, lembrada, guardado, boas, emitida, recusadas, logins, naoSalvou>>
    BY DEF Fechar, Cair, Vencer, credenciais, loja, provedor
  <2>d. ~turvo' => ~turvo /\ Fechar(p)
    BY DEF Fechar, Cair, Vencer, credenciais
  <2>1. \A e \in Fontes : Passagem(e)' /\ Geracao(e)' /\ SemJarro(e)'
    BY <2>a, <2>b, <2>c DEF Segredo, Passagem, Geracao, SemJarro
  <2>2. SementeNaoEnvenena'
    BY <2>a, <2>c DEF Segredo, SementeNaoEnvenena
  <2>3. Sozinha'
    <3> SUFFICES ASSUME ~turvo', NEW e \in Fontes, Ativa(e)'
                 PROVE  (\A g \in Fontes : Ativa(g)' => e = g) /\ (~Vivo(e)' => pc'[e] = "drenar")
      BY <2>b DEF Sozinha
    <3>1. pc' = pc /\ consumidor' = Por(consumidor, p, "fim")
          /\ \A f \in DaOrigem(p) : pc[f] = "fim" \/ pc[f] = "fila"
      BY <2>d DEF Fechar
    <3>2. Proc(e) # p
      BY <3>1 DEF Ativa, DaOrigem
    <3>3. Vivo(e)' = Vivo(e)
      BY <3>1, <3>2, <2>b, DasFontes DEF Vivo, Por, Base, Tipos, TiposDaLeitura
    <3> QED BY <3>1, <3>3, <2>d DEF Ativa, Segredo, Sozinha
  <2>4. Salva'
    <3>1. ~turvo' => ~turvo /\ pc' = pc
      BY <2>d DEF Fechar
    <3> QED BY <3>1, <2>a, <2>b, <2>c DEF Segredo, Salva, LendoLoja
  <2>5. UmLogin'
    <3> SUFFICES ASSUME cfg.ttl, falhas' = 0 PROVE \A q \in Processos : logins'[q] <= 1 /\ (logins'[q] > 0 => cache'[q] # Nenhum)
      BY <2>a, <2>b DEF UmLogin
    <3>1. ~Falha
      BY FalhasNaturais DEF Falha, Base, Tipos
    <3>2. cache' = cache /\ falhas' = falhas
      BY <3>1 DEF Fechar, Cair, Vencer, credenciais, loja
    <3> QED BY <3>2, <2>c DEF Segredo, UmLogin
  <2>6. Intocado'
    <3> SUFFICES ASSUME \A e \in Fontes : pc'[e] \in {"fila", "obter"}
                 PROVE  /\ boas' = (IF cfg.morta THEN {} ELSE {Semente}) /\ guardado'.v = Nenhum
                        /\ \A q \in Processos : cache'[q] = Nenhum
      BY <2>a, <2>b DEF Intocado
    <3>1. \A e \in Fontes : pc[e] \in {"fila", "obter"}
      BY <2>a
    <3>2. boas = (IF cfg.morta THEN {} ELSE {Semente}) /\ guardado.v = Nenhum /\ \A q \in Processos : cache[q] = Nenhum
      BY <3>1 DEF Segredo, Intocado
    <3>3. cache' = cache
      <4>1. ~Vencer(p)
        BY <3>2 DEF Vencer
      <4> QED BY <4>1 DEF Fechar, Cair, credenciais, loja
    <3> QED BY <3>2, <3>3, <2>c
  <2>7. Herda' /\ NaoHerda'
    <3>1. ~turvo' => ~turvo /\ pc' = pc
      BY <2>d DEF Fechar
    <3>2. \A e \in Fontes : ~turvo' => Aceita(e)' = Aceita(e)
      BY <3>1, <2>a, <2>c DEF Aceita, NaMao
    <3>3. ~turvo' => DaLojaServe' = DaLojaServe
      BY <3>1, <2>a, <2>b, <2>c DEF DaLojaServe
    <3>4. Herda'
      BY <3>1, <3>2, <3>3, <2>a, <2>b, <2>c DEF Segredo, Herda, HerdaDaLoja, LendoLoja
    <3>5. NaoHerda'
      <4> SUFFICES ASSUME ~cfg.morta, ~turvo'
                   PROVE  /\ \A f \in Fontes : (\A g \in Fontes \ {f} : pc'[g] = "fila") => Aceita(f)'
                          /\ \A f \in recusadas' : \E g \in Fontes \ {f} : pc'[g] = "fim"
        BY <2>a, <2>b DEF NaoHerda
      <4> QED BY <3>1, <3>2, <2>c DEF Segredo, NaoHerda
    <3> QED BY <3>4, <3>5
  <2> QED BY <2>b, <2>1, <2>2, <2>3, <2>4, <2>5, <2>6, <2>7 DEF Segredo
<1>3. CASE UNCHANGED vars
  <2>1. UNCHANGED <<cfg, pc, falhas, cabecalho, jarro, cache, guardado, boas, emitida, recusadas, rodada, logins, turvo, lembrada, naoSalvou, consumidor>>
    BY <1>3 DEF vars, credenciais, loja, provedor, leitura
  <2>2. \A e \in Fontes : Passagem(e)' /\ Geracao(e)' /\ SemJarro(e)' /\ Aceita(e)' = Aceita(e) /\ Ativa(e)' = Ativa(e) /\ Vivo(e)' = Vivo(e)
    BY <2>1, MesmasFontes DEF Segredo, Passagem, Geracao, SemJarro, Aceita, NaMao, Ativa, Vivo
  <2>3. SementeNaoEnvenena' /\ Sozinha' /\ Salva' /\ UmLogin' /\ Intocado'
    BY <2>1, <2>2, MesmasFontes DEF Segredo, SementeNaoEnvenena, Sozinha, Salva, LendoLoja, UmLogin, Intocado
  <2>4. Herda' /\ NaoHerda'
    BY <2>1, <2>2, MesmasFontes DEF Segredo, Herda, HerdaDaLoja, LendoLoja, DaLojaServe, NaoHerda
  <2> QED BY <2>1, <2>2, <2>3, <2>4, MesmasFontes DEF Segredo
<1> QED BY <1>1, <1>2, <1>3 DEF Next

\* The invariant of the credential holds in every state
LEMMA SegredoVale == Spec => [](Base /\ Segredo)
<1>1. Init => Base /\ Segredo
  BY BaseInicial, SegredoInicial
<1>2. Base /\ Segredo /\ [Next]_vars => (Base /\ Segredo)'
  BY BaseFica, SegredoFica
<1> QED BY <1>1, <1>2, PTL DEF Spec

\* What the store holds between two runs is never a session that is over, and what a walk
\* renewed is there, or something newer, or its loss was reported (auth.go renew)
THEOREM GuardadaSempre == Spec => []CredencialGuardada
<1>1. Base /\ Segredo => CredencialGuardada
  <2> SUFFICES ASSUME Base, Segredo PROVE RotacaoSalvaOuDita
    BY DEF Segredo, CredencialGuardada
  <2> QED BY DEF Segredo, Salva, RotacaoSalvaOuDita
<1> QED BY <1>1, SegredoVale, PTL

\* Walks one after the other are not refused for what they did themselves, nor, with a
\* store, for what an earlier run did; and a TTL means one login (auth.go Get)
THEOREM PoupadoSempre == Spec => []ProvedorPoupado
<1>1. Base /\ Segredo => ProvedorPoupado
  <2> SUFFICES ASSUME Base, Segredo PROVE SemRecusaPropria /\ LoginUnico
    BY DEF ProvedorPoupado
  <2>1. SemRecusaPropria
    BY DEF Segredo, Herda, NaoHerda, SemRecusaPropria
  <2>2. LoginUnico
    BY DEF Segredo, UmLogin, LoginUnico
  <2> QED BY <2>1, <2>2
<1> QED BY <1>1, SegredoVale, PTL

\* With one walk at a time in each process nothing older replaces a newer value in GCS,
\* however many processes share the object (gcs Credential.Save)
THEOREM GcsSoAvanca == Spec => GcsComUmTrabalhador
<1>1. Base /\ Segredo /\ [Next]_vars => [GcsNaoRegride({1})]_vars
  <2> SUFFICES ASSUME Base, Segredo, Next, cfg.loja = "gcs", cfg.trabalhadores = 1, cfg.validade
               PROVE  guardado'.v >= guardado.v
    BY DEF GcsNaoRegride
  <2>1. guardado.v \in Int
    BY DEF Base, Tipos, TiposDoSegredo, Deslogada
  <2>2. CASE guardado' = guardado
    BY <2>1, <2>2
  <2>3. CASE guardado' # guardado
    <3>1. \E f \in Fontes : Guardar(f)
      <4>1. ASSUME NEW f \in Fontes, Caminhar(f) PROVE Guardar(f)
        BY <4>1, <2>3, Passos, SegredoDosOutros DEF Base
      <4>2. ASSUME NEW p \in Processos, Fechar(p) \/ Cair(p) \/ (Vencer(p) /\ UNCHANGED <<andamento, leitura>>) PROVE FALSE
        BY <4>2, <2>3 DEF Fechar, Cair, Vencer, credenciais, loja
      <4> QED BY <4>1, <4>2 DEF Next
    <3> PICK f \in Fontes : Guardar(f)
      BY <3>1
    <3>2. pc[f] = "guardar" /\ lembrada[Proc(f)] = guardado.g /\ guardado'.v = cabecalho[f]
      BY <2>3 DEF Guardar, PodeGravar
    <3>3. guardado.v <= cabecalho[f]
      BY <3>2 DEF Segredo, Geracao
    <3> QED BY <3>2, <3>3
  <2> QED BY <2>2, <2>3
<1> QED BY <1>1, SegredoVale, PTL DEF Spec, GcsComUmTrabalhador
--------------------------------------------------------------------------------
(* The rows                                                                    *)

\* what a consumer has of source f
Tem(f, r) == \E k \in DOMAIN entregues[Proc(f)] : entregues[Proc(f)][k] = <<f, r>>
NadaAlem(f, m) == \A k \in DOMAIN entregues[Proc(f)] : entregues[Proc(f)][k][1] = f => entregues[Proc(f)][k][2] <= m
UmaVez(f, r) ==
  \A a, b \in DOMAIN entregues[Proc(f)] :
    entregues[Proc(f)][a] = <<f, r>> /\ entregues[Proc(f)][b] = <<f, r>> => a = b

\* the row up to which the walk has come
Ate(f) == IF pc[f] = "drenar" THEN Inicio(endereco[f]) + emitidas[f] ELSE Inicio(endereco[f])

\* the first time through the pages: forward, and what was handed over is a beginning
Caminho(f) ==
  /\ \A v \in vistas[f] : v <= endereco[f]
  /\ cfg.estrategia # "offset" => endereco[f] >= 1
  /\ cfg.estrategia \in {"link", "cursor"} =>
       vistas[f] = 2..endereco[f] /\ \A a \in 1..(endereco[f] - 1) : ~Ultima(a)
Cobre(f, m) ==
  /\ \A r \in 1..cfg.total : r <= m => Tem(f, r)
  /\ NadaAlem(f, m) /\ \A r \in 1..cfg.total : UmaVez(f, r)

\* after the last page pointed back: the whole source is there, and what this page has not
\* handed over is there once
Volta(f) ==
  /\ cfg.estrategia \in {"link", "cursor"} /\ cfg.laco # 0 /\ endereco[f] = cfg.laco
  /\ \E u \in Nat : /\ Ultima(u) /\ \A a \in 1..(u - 1) : ~Ultima(a)
                    /\ vistas[f] = 2..u \cup {cfg.laco}
Repete(f, m) ==
  (\A r \in 1..cfg.total : Tem(f, r)) /\ \A r \in 1..cfg.total : r > m => UmaVez(f, r)

Percurso(f) ==
  pc[f] \notin {"errar", "fim"} => (Caminho(f) /\ Cobre(f, Ate(f))) \/ (Volta(f) /\ Repete(f, Ate(f)))

\* the page in hand is the rest of the page asked for
NaPagina(f) ==
  /\ pc[f] = "aplicar" => pagina[f] = PaginaDe(endereco[f])
  /\ pc[f] = "drenar" => /\ pagina[f] = Linhas(Inicio(endereco[f]) + emitidas[f] + 1, FimDa(endereco[f]))
                         /\ emitidas[f] = 0 \/ Inicio(endereco[f]) + emitidas[f] <= FimDa(endereco[f])

\* rows are of sources that were opened, and are rows of theirs
DosAbertos ==
  \A p \in Processos : \A k \in DOMAIN entregues[p] :
    /\ entregues[p][k][1] \in DaOrigem(p) /\ pc[entregues[p][k][1]] # "fila"
    /\ entregues[p][k][2] \in 1..cfg.total

\* where the pages lie
LEMMA DoInicio ==
  ASSUME cfg \in Pedidos, NEW a \in Nat, a >= 1 \/ cfg.estrategia = "offset"
  PROVE  /\ Inicio(a) \in Nat
         /\ cfg.estrategia \in {"link", "cursor", "page"} =>
              /\ Inicio(a + 1) = Inicio(a) + cfg.limite
              /\ Ultima(a) <=> Inicio(a) + cfg.limite >= cfg.total
         /\ cfg.estrategia = "offset" => Inicio(a) = a
         /\ cfg.estrategia # "nenhuma" => FimDa(a) = Menor(Inicio(a) + cfg.limite, cfg.total)
<1>1. PedidoBom
  BY DoPedido
<1> PICK l \in Nat : l = cfg.limite /\ l > 0
  BY <1>1 DEF PedidoBom
<1>2. (a - 1) * l + l = a * l /\ ((a + 1) - 1) * l = a * l
  <2>1. (a - 1) * l + l = a * l
    <3>1. a \in Int /\ l \in Int
      OBVIOUS
    <3> QED BY <3>1, Produto, Zenon
  <2>2. (a + 1) - 1 = a
    OBVIOUS
  <2> QED BY <2>1, <2>2
<1>3. a >= 1 => (a - 1) * l \in Nat
  <2> SUFFICES ASSUME a >= 1 PROVE (a - 1) * l \in Nat
    OBVIOUS
  <2> PICK b \in Nat : b = a - 1
    OBVIOUS
  <2>1. b * l \in Nat
    OBVIOUS
  <2> QED BY <2>1
<1>4. Inicio(a) \in Nat
  BY <1>3 DEF Inicio
<1>5. cfg.estrategia \in {"link", "cursor", "page"} => Inicio(a) = (a - 1) * l /\ Inicio(a + 1) = ((a + 1) - 1) * l
  BY DEF Inicio
<1> QED BY <1>2, <1>4, <1>5 DEF Ultima, FimDa, Inicio

\* What follows a last page is past the end, too
LEMMA UltimaSobe ==
  ASSUME cfg \in Pedidos, NEW a \in Nat, NEW b \in Nat, a <= b, Ultima(a)
  PROVE  Ultima(b)
<1>1. PedidoBom
  BY DoPedido
<1> PICK l \in Nat : l = cfg.limite
  BY <1>1 DEF PedidoBom
<1> PICK c \in Nat : b = a + c
  <2>1. b - a \in Nat /\ b = a + (b - a)
    OBVIOUS
  <2> QED BY <2>1
<1>2. b * l = a * l + c * l /\ c * l \in Nat /\ a * l \in Nat
  OBVIOUS
<1>3. cfg.total \in Nat
  BY <1>1 DEF PedidoBom
<1> QED BY <1>2, <1>3 DEF Ultima

\* a row that is handed over is the next one of its source
LEMMA DaEntrega ==
  ASSUME Base, NEW f \in Fontes, NaPagina(f), Percurso(f), Entregar(f)
  PROVE  LET r == Ate(f) + 1
             p == Proc(f)
         IN /\ pc[f] = "drenar" /\ pc' = pc /\ UNCHANGED <<endereco, vistas, paginas, falharam, desfecho>>
            /\ r \in 1..cfg.total /\ UmaVez(f, r) /\ emitidas'[f] = emitidas[f] + 1
            /\ NaPagina(f)'
            /\ entregues[p] \in Seq(Fontes \X Int) /\ entregues'[p] = Append(entregues[p], <<f, r>>)
            /\ \A q \in Processos \ {p} : entregues'[q] = entregues[q]
<1>a. Tipos /\ TiposDoAndamento /\ TiposDaLeitura /\ PedidoBom /\ Proc(f) \in Processos /\ cfg' = cfg
  BY DoPedido, DasFontes DEF Base, Tipos, Entregar
<1>b. pc[f] = "drenar" /\ pc' = pc /\ UNCHANGED <<endereco, vistas, paginas, falharam, desfecho>> /\ pagina[f] # <<>>
  BY DEF Entregar
<1> PICK a \in Nat : a = endereco[f]
  BY <1>a DEF TiposDoAndamento
<1> PICK n \in Nat : n = emitidas[f]
  BY <1>a DEF TiposDoAndamento
<1>1. a >= 1 \/ cfg.estrategia = "offset"
  <2>1. cfg.laco \in Nat
    BY <1>a DEF PedidoBom
  <2> QED BY <1>b, <2>1 DEF Percurso, Caminho, Volta
<1> PICK i \in Nat : i = Inicio(a)
  BY <1>1, DoInicio DEF Base, Tipos
<1> PICK z \in Int : z = FimDa(a) /\ z <= cfg.total
  BY DaPagina DEF Base, Tipos
<1>2. pagina[f] = Linhas(i + n + 1, z) /\ Ate(f) = i + n
  BY <1>b DEF NaPagina, Ate
<1>3. i + n + 1 <= z /\ Head(pagina[f]) = i + n + 1 /\ Tail(pagina[f]) = Linhas(i + n + 1 + 1, z)
  <2>1. i + n + 1 \in Int
    OBVIOUS
  <2>2. ~(z < i + n + 1)
    BY <1>b, <1>2, <2>1, DasLinhas
  <2>3. i + n + 1 <= z
    BY <2>2
  <2> QED BY <1>2, <2>1, <2>3, DasLinhas
<1>4. i + n + 1 \in 1..cfg.total
  <2>1. cfg.total \in Nat
    BY <1>a DEF PedidoBom
  <2> QED BY <1>3, <2>1
<1>5. UmaVez(f, i + n + 1)
  <2>1. Cobre(f, i + n) \/ Repete(f, i + n)
    BY <1>b, <1>2 DEF Percurso
  <2> QED BY <2>1, <1>4 DEF Cobre, Repete
<1>6. emitidas'[f] = n + 1 /\ pagina'[f] = Tail(pagina[f])
  BY <1>a DEF Entregar, Por, TiposDoAndamento
<1>7. NaPagina(f)'
  <2>1. Inicio(endereco[f])' = i /\ FimDa(endereco[f])' = z
    BY <1>a, <1>b DEF Inicio, FimDa, Menor
  <2>2. i + n + 1 + 1 = i + (n + 1) + 1
    OBVIOUS
  <2>3. i + (n + 1) <= z
    BY <1>3
  <2> QED BY <1>b, <1>3, <1>6, <2>1, <2>2, <2>3 DEF NaPagina
<1>8. /\ entregues[Proc(f)] \in Seq(Fontes \X Int)
      /\ entregues'[Proc(f)] = Append(entregues[Proc(f)], <<f, i + n + 1>>)
      /\ \A q \in Processos \ {Proc(f)} : entregues'[q] = entregues[q]
  BY <1>a, <1>3 DEF Entregar, Por, TiposDaLeitura
<1> QED BY <1>b, <1>2, <1>4, <1>5, <1>6, <1>7, <1>8

\* a sequence with one element more
LEMMA DoAppend ==
  ASSUME NEW S, NEW s \in Seq(S), NEW x \in S
  PROVE  /\ Append(s, x) \in Seq(S) /\ DOMAIN Append(s, x) = 1..(Len(s) + 1) /\ DOMAIN s = 1..Len(s) /\ Len(s) \in Nat
         /\ \A k \in DOMAIN s : Append(s, x)[k] = s[k]
         /\ Append(s, x)[Len(s) + 1] = x
BY AppendProperties

\* what a row handed over changes of what a consumer has
LEMMA DepoisDaEntrega ==
  ASSUME Base, NEW f \in Fontes, NaPagina(f), Percurso(f), Entregar(f), NEW e \in Fontes
  PROVE  /\ \A r \in Int : Tem(e, r)' <=> Tem(e, r) \/ (e = f /\ r = Ate(f) + 1)
         /\ \A m \in Int : m >= Ate(f) + 1 /\ NadaAlem(e, m) => NadaAlem(e, m)'
         /\ e # f => \A m \in Int : NadaAlem(e, m) => NadaAlem(e, m)'
         /\ \A r \in Int : UmaVez(e, r) /\ ~(e = f /\ r = Ate(f) + 1 /\ Tem(e, r)) => UmaVez(e, r)'
<1> PICK x : x = Ate(f) + 1
  OBVIOUS
<1>1. /\ entregues[Proc(f)] \in Seq(Fontes \X Int) /\ entregues'[Proc(f)] = Append(entregues[Proc(f)], <<f, x>>)
      /\ x \in 1..cfg.total
      /\ \A q \in Processos \ {Proc(f)} : entregues'[q] = entregues[q]
  BY DaEntrega
<1>2. Proc(e)' = Proc(e) /\ Proc(e) \in Processos
  BY MesmasFontes, DasFontes DEF Entregar, Base, Tipos
<1>3. CASE Proc(e) # Proc(f)
  <2>1. entregues'[Proc(e)] = entregues[Proc(e)] /\ e # f
    BY <1>1, <1>2, <1>3
  <2> QED BY <2>1, <1>2 DEF Tem, NadaAlem, UmaVez
<1>4. CASE Proc(e) = Proc(f)
  <2> PICK s \in Seq(Fontes \X Int) : s = entregues[Proc(f)]
    BY <1>1
  <2> PICK t : t = entregues'[Proc(f)]
    OBVIOUS
  <2>1. /\ DOMAIN t = 1..(Len(s) + 1) /\ DOMAIN s = 1..Len(s) /\ Len(s) \in Nat
        /\ \A k \in DOMAIN s : t[k] = s[k]
        /\ t[Len(s) + 1] = <<f, x>>
    <3>1. <<f, x>> \in Fontes \X Int
      BY <1>1
    <3> QED BY <1>1, <3>1, DoAppend
  <2>2. \A k \in DOMAIN t : k \in DOMAIN s \/ k = Len(s) + 1
    BY <2>1
  <2>a. x \in Int /\ t[Len(s) + 1] = <<f, x>> /\ Len(s) + 1 \in DOMAIN t /\ DOMAIN s \subseteq DOMAIN t /\ Len(s) + 1 \notin DOMAIN s
    BY <1>1, <2>1
  <2>b. \A r \in Int : <<f, x>> = <<e, r>> <=> e = f /\ r = x
    OBVIOUS
  <2>3. ASSUME NEW r \in Int
        PROVE  (\E k \in DOMAIN t : t[k] = <<e, r>>) <=> (\E k \in DOMAIN s : s[k] = <<e, r>>) \/ (e = f /\ r = x)
    <3>1. ASSUME NEW k \in DOMAIN t, t[k] = <<e, r>>
          PROVE  (\E j \in DOMAIN s : s[j] = <<e, r>>) \/ (e = f /\ r = x)
      <4>1. CASE k \in DOMAIN s
        <5>1. s[k] = <<e, r>>
          BY <2>1, <3>1, <4>1
        <5> QED BY <4>1, <5>1
      <4>2. CASE k = Len(s) + 1
        <5>1. <<f, x>> = <<e, r>>
          BY <2>a, <3>1, <4>2
        <5> QED BY <2>b, <5>1
      <4> QED BY <2>2, <4>1, <4>2
    <3>2. ASSUME NEW k \in DOMAIN s, s[k] = <<e, r>>
          PROVE  \E j \in DOMAIN t : t[j] = <<e, r>>
      <4>1. k \in DOMAIN t /\ t[k] = <<e, r>>
        BY <2>1, <2>a, <3>2
      <4> QED BY <4>1
    <3>3. ASSUME e = f, r = x PROVE \E j \in DOMAIN t : t[j] = <<e, r>>
      <4>1. Len(s) + 1 \in DOMAIN t /\ t[Len(s) + 1] = <<e, r>>
        BY <2>a, <3>3
      <4> QED BY <4>1
    <3> QED BY <3>1, <3>2, <3>3
  <2>4. \A m \in Int : (m >= x \/ e # f) /\ (\A k \in DOMAIN s : s[k][1] = e => s[k][2] <= m) => \A k \in DOMAIN t : t[k][1] = e => t[k][2] <= m
    <3> SUFFICES ASSUME NEW m \in Int, m >= x \/ e # f, \A k \in DOMAIN s : s[k][1] = e => s[k][2] <= m,
                        NEW k \in DOMAIN t, t[k][1] = e
                 PROVE  t[k][2] <= m
      OBVIOUS
    <3>1. CASE k \in DOMAIN s
      <4>1. t[k] = s[k]
        BY <2>1, <3>1
      <4> QED BY <3>1, <4>1
    <3>2. CASE k = Len(s) + 1
      <4>1. t[k][1] = f /\ t[k][2] = x
        BY <2>a, <3>2
      <4>2. m >= x
        BY <4>1
      <4> QED BY <2>a, <4>1, <4>2
    <3> QED BY <2>2, <3>1, <3>2
  <2>5. ASSUME NEW r \in Int, \A a, b \in DOMAIN s : s[a] = <<e, r>> /\ s[b] = <<e, r>> => a = b,
               ~(e = f /\ r = x /\ \E k \in DOMAIN s : s[k] = <<e, r>>),
               NEW a \in DOMAIN t, NEW b \in DOMAIN t, t[a] = <<e, r>>, t[b] = <<e, r>>
        PROVE  a = b
    <3>1. CASE e = f /\ r = x
      <4>1. a \notin DOMAIN s /\ b \notin DOMAIN s
        BY <2>1, <2>5, <3>1, Zenon
      <4> QED BY <2>2, <4>1, Zenon
    <3>2. CASE ~(e = f /\ r = x)
      <4>1. a \in DOMAIN s /\ b \in DOMAIN s
        BY <2>2, <2>5, <2>a, <2>b, <3>2, Zenon
      <4> QED BY <2>1, <2>5, <4>1, Zenon
    <3> QED BY <3>1, <3>2
  <2>6. Proc(e)' = Proc(f) /\ entregues'[Proc(e)'] = t /\ entregues[Proc(e)] = s
    BY <1>2, <1>4
  <2>7. \A r \in Int : Tem(e, r)' <=> Tem(e, r) \/ (e = f /\ r = x)
    BY <2>3, <2>6 DEF Tem
  <2>8. \A m \in Int : (m >= x \/ e # f) /\ NadaAlem(e, m) => NadaAlem(e, m)'
    BY <2>4, <2>6 DEF NadaAlem
  <2>9. \A r \in Int : UmaVez(e, r) /\ ~(e = f /\ r = x /\ Tem(e, r)) => UmaVez(e, r)'
    <3> SUFFICES ASSUME NEW r \in Int, UmaVez(e, r), ~(e = f /\ r = x /\ Tem(e, r)),
                        NEW a \in DOMAIN t, NEW b \in DOMAIN t, t[a] = <<e, r>>, t[b] = <<e, r>>
                 PROVE  a = b
      BY <2>6, Zenon DEF UmaVez
    <3>1. \A i, j \in DOMAIN s : s[i] = <<e, r>> /\ s[j] = <<e, r>> => i = j
      BY <2>6, Zenon DEF UmaVez
    <3>2. ~(e = f /\ r = x /\ \E k \in DOMAIN s : s[k] = <<e, r>>)
      BY <2>6, Zenon DEF Tem
    <3> QED BY <2>5, <3>1, <3>2, Zenon
  <2> QED BY <2>7, <2>8, <2>9
<1> QED BY <1>3, <1>4

--------------------------------------------------------------------------------
(* The way through the pages                                                   *)

\* a walk that did not move, and got nothing, is where it was
LEMMA MesmoPercurso ==
  ASSUME cfg' = cfg, NEW e \in Fontes, Percurso(e), pc'[e] \notin {"errar", "fim"} => pc[e] \notin {"errar", "fim"},
         entregues'[Proc(e)] = entregues[Proc(e)], endereco'[e] = endereco[e], vistas'[e] = vistas[e], Ate(e)' = Ate(e)
  PROVE  Percurso(e)'
<1> SUFFICES ASSUME pc'[e] \notin {"errar", "fim"}, pc[e] \notin {"errar", "fim"}
             PROVE  (Caminho(e)' /\ Cobre(e, Ate(e))') \/ (Volta(e)' /\ Repete(e, Ate(e))')
  BY DEF Percurso
<1>1. Proc(e)' = Proc(e)
  BY MesmasFontes
<1>2. /\ \A r : Tem(e, r)' <=> Tem(e, r)
      /\ \A m : NadaAlem(e, m)' <=> NadaAlem(e, m)
      /\ \A r : UmaVez(e, r)' <=> UmaVez(e, r)
  BY <1>1 DEF Tem, NadaAlem, UmaVez
<1>3. \A a : Ultima(a)' <=> Ultima(a)
  BY DEF Ultima
<1>4. Caminho(e) => Caminho(e)'
  BY <1>3 DEF Caminho
<1>5. Volta(e) => Volta(e)'
  BY <1>3 DEF Volta
<1>6. Cobre(e, Ate(e)) => Cobre(e, Ate(e))'
  BY <1>2 DEF Cobre
<1>7. Repete(e, Ate(e)) => Repete(e, Ate(e))'
  BY <1>2 DEF Repete
<1> QED BY <1>4, <1>5, <1>6, <1>7 DEF Percurso

\* A walk that does not move has the same page in hand
LEMMA MesmaPagina ==
  ASSUME cfg' = cfg, NEW e \in Fontes, NaPagina(e), pc'[e] = pc[e], endereco'[e] = endereco[e],
         pagina'[e] = pagina[e], emitidas'[e] = emitidas[e]
  PROVE  NaPagina(e)'
<1>1. Inicio(endereco[e])' = Inicio(endereco[e]) /\ FimDa(endereco[e])' = FimDa(endereco[e])
      /\ PaginaDe(endereco[e])' = PaginaDe(endereco[e])
  BY DEF Inicio, FimDa, Menor, PaginaDe
<1> QED BY <1>1 DEF NaPagina

\* a step that neither hands a row over nor goes on to a page
LEMMA PercursoParado ==
  ASSUME Base, NEW f \in Fontes, NaPagina(f), Percurso(f), Mover(f), cfg' = cfg, ~Entregar(f), ~Avancar(f)
  PROVE  Percurso(f)' /\ NaPagina(f)' /\ entregues' = entregues
<1>a. Tipos /\ TiposDoAndamento
  BY DEF Base, Tipos
<1>b. endereco[f] \in Nat /\ Inicio(endereco[f]) \in Int /\ Inicio(endereco[f])' = Inicio(endereco'[f]) /\ FimDa(endereco[f])' = FimDa(endereco'[f])
  BY <1>a, DaPagina DEF TiposDoAndamento, Tipos, Inicio, FimDa, Menor
<1>1. UNCHANGED <<entregues, endereco, vistas>>
  BY DEF Mover, Comecar, Receber, Recusar, Falhar, Desistir, Aplicar, NaoDecodificar, Errar, Largar, andamento, leitura
<1>2. CASE Receber(f)
  <2>1. pc[f] = "pedir" /\ pc'[f] = "aplicar" /\ pagina'[f] = PaginaDe(endereco[f])
    BY <1>2, <1>a DEF Receber, Em, Por, Tipos, TiposDoAndamento
  <2>2. Ate(f)' = Ate(f)
    BY <1>1, <1>b, <2>1 DEF Ate
  <2>3. NaPagina(f)'
    BY <1>1, <2>1 DEF NaPagina, PaginaDe, Menor
  <2> QED BY <1>1, <2>1, <2>2, <2>3, MesmoPercurso
<1>3. CASE Aplicar(f)
  <2>1. pc[f] = "aplicar" /\ pc'[f] = "drenar" /\ pagina'[f] = pagina[f] /\ emitidas'[f] = 0
    BY <1>3, <1>a DEF Aplicar, Em, Por, Tipos, TiposDoAndamento
  <2> PICK i \in Int : i = Inicio(endereco[f])
    BY <1>b
  <2>2. i + 0 = i
    OBVIOUS
  <2>3. Ate(f)' = Ate(f)
    BY <1>1, <1>b, <2>1, <2>2 DEF Ate
  <2>4. pagina[f] = Linhas(i + 0 + 1, FimDa(endereco[f]))
    <3>1. pagina[f] = PaginaDe(endereco[f])
      BY <2>1 DEF NaPagina
    <3>2. PaginaDe(endereco[f]) = Linhas(i + 1, FimDa(endereco[f]))
      BY <1>a, <1>b, DaPagina DEF Tipos
    <3>3. i + 0 + 1 = i + 1
      OBVIOUS
    <3> QED BY <3>1, <3>2, <3>3
  <2>5. Inicio(endereco[f])' = i /\ FimDa(endereco[f])' = FimDa(endereco[f])
    BY <1>1 DEF Inicio, FimDa, Menor
  <2>6. NaPagina(f)'
    BY <2>1, <2>4, <2>5 DEF NaPagina
  <2> QED BY <1>1, <2>1, <2>3, <2>6, MesmoPercurso
<1>4. CASE ~Receber(f) /\ ~Aplicar(f)
  <2>1. pc'[f] \in {"errar", "fim"} \/ (pc[f] \notin {"drenar", "errar", "fim"} /\ pc'[f] \notin {"aplicar", "drenar"})
    BY <1>4, <1>a DEF Mover, Comecar, Obter, ObterSemErro, Usar, Produzir, SemCredencial, NaoObter, Renovar, DepoisDeRodar, NaoRenovar,
       Guardar, Recusar, Falhar, Desistir, NaoDecodificar, Errar, Largar, Em, Tipos
  <2>2. NaPagina(f)'
    BY <2>1 DEF NaPagina
  <2>3. CASE pc'[f] \in {"errar", "fim"}
    BY <2>3, <1>1, <2>2 DEF Percurso
  <2>4. CASE pc[f] \notin {"drenar", "errar", "fim"} /\ pc'[f] \notin {"aplicar", "drenar"}
    <3>1. Ate(f)' = Ate(f)
      BY <2>4, <1>1, <1>b DEF Ate
    <3> QED BY <3>1, <2>2, <2>4, <1>1, MesmoPercurso
  <2> QED BY <2>1, <2>3, <2>4
<1> QED BY <1>2, <1>3, <1>4

\* a row that is handed over is one more
LEMMA PercursoComEntrega ==
  ASSUME Base, NEW f \in Fontes, NaPagina(f), Percurso(f), Entregar(f)
  PROVE  Percurso(f)'
<1>a. Tipos /\ TiposDoAndamento /\ TiposDaLeitura /\ PedidoBom /\ Proc(f) \in Processos /\ cfg' = cfg
  BY DoPedido, DasFontes DEF Base, Tipos, Entregar
<1>1. /\ pc[f] = "drenar" /\ pc' = pc /\ UNCHANGED <<endereco, vistas>>
      /\ Ate(f) + 1 \in 1..cfg.total /\ emitidas'[f] = emitidas[f] + 1
  BY DaEntrega
<1>2. Ate(f) \in Int /\ Ate(f)' = Ate(f) + 1 /\ cfg.total \in Nat
  <2> PICK i \in Int : i = Inicio(endereco[f])
    BY <1>a, DaPagina DEF TiposDoAndamento, Tipos
  <2> PICK n \in Nat : n = emitidas[f]
    BY <1>a DEF TiposDoAndamento
  <2>1. Inicio(endereco[f])' = i
    BY <1>a, <1>1 DEF Inicio
  <2>2. Ate(f) = i + n /\ Ate(f)' = i + (n + 1)
    BY <1>1, <2>1 DEF Ate
  <2>3. cfg.total \in Nat
    BY <1>a DEF PedidoBom
  <2> QED BY <2>2, <2>3
<1> PICK m \in Int : m = Ate(f)
  BY <1>2
<1>3. /\ \A r \in Int : Tem(f, r)' <=> Tem(f, r) \/ r = m + 1
      /\ \A k \in Int : k >= m + 1 /\ NadaAlem(f, k) => NadaAlem(f, k)'
      /\ \A r \in Int : UmaVez(f, r) /\ ~(r = m + 1 /\ Tem(f, r)) => UmaVez(f, r)'
  BY DepoisDaEntrega
<1>4. \A r \in 1..cfg.total : r \in Int
  OBVIOUS
<1>5. Caminho(f) => Caminho(f)'
  BY <1>a, <1>1 DEF Caminho, Ultima
<1>6. Volta(f) => Volta(f)'
  BY <1>a, <1>1 DEF Volta, Ultima
<1>7. Repete(f, m) => Repete(f, m + 1)'
  <2> SUFFICES ASSUME Repete(f, m) PROVE Repete(f, m + 1)'
    OBVIOUS
  <2>1. \A r \in 1..cfg.total : Tem(f, r)'
    BY <1>3, <1>4 DEF Repete
  <2>2. \A r \in 1..cfg.total : r > m + 1 => r > m /\ r # m + 1
    BY <1>4
  <2>3. \A r \in 1..cfg.total : r > m + 1 => UmaVez(f, r)'
    BY <1>3, <1>4, <2>2 DEF Repete
  <2>4. (1..cfg.total)' = 1..cfg.total
    BY <1>a
  <2> QED BY <1>a, <2>1, <2>3 DEF Repete
<1>8. Cobre(f, m) => Cobre(f, m + 1)'
  <2> SUFFICES ASSUME Cobre(f, m) PROVE Cobre(f, m + 1)'
    OBVIOUS
  <2>1. \A r \in 1..cfg.total : r <= m + 1 => Tem(f, r)'
    <3>1. \A r \in 1..cfg.total : r <= m + 1 => r <= m \/ r = m + 1
      BY <1>4
    <3> QED BY <3>1, <1>3, <1>4 DEF Cobre
  <2>2. \A k \in DOMAIN entregues[Proc(f)] : entregues[Proc(f)][k][2] \in Int
    BY <1>a DEF TiposDaLeitura
  <2>3. \A k \in DOMAIN entregues[Proc(f)] : entregues[Proc(f)][k][1] = f => entregues[Proc(f)][k][2] <= m
    BY DEF Cobre, NadaAlem
  <2>4. NadaAlem(f, m + 1)
    BY <2>2, <2>3 DEF NadaAlem
  <2>5. NadaAlem(f, m + 1)'
    BY <2>4, <1>3
  <2>6. ~Tem(f, m + 1)
    <3> SUFFICES ASSUME NEW k \in DOMAIN entregues[Proc(f)], entregues[Proc(f)][k] = <<f, m + 1>> PROVE FALSE
      BY DEF Tem
    <3>1. entregues[Proc(f)][k][1] = f /\ entregues[Proc(f)][k][2] = m + 1
      OBVIOUS
    <3>2. m + 1 <= m
      BY <2>3, <3>1
    <3> QED BY <3>2
  <2>7. \A r \in 1..cfg.total : UmaVez(f, r)'
    BY <2>6, <1>3, <1>4 DEF Cobre
  <2> QED BY <1>a, <2>1, <2>5, <2>7 DEF Cobre
<1>9. (Cobre(f, m + 1)' <=> Cobre(f, Ate(f))') /\ (Repete(f, m + 1)' <=> Repete(f, Ate(f))')
  BY <1>2
<1> QED BY <1>1, <1>5, <1>6, <1>7, <1>8, <1>9 DEF Percurso

\* a page whose rows were all handed over: it had none, or the walk is at its end
LEMMA PaginaLida ==
  ASSUME Base, NEW f \in Fontes, NaPagina(f), Percurso(f), pc[f] = "drenar", pagina[f] = <<>>,
         NEW a \in Nat, a = endereco[f], NEW n \in Nat, n = emitidas[f]
  PROVE  /\ a >= 1 \/ cfg.estrategia = "offset"
         /\ Inicio(a) \in Nat /\ FimDa(a) \in Int /\ Ate(f) = Inicio(a) + n
         /\ (n = 0 /\ FimDa(a) <= Inicio(a)) \/ (n > 0 /\ Inicio(a) + n = FimDa(a))
<1>a. Tipos /\ TiposDoAndamento /\ PedidoBom
  BY DoPedido DEF Base, Tipos
<1>1. a >= 1 \/ cfg.estrategia = "offset"
  <2>1. cfg.laco \in Nat
    BY <1>a DEF PedidoBom
  <2> QED BY <2>1 DEF Percurso, Caminho, Volta
<1> PICK i \in Nat : i = Inicio(a)
  BY <1>a, <1>1, DoInicio DEF Tipos
<1> PICK z \in Int : z = FimDa(a)
  BY <1>a, DaPagina DEF Tipos
<1>2. pagina[f] = Linhas(i + n + 1, z) /\ (n = 0 \/ i + n <= z) /\ Ate(f) = i + n
  BY DEF NaPagina, Ate
<1>3. z < i + n + 1
  <2>1. i + n + 1 \in Int
    OBVIOUS
  <2> QED BY <1>2, <2>1, DasLinhas
<1>4. (n = 0 /\ z <= i) \/ (n > 0 /\ i + n = z)
  BY <1>2, <1>3
<1> QED BY <1>1, <1>2, <1>4

\* what the consumer has when the first way has come to the end of a page
LEMMA AteOFim ==
  ASSUME Base, NEW f \in Fontes, NaPagina(f), Percurso(f), pc[f] = "drenar", pagina[f] = <<>>, Cobre(f, Ate(f)),
         NEW a \in Nat, a = endereco[f], NEW n \in Nat, n = emitidas[f]
  PROVE  /\ \A r \in 1..cfg.total : r <= FimDa(a) => Tem(f, r)
         /\ n = 0 => \A r \in 1..cfg.total : Tem(f, r)
         /\ n > 0 => FimDa(a) \in 1..cfg.total /\ FimDa(a) = Ate(f)
<1>a. PedidoBom /\ cfg \in Pedidos
  BY DoPedido DEF Base, Tipos
<1> PICK i \in Nat : i = Inicio(a)
  BY PaginaLida
<1> PICK z \in Int : z = FimDa(a)
  BY PaginaLida
<1>1. Ate(f) = i + n /\ ((n = 0 /\ z <= i) \/ (n > 0 /\ i + n = z))
  BY PaginaLida
<1>2. \A r \in 1..cfg.total : r <= i + n => Tem(f, r)
  BY <1>1 DEF Cobre
<1>3. \A r \in 1..cfg.total : r <= z => r <= i + n
  BY <1>1
<1>4. n = 0 => \A r \in 1..cfg.total : r <= i + n
  <2>1. cfg.total \in Nat /\ cfg.limite \in Nat /\ cfg.limite > 0
    BY <1>a DEF PedidoBom
  <2>2. z = cfg.total \/ z = i + cfg.limite
    BY DEF FimDa, Menor
  <2> SUFFICES ASSUME n = 0 PROVE cfg.total <= i + n
    BY <2>1
  <2>3. z <= i
    BY <1>1
  <2> QED BY <2>1, <2>2, <2>3
<1>5. n > 0 => z \in 1..cfg.total
  <2>1. z <= cfg.total /\ cfg.total \in Nat
    BY <1>a, DaPagina DEF PedidoBom
  <2> QED BY <1>1, <2>1
<1> QED BY <1>1, <1>2, <1>3, <1>4, <1>5

\* the next page begins where this one ended
LEMMA PercursoEmFrente ==
  ASSUME Base, NEW f \in Fontes, NaPagina(f), Percurso(f), pc[f] = "drenar", pagina[f] = <<>>, Caminho(f), Cobre(f, Ate(f)),
         cfg' = cfg, entregues' = entregues, pc'[f] = "pedir",
         NEW a \in Nat, a = endereco[f], NEW n \in Nat, n = emitidas[f], NEW b \in Nat, b = endereco'[f],
         vistas'[f] = vistas[f] \cup {b}, b > a, Inicio(b) \in Int, FimDa(a) <= Inicio(b), n > 0,
         \A r \in 1..cfg.total : r <= Inicio(b) => r <= FimDa(a),
         cfg.estrategia \in {"link", "cursor"} => b = a + 1 /\ ~Ultima(a)
  PROVE  Caminho(f)' /\ Cobre(f, Ate(f))'
<1>a. Proc(f)' = Proc(f) /\ TiposDoAndamento /\ TiposDaLeitura /\ Proc(f) \in Processos /\ PedidoBom
  BY MesmasFontes, DasFontes, DoPedido DEF Base, Tipos
<1>1. /\ \A r : Tem(f, r)' <=> Tem(f, r)
      /\ \A m : NadaAlem(f, m)' <=> NadaAlem(f, m)
      /\ \A r : UmaVez(f, r)' <=> UmaVez(f, r)
  BY <1>a DEF Tem, NadaAlem, UmaVez
<1>2. Ate(f)' = Inicio(b) /\ FimDa(a) = Ate(f) /\ FimDa(a) \in Int
  <2>1. Inicio(endereco[f])' = Inicio(b)
    BY DEF Inicio
  <2>2. FimDa(a) \in 1..cfg.total /\ FimDa(a) = Ate(f)
    BY AteOFim
  <2> QED BY <2>1, <2>2 DEF Ate
<1>3. Caminho(f)'
  <2>1. \A v \in vistas'[f] : v <= b
    <3>1. \A v \in vistas[f] : v \in Nat /\ v <= a
      BY <1>a DEF Caminho, TiposDoAndamento
    <3> QED BY <3>1
  <2>2. cfg.estrategia # "offset" => b >= 1
    OBVIOUS
  <2>3. cfg.estrategia \in {"link", "cursor"} => vistas'[f] = 2..b /\ \A c \in 1..(b - 1) : ~Ultima(c)
    <3> SUFFICES ASSUME cfg.estrategia \in {"link", "cursor"} PROVE vistas'[f] = 2..b /\ \A c \in 1..(b - 1) : ~Ultima(c)
      OBVIOUS
    <3>1. vistas[f] = 2..a /\ (\A c \in 1..(a - 1) : ~Ultima(c)) /\ a >= 1
      BY DEF Caminho
    <3>2. 2..a \cup {b} = 2..b
      BY <3>1
    <3>3. \A c \in 1..(b - 1) : c \in 1..(a - 1) \/ c = a
      BY <3>1
    <3> QED BY <3>1, <3>2, <3>3
  <2>4. \A c : Ultima(c)' <=> Ultima(c)
    BY DEF Ultima
  <2> QED BY <2>1, <2>2, <2>3, <2>4 DEF Caminho
<1>4. Cobre(f, Inicio(b))
  <2>1. \A r \in 1..cfg.total : r <= Inicio(b) => Tem(f, r)
    BY AteOFim
  <2>2. NadaAlem(f, Inicio(b))
    <3>1. \A k \in DOMAIN entregues[Proc(f)] : entregues[Proc(f)][k][2] \in Int
      BY <1>a DEF TiposDaLeitura
    <3>2. \A k \in DOMAIN entregues[Proc(f)] : entregues[Proc(f)][k][1] = f => entregues[Proc(f)][k][2] <= FimDa(a)
      BY <1>2 DEF Cobre, NadaAlem
    <3> QED BY <1>2, <3>1, <3>2 DEF NadaAlem
  <2> QED BY <2>1, <2>2 DEF Cobre
<1>5. Cobre(f, Ate(f))'
  BY <1>1, <1>2, <1>4 DEF Cobre
<1> QED BY <1>3, <1>5

\* where the server points back to is gone on to once
LEMMA PercursoDeVolta ==
  ASSUME Base, NEW f \in Fontes, NaPagina(f), Percurso(f), pc[f] = "drenar", pagina[f] = <<>>, Caminho(f), Cobre(f, Ate(f)),
         cfg' = cfg, entregues' = entregues, pc'[f] = "pedir",
         NEW a \in Nat, a = endereco[f], endereco'[f] = cfg.laco, cfg.laco # 0,
         vistas'[f] = vistas[f] \cup {cfg.laco}, cfg.estrategia \in {"link", "cursor"}, Ultima(a)
  PROVE  Volta(f)' /\ Repete(f, Ate(f))'
<1>a. Proc(f)' = Proc(f) /\ TiposDoAndamento /\ PedidoBom /\ cfg \in Pedidos
  BY MesmasFontes, DoPedido DEF Base, Tipos
<1>1. /\ \A r : Tem(f, r)' <=> Tem(f, r)
      /\ \A r : UmaVez(f, r)' <=> UmaVez(f, r)
  BY <1>a DEF Tem, UmaVez
<1> PICK n \in Nat : n = emitidas[f]
  BY <1>a DEF TiposDoAndamento
<1>2. FimDa(a) = cfg.total
  <2>1. a >= 1
    BY PaginaLida
  <2>2. Inicio(a) + cfg.limite >= cfg.total /\ FimDa(a) = Menor(Inicio(a) + cfg.limite, cfg.total) /\ Inicio(a) \in Nat
    BY <1>a, <2>1, DoInicio
  <2>3. cfg.limite \in Nat /\ cfg.total \in Nat
    BY <1>a DEF PedidoBom
  <2> QED BY <2>2, <2>3 DEF Menor
<1>3. \A r \in 1..cfg.total : Tem(f, r)
  BY <1>2, AteOFim
<1>4. Volta(f)'
  <2>1. vistas'[f] = 2..a \cup {cfg.laco} /\ \A c \in 1..(a - 1) : ~Ultima(c)
    BY DEF Caminho
  <2>2. \A c : Ultima(c)' <=> Ultima(c)
    BY DEF Ultima
  <2> QED BY <2>1, <2>2 DEF Volta
<1>5. Repete(f, Ate(f))'
  BY <1>1, <1>3 DEF Repete, Cobre
<1> QED BY <1>4, <1>5

\* every page of it was gone on to before
LEMMA VoltaNaoSegue ==
  ASSUME Base, NEW f \in Fontes, pc[f] = "drenar", Volta(f), Avancar(f)
  PROVE  pc'[f] = "fim"
<1>a. Tipos /\ PedidoBom /\ cfg \in Pedidos
  BY DoPedido DEF Base, Tipos
<1> PICK c \in Nat : c = cfg.laco /\ c # 0
  BY <1>a DEF PedidoBom, Volta
<1> PICK u \in Nat : Ultima(u) /\ (\A a \in 1..(u - 1) : ~Ultima(a)) /\ vistas[f] = 2..u \cup {c}
  BY DEF Volta
<1>1. Aponta(c) \in vistas[f]
  <2>1. CASE Ultima(c)
    BY <2>1 DEF Aponta
  <2>2. CASE ~Ultima(c)
    <3>1. ~(u <= c)
      BY <1>a, <2>2, UltimaSobe
    <3>2. c + 1 \in 2..u
      BY <3>1
    <3> QED BY <2>2, <3>2 DEF Aponta
  <2> QED BY <2>1, <2>2
<1>2. NextPageURL(endereco[f], emitidas[f]) \in vistas[f] \cup {SemProxima}
  BY <1>1 DEF NextPageURL, SabeQueAcabou, MoreKeyDaFonte, Volta
<1>3. pc'[f] = DepoisDaPagina(f, NextPageURL(endereco[f], emitidas[f]))
  BY <1>a DEF Avancar, Em, Tipos
<1> QED BY <1>2, <1>3 DEF DepoisDaPagina

\* The next page begins where the last one ended
LEMMA PercursoAvanca ==
  ASSUME Base, NEW f \in Fontes, NaPagina(f), Percurso(f), Avancar(f)
  PROVE  Percurso(f)' /\ NaPagina(f)' /\ entregues' = entregues
<1>a. Tipos /\ TiposDoAndamento /\ PedidoBom /\ cfg \in Pedidos /\ cfg' = cfg
  BY DoPedido DEF Base, Tipos, Avancar
<1>b. pc[f] = "drenar" /\ pagina[f] = <<>> /\ entregues' = entregues
  BY DEF Avancar, leitura
<1> PICK a \in Nat : a = endereco[f]
  BY <1>a DEF TiposDoAndamento
<1> PICK n \in Nat : n = emitidas[f]
  BY <1>a DEF TiposDoAndamento
<1> PICK prox : prox = NextPageURL(a, n)
  OBVIOUS
<1>1. pc'[f] = DepoisDaPagina(f, prox)
  BY <1>a DEF Avancar, Em, Tipos
<1>2. CASE pc'[f] # "pedir"
  <2>1. pc'[f] = "fim"
    BY <1>1, <1>2 DEF DepoisDaPagina
  <2> QED BY <2>1, <1>b DEF Percurso, NaPagina
<1>3. CASE pc'[f] = "pedir"
  <2>1. prox # SemProxima /\ endereco'[f] = prox /\ vistas'[f] = vistas[f] \cup {prox}
    <3>1. prox # SemProxima /\ endereco' = Por(endereco, f, prox) /\ vistas' = Por(vistas, f, vistas[f] \cup {prox})
      BY <1>1, <1>3 DEF Avancar, DepoisDaPagina
    <3> QED BY <3>1, <1>a DEF Por, TiposDoAndamento
  <2>2. Caminho(f) /\ Cobre(f, Ate(f))
    <3>1. ~Volta(f)
      BY <1>b, <1>3, VoltaNaoSegue
    <3> QED BY <3>1, <1>b DEF Percurso
  <2>3. NaPagina(f)'
    BY <1>3 DEF NaPagina
  <2> PICK i \in Nat : i = Inicio(a)
    BY <1>b, PaginaLida
  <2> PICK z \in Int : z = FimDa(a)
    BY <1>b, PaginaLida
  <2>4. (n = 0 /\ z <= i) \/ (n > 0 /\ i + n = z)
    BY <1>b, PaginaLida
  <2>5. a >= 1 \/ cfg.estrategia = "offset"
    BY <1>b, PaginaLida
  <2> PICK l \in Nat : l = cfg.limite /\ l > 0
    BY <1>a DEF PedidoBom
  <2> PICK t \in Nat : t = cfg.total
    BY <1>a DEF PedidoBom
  <2>6. CASE cfg.estrategia \in {"link", "cursor"} /\ Ultima(a)
    <3>1. prox = cfg.laco /\ cfg.laco # 0
      BY <2>1, <2>6 DEF NextPageURL, SabeQueAcabou, MoreKeyDaFonte, Aponta
    <3>2. Volta(f)' /\ Repete(f, Ate(f))'
      BY <1>a, <1>b, <1>3, <2>1, <2>2, <2>6, <3>1, PercursoDeVolta
    <3> QED BY <3>2, <2>3, <1>b DEF Percurso
  <2>7. ASSUME NEW b \in Nat, b = prox, b > a, Inicio(b) \in Int, z <= Inicio(b), n > 0,
               \A r \in 1..t : r <= Inicio(b) => r <= z,
               cfg.estrategia \in {"link", "cursor"} => b = a + 1 /\ ~Ultima(a)
        PROVE  Percurso(f)' /\ NaPagina(f)' /\ entregues' = entregues
    <3>1. Caminho(f)' /\ Cobre(f, Ate(f))'
      BY <1>a, <1>b, <1>3, <2>1, <2>2, <2>7, PercursoEmFrente
    <3> QED BY <3>1, <2>3, <1>b DEF Percurso
  <2>8. CASE cfg.estrategia \in {"link", "cursor"} /\ ~Ultima(a)
    <3>1. prox = a + 1
      BY <2>8 DEF NextPageURL, SabeQueAcabou, MoreKeyDaFonte, Aponta, SemProxima
    <3>2. Inicio(a + 1) = i + l /\ ~(i + l >= t) /\ z = Menor(i + l, t)
      BY <1>a, <2>5, <2>8, DoInicio
    <3>3. z = i + l /\ n > 0
      BY <3>2, <2>4 DEF Menor
    <3> QED BY <2>7, <2>8, <3>1, <3>2, <3>3
  <2>9. CASE cfg.estrategia = "page"
    <3>1. prox = a + 1 /\ n > 0
      BY <2>1, <2>9 DEF NextPageURL, SabeQueAcabou, MoreKeyDaFonte
    <3>2. Inicio(a + 1) = i + l /\ z = Menor(i + l, t)
      BY <1>a, <2>5, <2>9, DoInicio
    <3>3. z <= i + l /\ \A r \in 1..t : r <= i + l => r <= z
      BY <3>2 DEF Menor
    <3> QED BY <2>7, <2>9, <3>1, <3>2, <3>3
  <2>10. CASE cfg.estrategia = "offset"
    <3>1. n > 0 /\ (prox = a + n \/ prox = a + l)
      BY <1>a, <2>1, <2>10 DEF NextPageURL, SabeQueAcabou, MoreKeyDaFonte, PedidoBom
    <3>2. i = a /\ z = Menor(i + l, t)
      BY <1>a, <2>5, <2>10, DoInicio
    <3> PICK b \in Nat : b = prox
      BY <3>1
    <3>3. Inicio(b) = b
      BY <2>10 DEF Inicio
    <3>4. b > a /\ z <= b /\ \A r \in 1..t : r <= b => r <= z
      BY <3>1, <3>2, <2>4 DEF Menor
    <3> QED BY <2>7, <2>10, <3>1, <3>3, <3>4
  <2>11. cfg.estrategia # "nenhuma"
    BY <2>1 DEF NextPageURL, SabeQueAcabou, MoreKeyDaFonte
  <2> QED BY <1>a, <2>6, <2>8, <2>9, <2>10, <2>11 DEF PedidoBom
<1> QED BY <1>2, <1>3

\* the source was read to its end, or to MaxPages and something came of it
Completa(f) ==
  \/ \A r \in 1..cfg.total : Tem(f, r)
  \/ paginas[f] >= cfg.maxPages /\ \E k \in DOMAIN entregues[Proc(f)] : entregues[Proc(f)][k][1] = f

\* A walk that ends after a page has read its source
LEMMA FimCompleta ==
  ASSUME Base, NEW f \in Fontes, NaPagina(f), Percurso(f), Avancar(f), pc'[f] = "fim"
  PROVE  Completa(f)
<1>a. Tipos /\ TiposDoAndamento /\ PedidoBom /\ cfg \in Pedidos
  BY DoPedido DEF Base, Tipos
<1>b. pc[f] = "drenar" /\ pagina[f] = <<>>
  BY DEF Avancar
<1> PICK a \in Nat : a = endereco[f]
  BY <1>a DEF TiposDoAndamento
<1> PICK n \in Nat : n = emitidas[f]
  BY <1>a DEF TiposDoAndamento
<1> PICK prox : prox = NextPageURL(a, n)
  OBVIOUS
<1>1. pc'[f] = DepoisDaPagina(f, prox)
  BY <1>a DEF Avancar, Em, Tipos
<1>2. prox = SemProxima \/ paginas[f] >= cfg.maxPages \/ prox \in vistas[f]
  BY <1>1 DEF DepoisDaPagina
<1>3. CASE Volta(f) /\ Repete(f, Ate(f))
  BY <1>3 DEF Repete, Completa
<1>4. CASE Caminho(f) /\ Cobre(f, Ate(f))
  <2> PICK z : z = FimDa(a)
    OBVIOUS
  <2>1. /\ \A r \in 1..cfg.total : r <= z => Tem(f, r)
        /\ n = 0 => \A r \in 1..cfg.total : Tem(f, r)
        /\ n > 0 => z \in 1..cfg.total
    BY <1>b, <1>4, AteOFim
  <2>2. CASE n = 0
    BY <2>1, <2>2 DEF Completa
  <2>3. CASE n > 0 /\ paginas[f] >= cfg.maxPages
    <3>1. Tem(f, z)
      BY <2>1, <2>3
    <3> QED BY <3>1, <2>3 DEF Tem, Completa
  <2>4. CASE n > 0 /\ (prox = SemProxima \/ prox \in vistas[f])
    <3>1. a >= 1 \/ cfg.estrategia = "offset"
      BY <1>b, PaginaLida
    <3>2. cfg.estrategia = "nenhuma" \/ (cfg.estrategia \in {"link", "cursor"} /\ Ultima(a))
      <4>1. CASE cfg.estrategia \in {"link", "cursor"} /\ ~Ultima(a)
        <5>1. prox = a + 1 /\ vistas[f] = 2..a
          BY <1>4, <4>1 DEF NextPageURL, SabeQueAcabou, MoreKeyDaFonte, Aponta, Caminho
        <5> QED BY <5>1, <2>4 DEF SemProxima
      <4>2. CASE cfg.estrategia \in {"page", "offset"}
        <5>1. prox = a + 1 \/ prox = a + n \/ prox = a + cfg.limite
          BY <1>a, <2>4, <4>2 DEF NextPageURL, SabeQueAcabou, MoreKeyDaFonte, PedidoBom
        <5>2. cfg.limite \in Nat /\ cfg.limite > 0
          BY <1>a DEF PedidoBom
        <5>3. prox \in Nat /\ prox > a
          BY <5>1, <5>2, <2>4
        <5>4. prox \in vistas[f] => prox <= a
          BY <1>4 DEF Caminho
        <5> QED BY <5>3, <5>4, <2>4 DEF SemProxima
      <4> QED BY <1>a, <4>1, <4>2 DEF PedidoBom
    <3>3. z = cfg.total
      <4>1. CASE cfg.estrategia = "nenhuma"
        BY <4>1 DEF FimDa
      <4>2. CASE cfg.estrategia \in {"link", "cursor"} /\ Ultima(a)
        <5>1. Inicio(a) + cfg.limite >= cfg.total /\ z = Menor(Inicio(a) + cfg.limite, cfg.total) /\ Inicio(a) \in Nat
          BY <1>a, <3>1, <4>2, DoInicio
        <5>2. cfg.limite \in Nat /\ cfg.total \in Nat
          BY <1>a DEF PedidoBom
        <5> QED BY <5>1, <5>2 DEF Menor
      <4> QED BY <3>2, <4>1, <4>2
    <3>4. \A r \in 1..cfg.total : r <= z
      BY <3>3
    <3> QED BY <2>1, <3>4 DEF Completa
  <2> QED BY <1>2, <2>2, <2>3, <2>4
<1> QED BY <1>b, <1>3, <1>4 DEF Percurso

--------------------------------------------------------------------------------
(* What every consumer has                                                     *)

Rumo ==
  /\ \A f \in Fontes : Percurso(f) /\ NaPagina(f)
  /\ DosAbertos /\ SemBuraco /\ OrdemComUm /\ RepeticaoCustaUma

\* a row of another source changes nothing for a walk
LEMMA PercursoAoLado ==
  ASSUME Base, NEW f \in Fontes, NaPagina(f), Percurso(f), Entregar(f), NEW e \in Fontes \ {f}, Percurso(e)
  PROVE  Percurso(e)'
<1>a. Tipos /\ TiposDoAndamento /\ cfg' = cfg /\ pc' = pc /\ UNCHANGED <<endereco, vistas>>
  BY DaEntrega DEF Base, Tipos, Entregar
<1>1. emitidas'[e] = emitidas[e] /\ endereco[e] \in Nat /\ emitidas[e] \in Nat
  BY <1>a DEF Entregar, Por, TiposDoAndamento
<1>2. Ate(e)' = Ate(e) /\ Ate(e) \in Int
  <2> PICK i \in Int : i = Inicio(endereco[e])
    BY <1>a, <1>1, DaPagina DEF Tipos
  <2>1. Inicio(endereco[e])' = i
    BY <1>a DEF Inicio
  <2> QED BY <1>a, <1>1, <2>1 DEF Ate
<1>3. /\ \A r \in Int : Tem(e, r) => Tem(e, r)'
      /\ \A k \in Int : NadaAlem(e, k) => NadaAlem(e, k)'
      /\ \A r \in Int : UmaVez(e, r) => UmaVez(e, r)'
  BY DepoisDaEntrega
<1>4. \A r \in 1..cfg.total : r \in Int
  OBVIOUS
<1>5. Caminho(e) => Caminho(e)'
  BY <1>a DEF Caminho, Ultima
<1>6. Volta(e) => Volta(e)'
  BY <1>a DEF Volta, Ultima
<1>7. Cobre(e, Ate(e)) => Cobre(e, Ate(e))'
  BY <1>a, <1>2, <1>3, <1>4 DEF Cobre
<1>8. Repete(e, Ate(e)) => Repete(e, Ate(e))'
  BY <1>a, <1>2, <1>3, <1>4 DEF Repete
<1> QED BY <1>a, <1>5, <1>6, <1>7, <1>8 DEF Percurso

\* the rows before the k-th of a sequence are those it follows
SemFalta(s, k) ==
  /\ \A m \in 1..(k - 1) : s[m][1] = s[k][1] => s[m][2] < s[k][2]
  /\ s[k][2] = 1 \/ \E m \in 1..(k - 1) : s[m] = <<s[k][1], s[k][2] - 1>>

\* the positions of a sequence with one row more
LEMMA Posicoes ==
  ASSUME NEW l \in Nat
  PROVE  /\ \A k \in 1..(l + 1) : k \in 1..l \/ k = l + 1
         /\ 1..l \subseteq 1..(l + 1) /\ l + 1 \in 1..(l + 1) /\ (l + 1) - 1 = l
         /\ \A k \in 1..l : \A m \in 1..(k - 1) : m \in 1..l
         /\ \A a, b \in 1..(l + 1) : a < b => a \in 1..l
OBVIOUS

\* the sequence of the consumer with one row more
LEMMA SequenciaFica ==
  ASSUME Base, Rumo, NEW f \in Fontes, Entregar(f)
  PROVE  DosAbertos' /\ SemBuraco' /\ OrdemComUm' /\ RepeticaoCustaUma'
<1>a. /\ Tipos /\ TiposDoAndamento /\ TiposDaLeitura /\ Proc(f) \in Processos /\ f \in DaOrigem(Proc(f)) /\ cfg' = cfg
      /\ Fontes' = Fontes /\ Processos' = Processos /\ \A p \in Processos : DaOrigem(p)' = DaOrigem(p)
  BY DasFontes, MesmasFontes DEF Base, Tipos, Entregar
<1>b. NaPagina(f) /\ Percurso(f) /\ DosAbertos /\ SemBuraco /\ OrdemComUm /\ RepeticaoCustaUma
  BY DEF Rumo
<1> PICK x : x = Ate(f) + 1
  OBVIOUS
<1>1. /\ pc[f] = "drenar" /\ pc' = pc /\ x \in 1..cfg.total /\ UmaVez(f, x)
      /\ entregues[Proc(f)] \in Seq(Fontes \X Int) /\ entregues'[Proc(f)] = Append(entregues[Proc(f)], <<f, x>>)
      /\ \A q \in Processos \ {Proc(f)} : entregues'[q] = entregues[q]
  BY <1>b, DaEntrega
<1> PICK s \in Seq(Fontes \X Int) : s = entregues[Proc(f)]
  BY <1>1
<1> PICK t : t = entregues'[Proc(f)]
  OBVIOUS
<1> PICK l \in Nat : l = Len(s)
  OBVIOUS
<1>2. DOMAIN t = 1..(l + 1) /\ DOMAIN s = 1..l /\ (\A k \in 1..l : t[k] = s[k]) /\ t[l + 1] = <<f, x>>
  <2>1. <<f, x>> \in Fontes \X Int
    BY <1>1
  <2> QED BY <1>1, <2>1, DoAppend
<1>3. (\A k \in 1..(l + 1) : k \in 1..l \/ k = l + 1) /\ 1..l \subseteq 1..(l + 1) /\ l + 1 \in 1..(l + 1)
  BY Posicoes
<1>4. DosAbertos'
  <2> SUFFICES ASSUME NEW p \in Processos, NEW k \in DOMAIN entregues'[p]
               PROVE  /\ entregues'[p][k][1] \in DaOrigem(p) /\ pc[entregues'[p][k][1]] # "fila"
                      /\ entregues'[p][k][2] \in 1..cfg.total
    BY <1>a, <1>1 DEF DosAbertos
  <2>1. CASE p # Proc(f)
    BY <2>1, <1>b, <1>1 DEF DosAbertos
  <2>2. CASE p = Proc(f) /\ k \in 1..l
    <3>1. k \in DOMAIN s /\ t[k] = s[k] /\ Proc(f) \in Processos
      BY <2>2, <1>a, <1>2
    <3>2. s[k][1] \in DaOrigem(Proc(f)) /\ pc[s[k][1]] # "fila" /\ s[k][2] \in 1..cfg.total
      BY <3>1, <1>b DEF DosAbertos
    <3> QED BY <2>2, <3>1, <3>2
  <2>3. CASE p = Proc(f) /\ k = l + 1
    BY <2>3, <1>a, <1>1, <1>2
  <2> QED BY <2>1, <2>2, <2>3, <1>2, <1>3
<1>5. SemBuraco'
  <2> SUFFICES ASSUME cfg.laco = 0, NEW p \in Processos, NEW k \in DOMAIN entregues'[p]
               PROVE  SemFalta(entregues'[p], k)
    BY <1>a DEF SemBuraco, SemFalta
  <2>a. \A q \in Processos : \A j \in DOMAIN entregues[q] : SemFalta(entregues[q], j)
    BY <1>b DEF SemBuraco, SemFalta
  <2>1. CASE p # Proc(f)
    <3>1. entregues'[p] = entregues[p]
      BY <2>1, <1>1
    <3> QED BY <3>1, <2>a
  <2>2. CASE p = Proc(f) /\ k \in 1..l
    <3>0. \A m \in 1..(k - 1) : m \in 1..l
      BY <2>2, Posicoes
    <3>1. t[k] = s[k] /\ \A m \in 1..(k - 1) : m \in 1..l /\ t[m] = s[m]
      BY <2>2, <3>0, <1>2
    <3>2. SemFalta(s, k)
      BY <2>2, <2>a, <1>a, <1>2
    <3>3. \A m \in 1..(k - 1) : t[m][1] = t[k][1] => t[m][2] < t[k][2]
      <4>1. \A m \in 1..(k - 1) : s[m][1] = s[k][1] => s[m][2] < s[k][2]
        BY <3>2, Zenon DEF SemFalta
      <4> SUFFICES ASSUME NEW m \in 1..(k - 1), t[m][1] = t[k][1] PROVE t[m][2] < t[k][2]
        OBVIOUS
      <4>2. t[m] = s[m] /\ t[k] = s[k]
        BY <3>1
      <4> QED BY <4>1, <4>2
    <3>4. t[k][2] = 1 \/ \E m \in 1..(k - 1) : t[m] = <<t[k][1], t[k][2] - 1>>
      <4>1. s[k][2] = 1 \/ \E m \in 1..(k - 1) : s[m] = <<s[k][1], s[k][2] - 1>>
        BY <3>2, Zenon DEF SemFalta
      <4>2. CASE s[k][2] = 1
        BY <4>2, <3>1
      <4>3. ASSUME NEW m \in 1..(k - 1), s[m] = <<s[k][1], s[k][2] - 1>>
            PROVE  t[m] = <<t[k][1], t[k][2] - 1>>
        BY <4>3, <3>1, Zenon
      <4> QED BY <4>1, <4>2, <4>3, Zenon
    <3>5. SemFalta(t, k)
      BY <3>3, <3>4, Zenon DEF SemFalta
    <3> QED BY <2>2, <3>5
  <2>3. CASE p = Proc(f) /\ k = l + 1
    <3>1. (l + 1) - 1 = l
      BY Posicoes
    <3>2. Cobre(f, Ate(f))
      BY <1>b, <1>1 DEF Percurso, Volta
    <3>3. Ate(f) \in Int
      <4> PICK i \in Int : i = Inicio(endereco[f])
        BY <1>a, DaPagina DEF TiposDoAndamento, Tipos
      <4>1. emitidas[f] \in Nat
        BY <1>a DEF TiposDoAndamento
      <4> QED BY <1>1, <4>1 DEF Ate
    <3>4. \A m \in 1..l : s[m][1] = f => s[m][2] < x
      <4>1. \A m \in 1..l : s[m][1] = f => s[m][2] <= Ate(f)
        <5>1. \A m \in DOMAIN s : s[m][1] = f => s[m][2] <= Ate(f)
          BY <3>2 DEF Cobre, NadaAlem
        <5> QED BY <5>1, <1>2
      <4>2. \A m \in 1..l : s[m][2] \in Int
        BY <1>2
      <4> QED BY <4>1, <4>2, <3>3
    <3>5. x = 1 \/ \E m \in 1..l : s[m] = <<f, x - 1>>
      <4> SUFFICES ASSUME x # 1 PROVE \E m \in 1..l : s[m] = <<f, x - 1>>
        OBVIOUS
      <4>1. x - 1 = Ate(f) /\ x - 1 \in 1..cfg.total
        <5>1. x \in 1..cfg.total /\ cfg.total \in Nat /\ x \in Int
          BY <1>1, DoPedido DEF Base, Tipos, PedidoBom
        <5> QED BY <3>3, <5>1
      <4>2. Tem(f, x - 1)
        BY <4>1, <3>2, <3>3 DEF Cobre
      <4>3. \E m \in DOMAIN s : s[m] = <<f, x - 1>>
        BY <4>2, Zenon DEF Tem
      <4> QED BY <4>3, <1>2
    <3>6. \A m \in 1..l : t[m] = s[m]
      BY <1>2
    <3>7. SemFalta(t, l + 1)
      <4>1. t[l + 1][1] = f /\ t[l + 1][2] = x
        BY <1>2
      <4>2. \A m \in 1..l : t[m][1] = t[l + 1][1] => t[m][2] < t[l + 1][2]
        <5> SUFFICES ASSUME NEW m \in 1..l, t[m][1] = t[l + 1][1] PROVE t[m][2] < t[l + 1][2]
          OBVIOUS
        <5>1. t[m] = s[m] /\ s[m][1] = f
          BY <3>6, <4>1
        <5>2. s[m][2] < x
          BY <3>4, <5>1
        <5> QED BY <4>1, <5>1, <5>2
      <4>3. t[l + 1][2] = 1 \/ \E m \in 1..l : t[m] = <<t[l + 1][1], t[l + 1][2] - 1>>
        BY <3>5, <3>6, <4>1
      <4> QED BY <3>1, <4>2, <4>3 DEF SemFalta
    <3> QED BY <2>3, <3>7
  <2> QED BY <2>1, <2>2, <2>3, <1>2, <1>3
<1>6. OrdemComUm'
  <2> SUFFICES ASSUME cfg.trabalhadores = 1, NEW p \in Processos, NEW a \in DOMAIN entregues'[p], NEW b \in DOMAIN entregues'[p], a < b
               PROVE  entregues'[p][a][1] <= entregues'[p][b][1]
    BY <1>a DEF OrdemComUm
  <2>1. CASE p # Proc(f)
    BY <2>1, <1>b, <1>1 DEF OrdemComUm
  <2>2. CASE p = Proc(f) /\ b \in 1..l
    <3>a. a \in 1..(l + 1) /\ b \in 1..(l + 1)
      BY <2>2, <1>2
    <3>1. a \in 1..l
      BY <3>a, Posicoes
    <3>2. t[a] = s[a] /\ t[b] = s[b] /\ a \in DOMAIN s /\ b \in DOMAIN s
      BY <2>2, <3>1, <1>2
    <3>3. s[a][1] <= s[b][1]
      BY <3>2, <1>b, <1>a DEF OrdemComUm
    <3> QED BY <2>2, <3>2, <3>3
  <2>3. CASE p = Proc(f) /\ b = l + 1
    <3>a. a \in 1..(l + 1) /\ b \in 1..(l + 1)
      BY <2>3, <1>2
    <3>b. a \in 1..l
      BY <3>a, Posicoes
    <3>1. a \in 1..l /\ t[a] = s[a]
      BY <3>b, <1>2
    <3>2. s[a][1] \in DaOrigem(Proc(f)) /\ pc[s[a][1]] # "fila"
      BY <3>1, <1>b, <1>2, <1>a DEF DosAbertos
    <3> PICK g \in Fontes : g = s[a][1] /\ Proc(g) = Proc(f)
      BY <3>2 DEF DaOrigem
    <3>3. ~(f < g)
      BY <3>2, <2>3, <1>1 DEF Base, EmFila
    <3>4. g \in Nat /\ f \in Nat
      BY <1>a, DasFontes DEF Tipos
    <3>5. t[a][1] = g /\ t[b][1] = f
      BY <3>1, <2>3, <1>2
    <3> QED BY <2>3, <3>3, <3>4, <3>5
  <2> QED BY <2>1, <2>2, <2>3, <1>2, <1>3
<1>7. RepeticaoCustaUma'
  <2> SUFFICES ASSUME NEW p \in Processos, NEW a \in DOMAIN entregues'[p], NEW b \in DOMAIN entregues'[p], NEW c \in DOMAIN entregues'[p],
                      a < b, b < c, entregues'[p][a] = entregues'[p][b], entregues'[p][b] = entregues'[p][c]
               PROVE  FALSE
    BY <1>a DEF RepeticaoCustaUma
  <2>1. CASE p # Proc(f)
    BY <2>1, <1>b, <1>1 DEF RepeticaoCustaUma
  <2>2. CASE p = Proc(f)
    <3>0. a \in 1..(l + 1) /\ b \in 1..(l + 1) /\ c \in 1..(l + 1)
      BY <2>2, <1>2
    <3>1. a \in 1..l /\ b \in 1..l /\ t[a] = s[a] /\ t[b] = s[b]
      <4>1. a \in 1..l /\ b \in 1..l
        BY <3>0, Posicoes
      <4>2. t[a] = s[a] /\ t[b] = s[b]
        BY <4>1, <1>2
      <4> QED BY <4>1, <4>2
    <3>2. CASE c \in 1..l
      <4>1. s[a] = s[b] /\ s[b] = s[c]
        BY <2>2, <3>1, <3>2, <1>2
      <4>2. a \in DOMAIN entregues[Proc(f)] /\ b \in DOMAIN entregues[Proc(f)] /\ c \in DOMAIN entregues[Proc(f)]
        BY <3>1, <3>2, <1>2
      <4> QED BY <4>1, <4>2, <1>a, <1>b DEF RepeticaoCustaUma
    <3>3. CASE c = l + 1
      <4>1. s[a] = <<f, x>> /\ s[b] = <<f, x>>
        BY <2>2, <3>1, <3>3, <1>2
      <4>2. a = b
        BY <4>1, <3>1, <1>1, <1>2 DEF UmaVez
      <4> QED BY <4>2, <3>1
    <3> QED BY <2>2, <3>2, <3>3, <1>2, <1>3
  <2> QED BY <2>1, <2>2
<1> QED BY <1>4, <1>5, <1>6, <1>7

\* a walk that another's step, or the end of its process, leaves where it is
LEMMA OutroParado ==
  ASSUME Base, cfg' = cfg, entregues' = entregues, NEW e \in Fontes, Percurso(e), NaPagina(e),
         endereco'[e] = endereco[e], vistas'[e] = vistas[e], pagina'[e] = pagina[e], emitidas'[e] = emitidas[e],
         pc'[e] = pc[e] \/ pc'[e] = "fim"
  PROVE  Percurso(e)' /\ NaPagina(e)'
<1>1. CASE pc'[e] = "fim"
  BY <1>1 DEF Percurso, NaPagina
<1>2. CASE pc'[e] = pc[e]
  <2>1. Ate(e)' = Ate(e)
    BY <1>2 DEF Ate, Inicio
  <2> QED BY <1>2, <2>1, MesmoPercurso, MesmaPagina
<1> QED BY <1>1, <1>2

\* A step that hands over nothing leaves what every consumer has as it was
LEMMA SequenciaParada ==
  ASSUME Rumo, cfg' = cfg, entregues' = entregues, \A e \in Fontes : pc[e] # "fila" => pc'[e] # "fila"
  PROVE  DosAbertos' /\ SemBuraco' /\ OrdemComUm' /\ RepeticaoCustaUma'
<1>1. Processos' = Processos /\ \A p \in Processos : DaOrigem(p)' = DaOrigem(p) /\ DaOrigem(p) \subseteq Fontes
  BY MesmasFontes DEF DaOrigem
<1>2. DosAbertos'
  BY <1>1 DEF Rumo, DosAbertos
<1>3. SemBuraco' /\ OrdemComUm' /\ RepeticaoCustaUma'
  BY <1>1 DEF Rumo, SemBuraco, OrdemComUm, RepeticaoCustaUma
<1> QED BY <1>2, <1>3

\* No walk has begun, and nothing was handed over, at the start
LEMMA RumoInicial == Init => Rumo
<1> SUFFICES ASSUME Init PROVE Rumo
  OBVIOUS
<1>1. /\ cfg \in Pedidos /\ pc = [f \in Fontes |-> "fila"] /\ endereco = [f \in Fontes |-> FirstPageURL]
      /\ vistas = [f \in Fontes |-> {}] /\ entregues = [p \in Processos |-> <<>>] /\ PedidoBom
      /\ \A f \in Fontes : Proc(f) \in Processos
  BY DoPedido, DasFontes DEF Init
<1>2. ASSUME NEW f \in Fontes PROVE Percurso(f) /\ NaPagina(f)
  <2>1. entregues[Proc(f)] = <<>> /\ DOMAIN entregues[Proc(f)] = {} /\ pc[f] = "fila" /\ endereco[f] = FirstPageURL /\ vistas[f] = {}
    BY <1>1
  <2>2. Inicio(FirstPageURL) = 0 /\ Ate(f) = 0
    <3>1. cfg.limite \in Int
      BY <1>1 DEF PedidoBom
    <3>2. (1 - 1) * cfg.limite = 0
      BY <3>1
    <3> QED BY <2>1, <3>2 DEF Inicio, FirstPageURL, Ate
  <2>3. Caminho(f)
    <3>1. cfg.estrategia \in {"link", "cursor"} => endereco[f] = 1
      BY <2>1 DEF FirstPageURL
    <3>2. 2..1 = {} /\ 1..(1 - 1) = {}
      OBVIOUS
    <3> QED BY <2>1, <3>1, <3>2 DEF Caminho, FirstPageURL
  <2>4. Cobre(f, 0)
    <3>1. \A r \in 1..cfg.total : ~(r <= 0)
      BY <1>1 DEF PedidoBom
    <3> QED BY <2>1, <3>1 DEF Cobre, NadaAlem, UmaVez
  <2> QED BY <2>1, <2>2, <2>3, <2>4 DEF Percurso, NaPagina
<1>3. DosAbertos /\ SemBuraco /\ OrdemComUm /\ RepeticaoCustaUma
  <2>1. \A p \in Processos : DOMAIN entregues[p] = {}
    BY <1>1
  <2> QED BY <2>1 DEF DosAbertos, SemBuraco, OrdemComUm, RepeticaoCustaUma
<1> QED BY <1>2, <1>3 DEF Rumo

\* Every step keeps what is said of walks and of sequences
LEMMA RumoFica == Base /\ Rumo /\ [Next]_vars => Rumo'
<1> SUFFICES ASSUME Base, Rumo, [Next]_vars PROVE Rumo'
  OBVIOUS
<1>a. cfg' = cfg /\ Fontes' = Fontes
  BY PedidoFica, MesmasFontes
<1>b. \A e \in Fontes : Percurso(e) /\ NaPagina(e)
  BY DEF Rumo
<1>1. CASE \E f \in Fontes : Caminhar(f)
  <2> PICK f \in Fontes : Mover(f)
    BY <1>1, Passos
  <2>1. \A e \in Fontes \ {f} : /\ endereco'[e] = endereco[e] /\ pagina'[e] = pagina[e] /\ pc'[e] = pc[e]
                                /\ emitidas'[e] = emitidas[e] /\ vistas'[e] = vistas[e]
    BY <1>a, AndamentoTipado, PassoDoPc DEF Base
  <2>2. CASE Entregar(f)
    <3>1. Percurso(f)' /\ NaPagina(f)'
      BY <1>b, <2>2, DaEntrega, PercursoComEntrega
    <3>2. \A e \in Fontes \ {f} : Percurso(e)' /\ NaPagina(e)'
      BY <1>a, <1>b, <2>1, <2>2, PercursoAoLado, MesmaPagina
    <3>3. DosAbertos' /\ SemBuraco' /\ OrdemComUm' /\ RepeticaoCustaUma'
      BY <2>2, SequenciaFica
    <3> QED BY <1>a, <3>1, <3>2, <3>3 DEF Rumo
  <2>3. CASE ~Entregar(f)
    <3>1. Percurso(f)' /\ NaPagina(f)' /\ entregues' = entregues
      BY <1>a, <1>b, <2>3, PercursoParado, PercursoAvanca
    <3>2. \A e \in Fontes \ {f} : Percurso(e)' /\ NaPagina(e)'
      BY <1>a, <1>b, <2>1, <3>1, OutroParado
    <3>3. \A e \in Fontes : pc[e] # "fila" => pc'[e] # "fila"
      BY PassoDoPc DEF Base
    <3>4. DosAbertos' /\ SemBuraco' /\ OrdemComUm' /\ RepeticaoCustaUma'
      BY <1>a, <3>1, <3>3, SequenciaParada
    <3> QED BY <1>a, <3>1, <3>2, <3>4 DEF Rumo
  <2> QED BY <2>2, <2>3
<1>2. CASE UNCHANGED vars \/ \E p \in Processos : Fechar(p) \/ Cair(p) \/ (Vencer(p) /\ UNCHANGED <<andamento, leitura>>)
  <2>1. /\ UNCHANGED <<endereco, pagina, emitidas, vistas, entregues>>
        /\ \A e \in Fontes : pc'[e] = pc[e] \/ pc'[e] = "fim"
    <3>1. CASE UNCHANGED vars
      BY <3>1 DEF vars, andamento, leitura
    <3>2. CASE \E p \in Processos : Fechar(p) \/ Cair(p) \/ (Vencer(p) /\ UNCHANGED <<andamento, leitura>>)
      <4>1. entregues' = entregues
        BY <3>2 DEF Fechar, Cair, leitura
      <4> QED BY <3>2, <4>1, DoProcesso DEF andamento
    <3> QED BY <1>2, <3>1, <3>2
  <2>2. \A e \in Fontes : Percurso(e)' /\ NaPagina(e)'
    BY <1>a, <1>b, <2>1, OutroParado
  <2>3. DosAbertos' /\ SemBuraco' /\ OrdemComUm' /\ RepeticaoCustaUma'
    BY <1>a, <2>1, SequenciaParada
  <2> QED BY <1>a, <2>2, <2>3 DEF Rumo
<1> QED BY <1>1, <1>2 DEF Next

\* Whatever was retried, cancelled, crashed or read beside it, a consumer has of each source
\* a beginning of its rows, in order and once each, in the order of the sources with one
\* worker; a server that points back costs one page (from/many.go, extract.go)
THEOREM LeituraSempreFiel == Spec => []LeituraFiel
<1>1. Init => Base /\ Rumo
  BY BaseInicial, RumoInicial
<1>2. Base /\ Rumo /\ [Next]_vars => (Base /\ Rumo)'
  BY BaseFica, RumoFica
<1>3. Base /\ Rumo => LeituraFiel
  <2> SUFFICES ASSUME Base, Rumo PROVE TypeOK
    BY DEF Rumo, LeituraFiel
  <2>1. TiposDoSegredo /\ TiposDoAndamento /\ TiposDaLeitura /\ Lugares /\ guardado.v \in Deslogada..emitida
    BY DEF Base, Tipos, TiposDoSegredo
  <2> QED BY <2>1 DEF Base, Tipos, TypeOK, Fases, TiposDoSegredo, TiposDoAndamento, TiposDaLeitura, Lugares
<1> QED BY <1>1, <1>2, <1>3, PTL DEF Spec

--------------------------------------------------------------------------------
(* The outcome                                                                 *)

\* what the state of a consumer says of its walks, and what its outcome does
Fechada(p) ==
  /\ consumidor[p] = "lendo" => desfecho[p] = "nenhum"
  /\ consumidor[p] = "cancelado" => desfecho[p] \in {"nenhum", "erro"}
  /\ falharam[p] \subseteq DaOrigem(p)
  /\ \A f \in DaOrigem(p) : pc[f] = "fim" /\ (consumidor[p] = "lendo" \/ desfecho[p] = "ok") => f \in falharam[p] \/ Completa(f)
  /\ desfecho[p] = "ok" => /\ \A f \in DaOrigem(p) : pc[f] = "fim"
                           /\ entregues[p] = <<>> => falharam[p] # DaOrigem(p)
Desfechos == \A p \in Processos : Fechada(p)

\* what was complete stays so
LEMMA CompletaFica ==
  ASSUME Base, cfg' = cfg, NEW e \in Fontes, Completa(e), entregues'[Proc(e)] = entregues[Proc(e)], paginas'[e] = paginas[e]
  PROVE  Completa(e)'
<1>1. Proc(e)' = Proc(e)
  BY MesmasFontes
<1> QED BY <1>1 DEF Completa, Tem

\* A source that was read to its end stays so when a row is handed over
LEMMA CompletaComEntrega ==
  ASSUME Base, Rumo, NEW f \in Fontes, Entregar(f), NEW e \in Fontes, Completa(e)
  PROVE  Completa(e)'
<1>1. cfg' = cfg /\ UNCHANGED paginas /\ Proc(e)' = Proc(e) /\ Proc(e) \in Processos
  BY MesmasFontes, DasFontes DEF Entregar, Base, Tipos
<1>2. Percurso(f) /\ NaPagina(f)
  BY DEF Rumo
<1>3. CASE \A r \in 1..cfg.total : Tem(e, r)
  <2>1. \A r \in 1..cfg.total : r \in Int
    OBVIOUS
  <2>2. \A r \in 1..cfg.total : Tem(e, r)'
    BY <1>2, <1>3, <2>1, DepoisDaEntrega
  <2> QED BY <1>1, <2>2 DEF Completa
<1>4. CASE paginas[e] >= cfg.maxPages /\ \E k \in DOMAIN entregues[Proc(e)] : entregues[Proc(e)][k][1] = e
  <2> PICK k \in DOMAIN entregues[Proc(e)] : entregues[Proc(e)][k][1] = e
    BY <1>4
  <2>1. k \in DOMAIN entregues'[Proc(e)] /\ entregues'[Proc(e)][k] = entregues[Proc(e)][k]
    <3> PICK x : x = Ate(f) + 1
      OBVIOUS
    <3>1. /\ x \in 1..cfg.total
          /\ entregues[Proc(f)] \in Seq(Fontes \X Int) /\ entregues'[Proc(f)] = Append(entregues[Proc(f)], <<f, x>>)
          /\ \A q \in Processos \ {Proc(f)} : entregues'[q] = entregues[q]
      BY <1>2, DaEntrega
    <3>2. CASE Proc(e) # Proc(f)
      BY <1>1, <3>1, <3>2
    <3>3. CASE Proc(e) = Proc(f)
      <4> PICK s \in Seq(Fontes \X Int) : s = entregues[Proc(f)]
        BY <3>1
      <4>1. <<f, x>> \in Fontes \X Int
        BY <3>1
      <4>2. /\ DOMAIN Append(s, <<f, x>>) = 1..(Len(s) + 1) /\ DOMAIN s = 1..Len(s) /\ Len(s) \in Nat
            /\ \A j \in DOMAIN s : Append(s, <<f, x>>)[j] = s[j]
        BY <4>1, DoAppend
      <4>3. k \in 1..Len(s)
        BY <3>3, <4>2
      <4>4. k \in 1..(Len(s) + 1)
        BY <4>2, <4>3
      <4> QED BY <3>1, <3>3, <4>2, <4>3, <4>4
    <3> QED BY <3>2, <3>3
  <2> QED BY <1>1, <1>4, <2>1 DEF Completa
<1> QED BY <1>3, <1>4 DEF Completa

\* the consumer of a walk that moves
LEMMA DoConsumidor ==
  ASSUME Base, NEW f \in Fontes, Mover(f)
  PROVE  LET p == Proc(f)
         IN /\ consumidor[p] \in {"lendo", "cancelado"} /\ consumidor'[p] \in {"lendo", "cancelado"}
            /\ consumidor'[p] = "lendo" => consumidor[p] = "lendo" /\ desfecho'[p] = desfecho[p]
            /\ desfecho'[p] = desfecho[p] \/ (consumidor'[p] = "cancelado" /\ desfecho'[p] = "erro")
            /\ falharam'[p] = falharam[p] \/ falharam'[p] = falharam[p] \cup {f}
            /\ pc'[f] = "fim" /\ consumidor'[p] = "lendo" => f \in falharam'[p] \/ (Avancar(f) /\ paginas' = paginas)
<1>a. Tipos /\ TiposDaLeitura /\ Proc(f) \in Processos
  BY DasFontes DEF Base, Tipos
<1>1. CASE Largar(f)
  BY <1>1 DEF Largar, leitura
<1>2. CASE Errar(f)
  <2>1. consumidor[Proc(f)] = "lendo"
    BY <1>2 DEF Errar, Vivo
  <2>2. CASE Tolerar(f)
    <3>1. falharam'[Proc(f)] = falharam[Proc(f)] \cup {f} /\ consumidor' = consumidor /\ desfecho' = desfecho
      BY <2>2, <1>a DEF Tolerar, Por, TiposDaLeitura
    <3> QED BY <2>1, <3>1
  <2>3. CASE Abortar(f)
    <3>1. consumidor'[Proc(f)] = "cancelado" /\ desfecho'[Proc(f)] = "erro" /\ falharam' = falharam
      BY <2>3, <1>a DEF Abortar, Por, TiposDaLeitura
    <3> QED BY <2>1, <3>1
  <2> QED BY <1>2, <2>2, <2>3 DEF Errar
<1>3. CASE Entregar(f)
  <2>1. consumidor[Proc(f)] = "lendo" /\ pc'[f] = "drenar" /\ falharam' = falharam /\ desfecho' = desfecho
    BY <1>3 DEF Entregar, Vivo
  <2>2. consumidor' = consumidor \/ consumidor'[Proc(f)] = "cancelado"
    BY <1>3, <1>a DEF Entregar, Por, TiposDaLeitura
  <2> QED BY <2>1, <2>2
<1>4. CASE Avancar(f)
  BY <1>4 DEF Avancar, Vivo, leitura
<1>5. CASE ~Largar(f) /\ ~Errar(f) /\ ~Entregar(f) /\ ~Avancar(f)
  <2>1. consumidor[Proc(f)] = "lendo" /\ UNCHANGED <<consumidor, falharam, desfecho>>
    BY <1>5 DEF Mover, Comecar, Receber, Recusar, Falhar, Desistir, Aplicar, NaoDecodificar, Vivo, leitura
  <2>2. pc'[f] # "fim"
    BY <1>5, <1>a DEF Mover, Comecar, Obter, ObterSemErro, Usar, Produzir, SemCredencial, NaoObter, Renovar, DepoisDeRodar,
       NaoRenovar, Guardar, Receber, Recusar, Falhar, Desistir, Aplicar, NaoDecodificar, Em, Tipos
  <2> QED BY <2>1, <2>2
<1> QED BY <1>1, <1>2, <1>3, <1>4, <1>5

\* No consumer has an outcome at the start
LEMMA DesfechosIniciais == Init => Desfechos
<1> SUFFICES ASSUME Init, NEW p \in Processos PROVE Fechada(p)
  BY DEF Desfechos
<1>1. \A f \in DaOrigem(p) : pc[f] = "fila"
  BY DEF Init, DaOrigem
<1> QED BY <1>1 DEF Init, Fechada

\* a walk's step: its consumer is still open, and the other consumers are as they were
LEMMA DesfechosFicam ==
  ASSUME Base, Rumo, Desfechos, NEW f \in Fontes, Mover(f), cfg' = cfg
  PROVE  Desfechos'
<1> SUFFICES ASSUME NEW p \in Processos PROVE Fechada(p)'
  BY MesmasFontes DEF Desfechos
<1>a. Tipos /\ Proc(f) \in Processos /\ DaOrigem(p)' = DaOrigem(p) /\ Fechada(p)
      /\ (\A e \in DaOrigem(p) : e \in Fontes /\ Proc(e) = p)
  BY DasFontes, MesmasFontes DEF Base, Tipos, Desfechos, DaOrigem
<1>b. \A e \in Fontes \ {f} : pc'[e] = pc[e] /\ paginas'[e] = paginas[e]
  BY <1>a, PassoDoPc, AndamentoTipado DEF Base
<1>1. CASE p # Proc(f)
  <2>1. consumidor'[p] = consumidor[p] /\ entregues'[p] = entregues[p] /\ falharam'[p] = falharam[p] /\ desfecho'[p] = desfecho[p]
    BY <1>1, <1>a, LeituraTipada DEF Base
  <2>2. \A e \in DaOrigem(p) : pc'[e] = pc[e] /\ (Completa(e) => Completa(e)')
    BY <1>1, <1>a, <1>b, <2>1, CompletaFica
  <2> QED BY <1>a, <2>1, <2>2 DEF Fechada
<1>2. CASE p = Proc(f)
  <2>1. /\ consumidor[p] \in {"lendo", "cancelado"} /\ consumidor'[p] \in {"lendo", "cancelado"}
        /\ consumidor'[p] = "lendo" => consumidor[p] = "lendo" /\ desfecho'[p] = desfecho[p]
        /\ desfecho'[p] = desfecho[p] \/ (consumidor'[p] = "cancelado" /\ desfecho'[p] = "erro")
        /\ falharam'[p] = falharam[p] \/ falharam'[p] = falharam[p] \cup {f}
        /\ pc'[f] = "fim" /\ consumidor'[p] = "lendo" => f \in falharam'[p] \/ (Avancar(f) /\ paginas' = paginas)
    BY <1>2, DoConsumidor
  <2>2. falharam'[p] \subseteq DaOrigem(p)
    BY <1>2, <1>a, <2>1, DasFontes DEF Fechada, Tipos
  <2>3. desfecho'[p] \in {"nenhum", "erro"} /\ (consumidor'[p] = "lendo" => desfecho'[p] = "nenhum")
    BY <1>a, <2>1 DEF Fechada
  <2>4. ASSUME consumidor'[p] = "lendo", NEW e \in DaOrigem(p), pc'[e] = "fim" PROVE e \in falharam'[p] \/ Completa(e)'
    <3>1. CASE e = f
      <4> SUFFICES ASSUME Avancar(f), paginas' = paginas PROVE Completa(f)'
        BY <2>1, <2>4, <3>1
      <4>1. NaPagina(f) /\ Percurso(f) /\ entregues' = entregues
        BY DEF Rumo, Avancar, leitura
      <4>2. Completa(f)
        BY <2>4, <3>1, <4>1, FimCompleta
      <4> QED BY <4>1, <4>2, CompletaFica
    <3>2. CASE e # f
      <4>1. pc[e] = "fim" /\ consumidor[p] = "lendo"
        BY <1>a, <1>b, <2>1, <2>4, <3>2
      <4>2. e \in falharam[p] \/ Completa(e)
        BY <1>a, <4>1 DEF Fechada
      <4>3. Completa(e) => Completa(e)'
        <5>1. CASE Entregar(f)
          BY <5>1, <1>a, CompletaComEntrega
        <5>2. CASE ~Entregar(f)
          <6>1. entregues' = entregues
            BY <5>2, PercursoParado, PercursoAvanca DEF Rumo
          <6> QED BY <1>a, <1>b, <3>2, <6>1, CompletaFica
        <5> QED BY <5>1, <5>2
      <4> QED BY <2>1, <4>2, <4>3
    <3> QED BY <3>1, <3>2
  <2> QED BY <1>a, <2>1, <2>2, <2>3, <2>4 DEF Fechada
<1> QED BY <1>1, <1>2

\* the end of a process
LEMMA DesfechosFecham ==
  ASSUME Base, Desfechos, NEW q \in Processos, Fechar(q) \/ Cair(q) \/ (Vencer(q) /\ UNCHANGED <<andamento, leitura>>)
  PROVE  Desfechos'
<1>a. cfg' = cfg /\ UNCHANGED <<paginas, entregues, falharam>> /\ Tipos /\ TiposDaLeitura
      /\ \A e \in Fontes : pc'[e] = pc[e] \/ (pc'[e] = "fim" /\ Proc(e) = q)
  <2>1. UNCHANGED <<entregues, falharam>>
    BY DEF Fechar, Cair, leitura
  <2> QED BY <2>1, DoProcesso DEF andamento, Base, Tipos
<1> SUFFICES ASSUME NEW p \in Processos PROVE Fechada(p)'
  BY <1>a, MesmasFontes DEF Desfechos
<1>b. DaOrigem(p)' = DaOrigem(p) /\ Fechada(p) /\ (\A e \in DaOrigem(p) : e \in Fontes /\ Proc(e) = p /\ (Completa(e) => Completa(e)'))
  BY <1>a, MesmasFontes, CompletaFica DEF Desfechos, DaOrigem
<1>1. CASE p # q \/ (Vencer(q) /\ UNCHANGED leitura)
  <2>1. consumidor'[p] = consumidor[p] /\ desfecho'[p] = desfecho[p]
    <3>1. UNCHANGED <<consumidor, desfecho>> \/ (p # q /\ \E c, d : consumidor' = Por(consumidor, q, c) /\ desfecho' = Por(desfecho, q, d))
      <4>1. CASE p # q /\ Fechar(q)
        BY <4>1 DEF Fechar
      <4>2. CASE p # q /\ Cair(q)
        BY <4>2 DEF Cair
      <4>3. CASE UNCHANGED leitura
        BY <4>3 DEF leitura
      <4> QED BY <1>1, <4>1, <4>2, <4>3
    <3> QED BY <3>1, <1>a DEF Por, TiposDaLeitura
  <2>2. \A e \in DaOrigem(p) : pc'[e] = pc[e]
    BY <1>1, <1>a, <1>b DEF Vencer
  <2> QED BY <1>a, <1>b, <2>1, <2>2 DEF Fechada
<1>2. CASE p = q /\ Cair(q)
  <2>1. consumidor'[p] = "fim" /\ desfecho'[p] = "morto"
    BY <1>2, <1>a DEF Cair, Por, TiposDaLeitura
  <2> QED BY <1>a, <1>b, <2>1 DEF Fechada
<1>3. CASE p = q /\ Fechar(q)
  <2>1. /\ consumidor[p] \in {"lendo", "cancelado"} /\ consumidor'[p] = "fim" /\ pc' = pc
        /\ desfecho'[p] = IF consumidor[p] = "cancelado" /\ desfecho[p] = "nenhum" THEN "parou" ELSE DesfechoDe(p)
        /\ \A f \in DaOrigem(p) : pc[f] = "fim" \/ (pc[f] = "fila" /\ consumidor[p] = "cancelado")
    BY <1>3, <1>a DEF Fechar, Por, TiposDaLeitura
  <2>2. desfecho'[p] # "ok" \/ (consumidor[p] = "lendo" /\ DesfechoDe(p) = "ok")
    <3>1. CASE consumidor[p] = "cancelado" /\ desfecho[p] = "nenhum"
      BY <2>1, <3>1
    <3>2. CASE consumidor[p] = "cancelado" /\ desfecho[p] # "nenhum"
      <4>1. desfecho[p] = "erro"
        BY <1>b, <3>2 DEF Fechada
      <4> QED BY <2>1, <3>2, <4>1 DEF DesfechoDe
    <3>3. CASE consumidor[p] = "lendo"
      BY <2>1, <3>3
    <3> QED BY <2>1, <3>1, <3>2, <3>3
  <2>3. CASE desfecho'[p] # "ok"
    BY <1>a, <1>b, <2>1, <2>3 DEF Fechada
  <2>4. CASE consumidor[p] = "lendo" /\ DesfechoDe(p) = "ok"
    <3>1. \A f \in DaOrigem(p) : pc[f] = "fim" /\ (f \in falharam[p] \/ Completa(f))
      BY <1>b, <2>1, <2>4 DEF Fechada
    <3>2. ~(entregues[p] = <<>> /\ falharam[p] = DaOrigem(p))
      BY <2>4 DEF DesfechoDe
    <3> QED BY <1>a, <1>b, <2>1, <3>1, <3>2 DEF Fechada
  <2> QED BY <2>2, <2>3, <2>4
<1> QED BY <1>1, <1>2, <1>3

\* A source that is not among the failed ones was read to its end or to MaxPages, and no
\* rows at all is a result only where some source had none (many.go FailedSources)
THEOREM DesfechoSempreExplica == Spec => []DesfechoExplica
<1>1. Init => Base /\ Rumo /\ Desfechos
  BY BaseInicial, RumoInicial, DesfechosIniciais
<1>2. Base /\ Rumo /\ Desfechos /\ [Next]_vars => (Base /\ Rumo /\ Desfechos)'
  <2> SUFFICES ASSUME Base, Rumo, Desfechos, [Next]_vars PROVE Desfechos'
    BY BaseFica, RumoFica
  <2>1. CASE \E f \in Fontes : Caminhar(f)
    BY <2>1, Passos, DesfechosFicam
  <2>2. CASE \E p \in Processos : Fechar(p) \/ Cair(p) \/ (Vencer(p) /\ UNCHANGED <<andamento, leitura>>)
    BY <2>2, DesfechosFecham
  <2>3. CASE UNCHANGED vars
    <3>1. UNCHANGED <<cfg, pc, paginas, entregues, consumidor, falharam, desfecho>>
      BY <2>3 DEF vars, andamento, leitura
    <3>2. Processos' = Processos /\ \A p \in Processos : DaOrigem(p)' = DaOrigem(p)
      BY <3>1, MesmasFontes
    <3>3. \A p \in Processos : \A f \in DaOrigem(p) : Completa(f) => Completa(f)'
      BY <3>1, CompletaFica DEF DaOrigem
    <3> QED BY <3>1, <3>2, <3>3 DEF Desfechos, Fechada
  <2> QED BY <2>1, <2>2, <2>3 DEF Next
<1>3. Base /\ Rumo /\ Desfechos => DesfechoExplica
  <2> SUFFICES ASSUME Base, Rumo, Desfechos PROVE FalhasContam /\ VazioTemFonte
    BY DEF DesfechoExplica
  <2>1. ASSUME NEW p \in Processos, desfecho[p] = "ok", NEW f \in DaOrigem(p), f \notin falharam[p]
        PROVE  Completa(f) /\ f \in Fontes /\ Proc(f) = p
    BY <2>1 DEF Desfechos, Fechada, DaOrigem
  <2>2. FalhasContam
    <3> SUFFICES ASSUME NEW p \in Processos, desfecho[p] = "ok", NEW f \in DaOrigem(p) \ falharam[p], ~(paginas[f] >= cfg.maxPages)
                 PROVE  RecebidasDe(f) = 1..cfg.total
      BY DEF FalhasContam
    <3>1. f \in Fontes /\ Proc(f) = p /\ \A r \in 1..cfg.total : Tem(f, r)
      BY <2>1 DEF Completa
    <3>2. 1..cfg.total \subseteq RecebidasDe(f)
      <4> SUFFICES ASSUME NEW r \in 1..cfg.total PROVE r \in RecebidasDe(f)
        OBVIOUS
      <4> PICK k \in DOMAIN entregues[Proc(f)] : entregues[Proc(f)][k] = <<f, r>>
        BY <3>1 DEF Tem
      <4>1. entregues[Proc(f)][k][1] = f /\ entregues[Proc(f)][k][2] = r
        OBVIOUS
      <4> QED BY <4>1 DEF RecebidasDe
    <3>3. RecebidasDe(f) \subseteq 1..cfg.total
      BY <3>1 DEF RecebidasDe, Rumo, DosAbertos
    <3> QED BY <3>2, <3>3
  <2>3. VazioTemFonte
    <3> SUFFICES ASSUME NEW p \in Processos, desfecho[p] = "ok", entregues[p] = <<>>
                 PROVE  \E f \in DaOrigem(p) : f \notin falharam[p] /\ cfg.total = 0
      BY DEF VazioTemFonte
    <3>1. falharam[p] \subseteq DaOrigem(p) /\ falharam[p] # DaOrigem(p)
      BY DEF Desfechos, Fechada
    <3> PICK f \in DaOrigem(p) : f \notin falharam[p]
      BY <3>1
    <3>2. Completa(f) /\ Proc(f) = p /\ DOMAIN entregues[Proc(f)] = {}
      BY <2>1
    <3>3. \A r \in 1..cfg.total : FALSE
      BY <3>2 DEF Completa, Tem
    <3>4. cfg.total \in Nat
      BY DoPedido DEF Base, Tipos, PedidoBom
    <3>5. cfg.total = 0
      BY <3>3, <3>4
    <3> QED BY <3>5
  <2> QED BY <2>2, <2>3
<1> QED BY <1>1, <1>2, <1>3, PTL DEF Spec
================================================================================
