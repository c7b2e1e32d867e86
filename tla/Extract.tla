--------------------------------- MODULE Extract ---------------------------------
(***************************************************************************)
(* Reading a source page by page and many sources at once:                 *)
(* src/sdk/extract/extract.go, src/sdk/from/http.go and many.go, over the  *)
(* credential of module Credential.  A walk asks for a page, hands its     *)
(* rows over one by one on a channel without a buffer, works out where the *)
(* next page lives and goes on; a process reads several sources with a few *)
(* workers, and whoever consumes may stop at any row.                      *)
(***************************************************************************)
EXTENDS Credential, Sequences

VARIABLES
  endereco,     \* the page asked for: a number, an offset, or what the server named
  tent,         \* attempts at this page
  corpoLido,    \* the request body was sent once
  pagina,       \* rows of the page that are still to be handed over
  emitidas,     \* rows of the page that were
  paginas,      \* pages read by each walk
  vistas,       \* addresses the walk has gone on to
  consumidor,   \* of each process: "lendo", "cancelado", "fim" or "morto"
  entregues,    \* rows each consumer got: <<source, row>>
  falharam,     \* Stats.FailedSources of each process
  desfecho      \* how each reading ended

andamento == <<endereco, tent, corpoLido, pagina, emitidas, paginas, vistas>>
leitura == <<consumidor, entregues, falharam, desfecho>>
vars == <<cfg, pc, credenciais, falhas, andamento, leitura>>

\* A request: n sources, of the processes in `processo`, read by `trabalhadores`
\* each, `tolera` (ContinueOnError); estrategia, maxPages, tamanho (PageSize), tentativas
\* (MaxAttempts), corpo (a body to send); of the server: total rows, limite per
\* page, laco (where its last page points to, 0 for nowhere), giraPagina (pages
\* reissue the session); para: a consumer that may stop; and what Credential reads.
\* fetch and Many.Read make Workers, MaxPages and MaxAttempts at least one; the server
\* keeps to a page size it is asked for, and only one that names its next page can point back
ASSUME PedidosValidos ==
  \A c \in Pedidos :
    /\ c.n \in Nat /\ c.processo \in [1..c.n -> Nat]
    /\ {c.trabalhadores, c.maxPages, c.tentativas, c.limite} \subseteq Nat \ {0}
    /\ {c.total, c.laco} \subseteq Nat /\ c.tamanho \in {0, c.limite}
    /\ c.estrategia \in {"nenhuma", "link", "cursor", "page", "offset"}
    /\ c.laco # 0 => c.estrategia \in {"link", "cursor"}
    /\ c.cred \in {"nenhuma", "valor", "login"} /\ c.loja \in {"nenhuma", "arquivo", "gcs"}
    /\ {c.renova, c.validade, c.ttl, c.gira, c.revoga, c.morta, c.giraPagina, c.tolera, c.para, c.corpo} \subseteq BOOLEAN

DaOrigem(p) == {f \in Fontes : Proc(f) = p}
Por(fn, f, v) == [fn EXCEPT ![f] = v]

--------------------------------------------------------------------------------
(* The server                                                                  *)

Menor(a, b) == IF a < b THEN a ELSE b
Linhas(a, b) == [n \in 1..(b - a + 1) |-> a + n - 1]
PaginaDe(a) ==
  CASE cfg.estrategia = "nenhuma" -> Linhas(1, cfg.total)
    [] cfg.estrategia = "offset"  -> Linhas(a + 1, Menor(a + cfg.limite, cfg.total))
    [] OTHER                      -> Linhas((a - 1) * cfg.limite + 1, Menor(a * cfg.limite, cfg.total))
Ultima(a) == a * cfg.limite >= cfg.total
Aponta(a) == IF ~Ultima(a) THEN a + 1 ELSE cfg.laco

--------------------------------------------------------------------------------
(* Where the walk goes next                                                    *)

SemProxima == -1

\* the driver's fields as the extract package sees them; MoreKey is not among them
MoreKeyDaFonte == FALSE
SabeQueAcabou(a) == MoreKeyDaFonte /\ Ultima(a)

FirstPageURL == IF cfg.estrategia = "offset" THEN 0 ELSE 1

\* Mutant: an offset moves by the page size the server was asked for, and one more
NextPageURLPulando(a, n) ==
  CASE SabeQueAcabou(a) -> SemProxima
    [] cfg.estrategia \in {"link", "cursor"} -> IF Aponta(a) = 0 THEN SemProxima ELSE Aponta(a)
    [] cfg.estrategia = "page" -> IF n = 0 THEN SemProxima ELSE a + 1
    [] cfg.estrategia = "offset" -> IF n = 0 THEN SemProxima ELSE a + n + 1
    [] OTHER -> SemProxima

\* A response that says there is no more wins; a page number or an offset ends on
\* the empty page, a short one being no sign of the end
NextPageURL(a, n) ==
  CASE SabeQueAcabou(a) -> SemProxima
    [] cfg.estrategia \in {"link", "cursor"} -> IF Aponta(a) = 0 THEN SemProxima ELSE Aponta(a)
    [] cfg.estrategia = "page" -> IF n = 0 THEN SemProxima ELSE a + 1
    [] cfg.estrategia = "offset" ->
         IF n = 0 THEN SemProxima ELSE a + (IF cfg.tamanho > 0 THEN cfg.tamanho ELSE n)
    [] OTHER -> SemProxima

Init ==
  /\ cfg \in Pedidos
  /\ pc = [f \in Fontes |-> "fila"]
  /\ IniciarCredencial
  /\ endereco = [f \in Fontes |-> FirstPageURL]
  /\ tent = [f \in Fontes |-> 0] /\ corpoLido = [f \in Fontes |-> FALSE]
  /\ pagina = [f \in Fontes |-> <<>>] /\ emitidas = [f \in Fontes |-> 0]
  /\ paginas = [f \in Fontes |-> 0] /\ vistas = [f \in Fontes |-> {}]
  /\ consumidor = [p \in Processos |-> "lendo"] /\ entregues = [p \in Processos |-> <<>>]
  /\ falharam = [p \in Processos |-> {}] /\ desfecho = [p \in Processos |-> "nenhum"]

--------------------------------------------------------------------------------
(* Opening a source                                                            *)

Ativa(f) == pc[f] \notin {"fila", "fim"}
Vivo(f) == consumidor[Proc(f)] = "lendo"

\* Mutant: a worker for each source
HaTrabalhadorSempre(f) == TRUE

\* the sources are handed to the workers in their order
HaTrabalhador(f) ==
  /\ Cardinality({g \in DaOrigem(Proc(f)) : Ativa(g)}) < cfg.trabalhadores
  /\ \A g \in DaOrigem(Proc(f)) : g < f => pc[g] # "fila"

Comecar(f) ==
  /\ pc[f] = "fila" /\ Vivo(f) /\ HaTrabalhador(f)
  /\ Em(f, "obter")
  /\ turvo' = (turvo \/ \E g \in Fontes : Ativa(g))
  /\ UNCHANGED <<cfg, cabecalho, jarro, loja, provedor, recusadas, rodada, logins, falhas, andamento, leitura>>

Credenciar(f) ==
  /\ Vivo(f)
  /\ Obter(f) \/ SemCredencial(f) \/ NaoObter(f) \/ Renovar(f) \/ NaoRenovar(f) \/ Guardar(f)
  /\ UNCHANGED <<andamento, leitura>>

--------------------------------------------------------------------------------
(* fetchPage                                                                   *)

\* The body is a reader, and the first attempt consumes it: what goes out again
\* goes out empty, and the server answers 4xx
CorpoPerdido(f) == cfg.corpo /\ corpoLido[f]

\* Mutant: one attempt too many is waited for
PodeTentarDeNovoSempre(f) == TRUE

PodeTentarDeNovo(f) == tent[f] + 1 < cfg.tentativas

\* a page, with the session reissued in it or not; it is applied before the rows go out
Receber(f) ==
  /\ pc[f] = "pedir" /\ Vivo(f) /\ Autorizada(f) /\ ~CorpoPerdido(f)
  /\ Em(f, "aplicar")
  /\ pagina' = Por(pagina, f, PaginaDe(endereco[f]))
  /\ corpoLido' = Por(corpoLido, f, TRUE)
  /\ IF cfg.giraPagina /\ cfg.cred # "nenhuma"
     THEN Emitir(f) /\ jarro' = Por(jarro, f, emitida + 1)
     ELSE UNCHANGED <<provedor, jarro>>
  /\ UNCHANGED <<cfg, cabecalho, loja, recusadas, rodada, logins, turvo, falhas,
                 endereco, tent, emitidas, paginas, vistas, leitura>>

Recusar(f) ==
  /\ pc[f] = "pedir" /\ Vivo(f) /\ (~Autorizada(f) \/ CorpoPerdido(f))
  /\ Em(f, "errar")
  /\ recusadas' = IF Autorizada(f) THEN recusadas ELSE recusadas \cup {f}
  /\ UNCHANGED <<cfg, cabecalho, jarro, loja, provedor, rodada, logins, turvo, falhas, andamento, leitura>>

\* A connection lost, a timeout, 429 or 5xx: again, while there are attempts left.
\* The server may have reissued the session in the answer that was lost.
Falhar(f) ==
  /\ pc[f] = "pedir" /\ Vivo(f) /\ Falha
  /\ \/ PodeTentarDeNovo(f) /\ tent' = Por(tent, f, tent[f] + 1) /\ UNCHANGED pc
     \/ ~PodeTentarDeNovo(f) /\ Em(f, "errar") /\ UNCHANGED tent
  /\ corpoLido' = Por(corpoLido, f, TRUE)
  /\ \/ UNCHANGED <<provedor, turvo>>
     \/ cfg.giraPagina /\ cfg.cred # "nenhuma" /\ Autorizada(f) /\ Emitir(f) /\ turvo' = TRUE
  /\ UNCHANGED <<cfg, cabecalho, jarro, loja, recusadas, rodada, logins,
                 endereco, pagina, emitidas, paginas, vistas, leitura>>

\* a status that is not retried, a body that cannot be read, a guard's refusal
Desistir(f) ==
  /\ pc[f] = "pedir" /\ Vivo(f) /\ Falha
  /\ Em(f, "errar")
  /\ UNCHANGED <<cfg, credenciais, andamento, leitura>>

--------------------------------------------------------------------------------
(* The loop over pages                                                         *)

Aplicar(f) ==
  /\ pc[f] = "aplicar" /\ Vivo(f)
  /\ Em(f, "drenar")
  /\ AplicarRotacao(f)
  /\ paginas' = Por(paginas, f, paginas[f] + 1) /\ emitidas' = Por(emitidas, f, 0)
  /\ tent' = Por(tent, f, 0)
  /\ UNCHANGED <<cfg, loja, provedor, recusadas, rodada, logins, turvo, falhas,
                 endereco, corpoLido, pagina, vistas, leitura>>

\* a row the decoder cannot read: reported once, and the walk is over
NaoDecodificar(f) ==
  /\ pc[f] = "drenar" /\ Vivo(f) /\ pagina[f] # <<>> /\ Falha
  /\ Em(f, "errar")
  /\ UNCHANGED <<cfg, credenciais, andamento, leitura>>

\* Mutant: addresses are not remembered
DepoisDaPaginaSemVistas(f, prox) ==
  IF prox = SemProxima \/ paginas[f] >= cfg.maxPages THEN "fim" ELSE "pedir"

\* nowhere to go, the limit, or an address that was gone on to before
DepoisDaPagina(f, prox) ==
  IF prox = SemProxima \/ paginas[f] >= cfg.maxPages \/ prox \in vistas[f] THEN "fim" ELSE "pedir"

Avancar(f) ==
  /\ pc[f] = "drenar" /\ Vivo(f) /\ pagina[f] = <<>>
  /\ LET prox == NextPageURL(endereco[f], emitidas[f])
     IN /\ Em(f, DepoisDaPagina(f, prox))
        /\ IF pc'[f] = "pedir"
           THEN endereco' = Por(endereco, f, prox) /\ vistas' = Por(vistas, f, vistas[f] \cup {prox})
           ELSE UNCHANGED <<endereco, vistas>>
  /\ UNCHANGED <<cfg, credenciais, falhas, tent, corpoLido, pagina, emitidas, paginas, leitura>>

--------------------------------------------------------------------------------
(* The channel and whoever reads it                                            *)

\* a row changes hands; the consumer may have had enough
Entregar(f) ==
  LET p == Proc(f) IN
  /\ pc[f] = "drenar" /\ Vivo(f) /\ pagina[f] # <<>>
  /\ entregues' = Por(entregues, p, Append(entregues[p], <<f, Head(pagina[f])>>))
  /\ pagina' = Por(pagina, f, Tail(pagina[f])) /\ emitidas' = Por(emitidas, f, emitidas[f] + 1)
  /\ \/ UNCHANGED consumidor
     \/ cfg.para /\ consumidor' = Por(consumidor, p, "cancelado")
  /\ UNCHANGED <<cfg, pc, credenciais, falhas, endereco, tent, corpoLido, paginas, vistas,
                 falharam, desfecho>>

\* Mutant: what a source that fails had given is enough
TolerarSemContar(f) ==
  /\ UNCHANGED <<falharam, consumidor, desfecho>>

\* the source is written down and the others go on
Tolerar(f) ==
  /\ falharam' = Por(falharam, Proc(f), falharam[Proc(f)] \cup {f})
  /\ UNCHANGED <<consumidor, desfecho>>

Abortar(f) ==
  /\ consumidor' = Por(consumidor, Proc(f), "cancelado") /\ desfecho' = Por(desfecho, Proc(f), "erro")
  /\ UNCHANGED falharam

Errar(f) ==
  /\ pc[f] = "errar" /\ Vivo(f) /\ Em(f, "fim")
  /\ IF cfg.tolera THEN Tolerar(f) ELSE Abortar(f)
  /\ UNCHANGED <<cfg, credenciais, falhas, andamento, entregues>>

\* Mutant: a worker with something to hand over waits for it to be taken
LargarSeNaoEspera(f) ==
  /\ consumidor[Proc(f)] = "cancelado" /\ Ativa(f) /\ pc[f] \notin {"drenar", "errar"}
  /\ Em(f, "fim")
  /\ UNCHANGED <<cfg, credenciais, falhas, andamento, leitura>>

\* the context is cancelled: a request in flight fails, a row on its way is dropped
Largar(f) ==
  /\ consumidor[Proc(f)] = "cancelado" /\ Ativa(f)
  /\ Em(f, "fim")
  /\ UNCHANGED <<cfg, credenciais, falhas, andamento, leitura>>

\* Mutant: sources that all failed are a reading with no rows
DesfechoSemOlhar(p) == "ok"

\* no rows because every source failed is not a reading of no rows
DesfechoDe(p) ==
  IF desfecho[p] = "erro" \/ (entregues[p] = <<>> /\ falharam[p] = DaOrigem(p)) THEN "erro" ELSE "ok"

Fechar(p) ==
  /\ consumidor[p] \in {"lendo", "cancelado"}
  /\ \A f \in DaOrigem(p) : pc[f] = "fim" \/ (pc[f] = "fila" /\ consumidor[p] = "cancelado")
  /\ consumidor' = Por(consumidor, p, "fim")
  /\ desfecho' = Por(desfecho, p, IF consumidor[p] = "cancelado" /\ desfecho[p] = "nenhum" THEN "parou" ELSE DesfechoDe(p))
  /\ UNCHANGED <<cfg, pc, credenciais, falhas, andamento, entregues, falharam>>

Cair(p) ==
  /\ consumidor[p] \in {"lendo", "cancelado"} /\ Falha
  /\ consumidor' = Por(consumidor, p, "fim") /\ desfecho' = Por(desfecho, p, "morto")
  /\ pc' = [f \in Fontes |-> IF Proc(f) = p THEN "fim" ELSE pc[f]]
  /\ turvo' = TRUE
  /\ UNCHANGED <<cfg, cabecalho, jarro, loja, provedor, recusadas, rodada, logins, andamento, entregues, falharam>>

Caminhar(f) ==
  \/ Comecar(f) \/ Credenciar(f)
  \/ Receber(f) \/ Recusar(f) \/ Falhar(f) \/ Desistir(f)
  \/ Aplicar(f) \/ NaoDecodificar(f) \/ Avancar(f)
  \/ Entregar(f) \/ Errar(f) \/ Largar(f)

Next ==
  \/ \E f \in Fontes : Caminhar(f)
  \/ \E p \in Processos : Fechar(p) \/ Cair(p) \/ (Vencer(p) /\ UNCHANGED <<andamento, leitura>>)

\* every goroutine runs on, and a request ends by its timeout
Spec == Init /\ [][Next]_vars /\ WF_vars(Next)
--------------------------------------------------------------------------------
(* Properties                                                                  *)

RecebidasDe(f) == {entregues[Proc(f)][k][2] : k \in {k \in DOMAIN entregues[Proc(f)] : entregues[Proc(f)][k][1] = f}}

TypeOK ==
  /\ cfg \in Pedidos
  /\ pc \in [Fontes -> {"fila", "obter", "renovar", "guardar", "pedir", "aplicar", "drenar", "errar", "fim"}]
  /\ cabecalho \in [Fontes -> Deslogada..emitida] /\ jarro \in [Fontes -> 0..emitida]
  /\ cache \in [Processos -> Deslogada..emitida] /\ guardado.v \in Deslogada..emitida
  /\ lembrada \in [Processos -> 0..guardado.g] /\ boas \subseteq 1..emitida
  /\ falhas \in 0..MaxFalhas /\ tent \in [Fontes -> 0..(cfg.tentativas - 1)]
  /\ paginas \in [Fontes -> 0..cfg.maxPages]
  /\ \A p \in Processos : Cardinality({f \in DaOrigem(p) : Ativa(f)}) <= cfg.trabalhadores
  /\ consumidor \in [Processos -> {"lendo", "cancelado", "fim"}]
  /\ falharam \in [Processos -> SUBSET Fontes]
  /\ desfecho \in [Processos -> {"nenhum", "ok", "erro", "parou", "morto"}]

\* Whatever was retried, stopped or read beside it, what a consumer has of a source
\* is its first rows, in order, once each (unless the server sends a page twice)
SemBuraco ==
  cfg.laco = 0 =>
    \A p \in Processos : \A k \in DOMAIN entregues[p] :
      LET f == entregues[p][k][1]
          r == entregues[p][k][2]
      IN /\ \A m \in 1..(k - 1) : entregues[p][m][1] = f => entregues[p][m][2] < r
         /\ r = 1 \/ \E m \in 1..(k - 1) : entregues[p][m] = <<f, r - 1>>

\* A source that is not among the failed ones was read to its end, or to MaxPages
\* (many.go: the source that fails is written down in Result.FailedSources)
FalhasContam ==
  \A p \in Processos : desfecho[p] = "ok" =>
    \A f \in DaOrigem(p) \ falharam[p] :
      paginas[f] >= cfg.maxPages \/ RecebidasDe(f) = 1..cfg.total

\* No rows at all is a result only if some source said so (many.go: zero because all
\* N failed is a broken execution)
VazioTemFonte ==
  \A p \in Processos : desfecho[p] = "ok" /\ entregues[p] = <<>> =>
    \E f \in DaOrigem(p) : f \notin falharam[p] /\ cfg.total = 0

\* A server whose last page points back costs one page more, of those it repeats
RepeticaoCustaUma ==
  \A p \in Processos : \A a, b, c \in DOMAIN entregues[p] :
    a < b /\ b < c => ~(entregues[p][a] = entregues[p][b] /\ entregues[p][b] = entregues[p][c])

\* With one worker the sequence is that of the sources
OrdemComUm ==
  cfg.trabalhadores = 1 => \A p \in Processos : \A a, b \in DOMAIN entregues[p] :
    a < b => entregues[p][a][1] <= entregues[p][b][1]

\* A session that is over is not what the next run finds (auth.go renew: recording it
\* would poison the store, which is read before the seed)
SementeNaoEnvenena == cfg.validade => guardado.v # Deslogada

\* With a provider that ends the former value, walks one after the other, without a
\* failure, are never refused: not between renewal and pages, not between two pages,
\* and, where every save went through and nothing else rotates, not in a later run either
HerdaDaLoja == LendoLoja /\ ~cfg.ttl /\ ~cfg.giraPagina
SemRecusaPropria ==
  ~cfg.morta /\ ~turvo =>
    \A f \in recusadas : ~(HerdaDaLoja /\ naoSalvou = {}) /\ \E g \in Fontes \ {f} : pc[g] = "fim"

\* What a walk renewed is in the store, or something newer is, or the loss was reported
\* (auth.go renew: a rotation that is not saved is written to the statistics).  Without
\* ExpiresAt a later session that is over may have replaced it
RotacaoSalvaOuDita ==
  LendoLoja /\ cfg.validade /\ ~cfg.ttl /\ ~turvo =>
    \A f \in Fontes : rodada[f] # Nenhum /\ pc[f] # "guardar" => guardado.v >= rodada[f] \/ f \in naoSalvou

\* An API that limits logins sees one for as long as the TTL lasts
LoginUnico == cfg.ttl /\ falhas = 0 => \A p \in Processos : logins[p] <= 1

\* Nothing older is written over a newer value in GCS, whoever comes late (gcs
\* Credential.Save); checked here for a process that reads one source at a time
GcsNaoRegride(trabs) ==
  cfg.loja = "gcs" /\ cfg.trabalhadores \in trabs /\ cfg.validade => guardado'.v >= guardado.v
GcsComUmTrabalhador == [][GcsNaoRegride({1})]_vars

\* Every reading ends: no worker is left writing to a channel nobody reads
TodaLeituraTermina == <>(\A p \in Processos : consumidor[p] = "fim")
\* What a consumer has of its sources is their rows, in order and without a gap
LeituraFiel == TypeOK /\ SemBuraco /\ OrdemComUm /\ RepeticaoCustaUma

\* The outcome of a reading says what became of every source
DesfechoExplica == FalhasContam /\ VazioTemFonte

\* What the store holds between two runs is the newest value that was worth keeping
CredencialGuardada == SementeNaoEnvenena /\ RotacaoSalvaOuDita

\* The provider sees one login for as long as the TTL lasts and never a value that
\* the walks themselves have made void
ProvedorPoupado == SemRecusaPropria /\ LoginUnico
================================================================================
