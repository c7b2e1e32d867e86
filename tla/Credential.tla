------------------------------- MODULE Credential -------------------------------
(***************************************************************************)
(* The credential of a source: src/sdk/internal/core/auth.go, credstore.go *)
(* and src/sdk/store/gcs/credential.go, with renew and the cookie jar of   *)
(* src/sdk/extract/auth.go and credjar.go.  A value is the number under    *)
(* which the provider issued it; the greater one is the newer one.         *)
(*                                                                         *)
(* The walks of one process share the Credential (its cache and its lock)  *)
(* and what the process remembers of the store; the store itself and the   *)
(* provider are shared by all.                                             *)
(***************************************************************************)
EXTENDS Integers, FiniteSets

CONSTANTS
  Pedidos,      \* what may be run; see Extract
  MaxFalhas     \* calls that fail

ASSUME FalhasNaturais == MaxFalhas \in Nat

VARIABLES
  cfg,          \* the sources, their credential, the provider behind them
  pc,           \* where the walk over each source is
  cabecalho,    \* the credential on the header of each walk
  jarro,        \* what was reissued to the walk and not applied yet
  cache,        \* Credential.cached of each process
  lembrada,     \* geracoes: the generation each process read
  guardado,     \* the store: its value and generation
  emitida,      \* last value the provider issued
  boas,         \* the values it accepts
  falhas,
  recusadas,    \* history: walks whose credential was refused
  naoSalvou,    \* walks with Stats.CredentialStoreError
  rodada,       \* history: the value each walk took from its renewal
  logins,       \* history: logins of each process
  turvo         \* history: walks overlapped, a process died or a call other than a save failed

provedor == <<emitida, boas>>
loja == <<cache, lembrada, guardado, naoSalvou>>
credenciais == <<cabecalho, jarro, loja, provedor, recusadas, rodada, logins, turvo>>

Nenhum == 0
Semente == 1
\* what a renewal that did not authenticate sets: a cookie emptied
Deslogada == -1

Fontes == 1..cfg.n
Processos == {cfg.processo[f] : f \in Fontes}
Proc(f) == cfg.processo[f]

IniciarCredencial ==
  /\ cabecalho = [f \in Fontes |-> Nenhum] /\ jarro = [f \in Fontes |-> Nenhum]
  /\ cache = [p \in Processos |-> Nenhum] /\ lembrada = [p \in Processos |-> 0]
  /\ guardado = [v |-> Nenhum, g |-> 0]
  /\ emitida = Semente /\ boas = IF cfg.morta THEN {} ELSE {Semente}
  /\ falhas = 0 /\ recusadas = {} /\ naoSalvou = {} /\ turvo = FALSE
  /\ rodada = [f \in Fontes |-> Nenhum] /\ logins = [p \in Processos |-> 0]

Falha == falhas < MaxFalhas /\ falhas' = falhas + 1
Em(f, p) == pc' = [pc EXCEPT ![f] = p]

--------------------------------------------------------------------------------
(* The provider                                                                *)

Autorizada(f) == cfg.cred = "nenhuma" \/ cabecalho[f] \in boas

\* a new value; a provider that revokes ends the one the walk came with
Emitir(f) ==
  /\ emitida' = emitida + 1
  /\ boas' = (IF cfg.revoga THEN boas \ {cabecalho[f]} ELSE boas) \cup {emitida + 1}

--------------------------------------------------------------------------------
(* Credential.Get: the cache, the store, the seed or a login                   *)

LendoLoja == cfg.renova /\ cfg.loja # "nenhuma"

\* Mutant: the value is not kept for the next walk
UsarSemGuardar(f, v) ==
  /\ cabecalho' = [cabecalho EXCEPT ![f] = v]
  /\ UNCHANGED cache
  /\ Em(f, IF cfg.renova THEN "renovar" ELSE "pedir")

Usar(f, v) ==
  /\ cabecalho' = [cabecalho EXCEPT ![f] = v]
  /\ cache' = [cache EXCEPT ![Proc(f)] = v]
  /\ Em(f, IF cfg.renova THEN "renovar" ELSE "pedir")

\* Value is the seed someone pasted; Login trades it for a token
Produzir(f) ==
  \/ cfg.cred = "valor" /\ Usar(f, Semente) /\ UNCHANGED <<provedor, logins>>
  \/ /\ cfg.cred = "login" /\ Usar(f, emitida + 1)
     /\ emitida' = emitida + 1 /\ boas' = boas \cup {emitida + 1}
     /\ logins' = [logins EXCEPT ![Proc(f)] = @ + 1]

\* Mutant: the generation is not remembered
LembrarNunca(f) == UNCHANGED lembrada

\* Load remembers the generation, of an object that is not there too
Lembrar(f) ==
  lembrada' = IF LendoLoja /\ cfg.loja = "gcs" THEN [lembrada EXCEPT ![Proc(f)] = guardado.g] ELSE lembrada

\* The lock is held throughout: one walk of the process at a time.  A store that
\* cannot be read is a warning and the seed is used.
ObterSemErro(f) ==
  \/ /\ cfg.ttl /\ cache[Proc(f)] # Nenhum
     /\ Usar(f, cache[Proc(f)]) /\ UNCHANGED <<lembrada, provedor, logins, falhas, turvo>>
  \/ /\ ~(cfg.ttl /\ cache[Proc(f)] # Nenhum)
     /\ \/ ~LendoLoja /\ Produzir(f) /\ UNCHANGED <<lembrada, falhas, turvo>>
        \/ LendoLoja /\ Falha /\ turvo' = TRUE /\ Produzir(f) /\ UNCHANGED lembrada
        \/ LendoLoja /\ Lembrar(f) /\ UNCHANGED <<falhas, turvo>>
           /\ \/ guardado.v # Nenhum /\ Usar(f, guardado.v) /\ UNCHANGED <<provedor, logins>>
              \/ guardado.v = Nenhum /\ Produzir(f)

Obter(f) ==
  /\ pc[f] = "obter" /\ cfg.cred # "nenhuma"
  /\ ObterSemErro(f)
  /\ UNCHANGED <<cfg, jarro, guardado, naoSalvou, recusadas, rodada>>

SemCredencial(f) ==
  /\ pc[f] = "obter" /\ cfg.cred = "nenhuma"
  /\ Em(f, "pedir")
  /\ UNCHANGED <<cfg, credenciais, falhas>>

\* an unset variable, a login that is refused: the source does not open
NaoObter(f) ==
  /\ pc[f] = "obter" /\ cfg.cred # "nenhuma"
  /\ ~(cfg.ttl /\ cache[Proc(f)] # Nenhum) /\ (LendoLoja => guardado.v = Nenhum)
  /\ Falha /\ turvo' = TRUE
  /\ Lembrar(f) /\ Em(f, "errar")
  /\ UNCHANGED <<cfg, cabecalho, jarro, cache, guardado, naoSalvou, provedor, recusadas, rodada, logins>>

\* TTL runs out
Vencer(p) ==
  /\ cfg.ttl /\ cache[p] # Nenhum /\ Falha /\ turvo' = TRUE
  /\ cache' = [cache EXCEPT ![p] = Nenhum]
  /\ UNCHANGED <<cfg, pc, cabecalho, jarro, lembrada, guardado, naoSalvou, provedor, recusadas, rodada, logins>>

--------------------------------------------------------------------------------
(* renew: the rotation applies at once, the check comes before the store       *)

\* Mutant: the rotation stays in the jar
AplicarRotacaoNunca(f) == UNCHANGED <<cabecalho, jarro>>

\* every cookie of the credential that was reissued, by name
AplicarRotacao(f) ==
  /\ cabecalho' = [cabecalho EXCEPT ![f] = IF jarro[f] # Nenhum THEN jarro[f] ELSE @]
  /\ jarro' = [jarro EXCEPT ![f] = Nenhum]

Rodar(f, v) ==
  /\ cabecalho' = [cabecalho EXCEPT ![f] = v]
  /\ rodada' = [rodada EXCEPT ![f] = v]

\* Mutant: the store is written before the expiry is read
DepoisDeRodarSemConferir(autenticou) == IF cfg.loja # "nenhuma" THEN "guardar" ELSE IF autenticou \/ ~cfg.validade THEN "pedir" ELSE "errar"

\* ExpiresAt is what tells a session that did not authenticate; without it whatever
\* came is kept
DepoisDeRodar(autenticou) ==
  IF cfg.validade /\ ~autenticou THEN "errar"
  ELSE IF cfg.loja # "nenhuma" THEN "guardar" ELSE "pedir"

\* A session that is over answers 401, or 200 with its cookies emptied
Renovar(f) ==
  /\ pc[f] = "renovar" /\ UNCHANGED falhas
  /\ \/ Autorizada(f) /\ cfg.gira /\ Emitir(f) /\ Rodar(f, emitida + 1)
        /\ Em(f, DepoisDeRodar(TRUE)) /\ UNCHANGED <<recusadas, turvo>>
     \/ Autorizada(f) /\ ~cfg.gira
        /\ Em(f, "pedir") /\ UNCHANGED <<provedor, cabecalho, rodada, recusadas, turvo>>
     \/ ~Autorizada(f) /\ Rodar(f, Deslogada) /\ Em(f, DepoisDeRodar(FALSE))
        /\ recusadas' = recusadas \cup {f} /\ UNCHANGED <<provedor, turvo>>
     \/ ~Autorizada(f) /\ Em(f, "errar")
        /\ recusadas' = recusadas \cup {f} /\ UNCHANGED <<provedor, cabecalho, rodada, turvo>>
  /\ UNCHANGED <<cfg, jarro, loja, logins>>

\* the request, or its answer, is lost in every attempt
NaoRenovar(f) ==
  /\ pc[f] = "renovar" /\ Falha /\ turvo' = TRUE /\ Em(f, "errar")
  /\ \/ UNCHANGED provedor
     \/ Autorizada(f) /\ cfg.gira /\ Emitir(f)
  /\ UNCHANGED <<cfg, cabecalho, jarro, loja, recusadas, rodada, logins>>

--------------------------------------------------------------------------------
(* Save                                                                        *)

\* Mutant: the write carries no condition
PodeGravarSempre(p) == TRUE

\* GenerationMatch, or DoesNotExist when nothing was there or nothing was read; a
\* file is replaced by whoever comes last
PodeGravar(p) == cfg.loja = "gcs" => guardado.g = lembrada[p]

\* a conflict is not an error; any other failure is reported and the walk goes on
Guardar(f) ==
  /\ pc[f] = "guardar" /\ Em(f, "pedir")
  /\ \/ PodeGravar(Proc(f)) /\ guardado' = [v |-> cabecalho[f], g |-> guardado.g + 1]
        /\ UNCHANGED <<naoSalvou, falhas>>
     \/ ~PodeGravar(Proc(f)) /\ UNCHANGED <<guardado, naoSalvou, falhas>>
     \/ Falha /\ naoSalvou' = naoSalvou \cup {f} /\ UNCHANGED guardado
  /\ UNCHANGED <<cfg, cabecalho, jarro, cache, lembrada, provedor, recusadas, rodada, logins, turvo>>
================================================================================
