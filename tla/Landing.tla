--------------------------------- MODULE Landing ---------------------------------
(***************************************************************************)
(* What a load promises of the table it writes to, whatever the            *)
(* destination and however often the pipeline is run, interrupted and run  *)
(* again (src/sdk/target.go, FlushEvery; src/sdk/internal/core/types.go,   *)
(* Dedup): the table only grows, a batch enters whole, and under a merge   *)
(* what is already there does not enter again.  The batch of the load that *)
(* creates the table is the one exception: nothing is compared with it.    *)
(***************************************************************************)
EXTENDS Rows

VARIABLES
  pedido,      \* [lotes, dedup, unico]: the batches of the reading, and how they enter
  existe,      \* the table is there
  linhas,      \* its rows, in the order they came
  inaugurais   \* batches of a creating load that are still to enter

vars == <<pedido, existe, linhas, inaugurais>>

\* what a batch brings that is not there: with unique ids, the first of each
Novas(s, lote) ==
  LET nova(n) == /\ lote[n].id \notin Ids(s)
                 /\ pedido.unico => \A m \in 1..(n - 1) : lote[m].id # lote[n].id
  IN Selecionadas(lote, {n \in DOMAIN lote : nova(n)})

Init ==
  /\ existe \in BOOLEAN
  /\ linhas = <<>>
  /\ inaugurais = 0

Criar ==
  /\ ~existe /\ existe' = TRUE
  /\ inaugurais' \in IF pedido.dedup = "merge" THEN {0, 1} ELSE {0}
  /\ UNCHANGED <<pedido, linhas>>

Gravar ==
  /\ existe
  /\ \E lote \in pedido.lotes :
       \/ /\ pedido.dedup = "none"
          /\ linhas' = linhas \o lote
          /\ UNCHANGED inaugurais
       \/ /\ pedido.dedup = "merge"
          /\ linhas' = linhas \o Novas(linhas, lote)
          /\ UNCHANGED inaugurais
       \/ /\ inaugurais > 0
          /\ linhas' = linhas \o lote
          /\ inaugurais' = inaugurais - 1
  /\ UNCHANGED <<pedido, existe>>

\* the creating load gave up, or died, before its batch entered
Desistir ==
  /\ inaugurais > 0 /\ inaugurais' = inaugurais - 1
  /\ UNCHANGED <<pedido, existe, linhas>>

Spec == Init /\ [][Criar \/ Gravar \/ Desistir]_vars
================================================================================
