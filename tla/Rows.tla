----------------------------------- MODULE Rows -----------------------------------
(***************************************************************************)
(* A table or a batch as the sequence of its rows, in the order they came. *)
(***************************************************************************)
EXTENDS Integers, Sequences

Ids(s) == {s[n].id : n \in DOMAIN s}

\* the rows at the positions in S, in their order: up to each n, and all of them
Selecao(lote, S) ==
  LET f[n \in 0..Len(lote)] ==
        IF n = 0 THEN <<>> ELSE IF n \in S THEN Append(f[n - 1], lote[n]) ELSE f[n - 1]
  IN f
Selecionadas(lote, S) == Selecao(lote, S)[Len(lote)]
================================================================================
