-------------------------------- MODULE Catalog --------------------------------
(***************************************************************************)
(* The tables `workflows` and `schedules`, with the statements of          *)
(* WorkflowRepo and ScheduleRepo (src/internal/infrastructure/postgres/    *)
(* schedules.go), each one atomic.  Time is a discrete clock; NULL, the    *)
(* marker of a schedule never evaluated, is an instant before every other. *)
(***************************************************************************)
EXTENDS Integers, FiniteSets, FiniteSetsExt

CONSTANTS
  Projetos, Slugs,
  Horarios,        \* the instants at which the cron of a schedule fires, by slug
  SemAgenda        \* no row in `schedules`

ASSUME HorariosSaoInstantes == Horarios \in [Slugs -> SUBSET (Nat \ {0})]

VARIABLES
  workflows,       \* rows of `workflows`: <<project, slug>>
  agenda           \* the row of `schedules` of a slug

Nulo == 0
Linha == [ativo : BOOLEAN, catchup : BOOLEAN, ultimo : Nat]

ASSUME SemAgendaNaoELinha == SemAgenda \notin Linha

Agendados == {s \in Slugs : agenda[s] # SemAgenda}

\* WorkflowRepo.Definicao: any project's workflow of that slug
TemDefinicao(s) == \E p \in Projetos : <<p, s>> \in workflows

--------------------------------------------------------------------------------

\* Mutant: NULL is written as an instant of its own
PublicarComSentinela(p, s, comCron) ==
  /\ workflows' = workflows \cup {<<p, s>>}
  /\ agenda' = [agenda EXCEPT ![s] =
       IF comCron THEN [ativo |-> TRUE, catchup |-> FALSE, ultimo |-> -1] ELSE SemAgenda]

\* WorkflowRepo.Publicar, one transaction; `catchup` is always written false
\* and the marker of a schedule that exists is kept.
Publicar(p, s, comCron) ==
  /\ workflows' = workflows \cup {<<p, s>>}
  /\ agenda' = [agenda EXCEPT ![s] =
       IF ~comCron THEN SemAgenda
       ELSE IF agenda[s] = SemAgenda
              THEN [ativo |-> TRUE, catchup |-> FALSE, ultimo |-> Nulo]
              ELSE [agenda[s] EXCEPT !.catchup = FALSE]]

\* WorkflowRepo.Podar: two statements, with no transaction around them
Podaveis(p, manter) == {s \in Slugs \ manter : <<p, s>> \in workflows}
PodarWorkflows(p, manter) ==
  workflows' = workflows \ {<<p, s>> : s \in Podaveis(p, manter)}
PodarAgendas(removidos) ==
  agenda' = [s \in Slugs |-> IF s \in removidos THEN SemAgenda ELSE agenda[s]]

\* ScheduleRepo.Alternar
Alternar(s) ==
  /\ s \in Agendados
  /\ agenda' = [agenda EXCEPT ![s].ativo = ~@]

\* ScheduleRepo.Ativas
Ativas == {s \in Agendados : agenda[s].ativo}

\* ScheduleRepo.AvancarSlot: WHERE ultimo_slot IS NULL OR ultimo_slot < $2
AvancarSlot(s, slot) ==
  agenda' = IF s \in Agendados /\ agenda[s].ultimo < slot
              THEN [agenda EXCEPT ![s].ultimo = slot] ELSE agenda

--------------------------------------------------------------------------------
(* schedule.Schedule *)

\* The walk of cron.Next: the instants after `de`, up to and including `ate`
Disparos(s, de, ate) == {h \in Horarios[s] : de < h /\ h <= ate}

\* The first n of them
Primeiros(S, n) == {h \in S : Cardinality({k \in S : k < h}) < n}

\* Mutant: the limit applies to the gap that catchup = false throws away
SlotsTruncandoAntes(s, linha, agora, limite) ==
  LET de == IF linha.ultimo = Nulo THEN agora ELSE linha.ultimo
      todos == Disparos(s, de, agora)
  IN IF Cardinality(todos) >= limite THEN Primeiros(todos, limite)
     ELSE IF linha.catchup \/ todos = {} THEN todos ELSE {Max(todos)}

\* Schedule.Slots: all pending instants, at most `limite` of them, or the
\* latest alone when the schedule does not catch up
Slots(s, linha, agora, limite) ==
  LET de == IF linha.ultimo = Nulo THEN agora ELSE linha.ultimo
      todos == Disparos(s, de, agora)
  IN IF linha.catchup THEN Primeiros(todos, limite)
     ELSE IF todos = {} THEN {} ELSE {Max(todos)}

================================================================================
