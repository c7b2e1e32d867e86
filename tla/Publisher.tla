-------------------------------- MODULE Publisher --------------------------------
(***************************************************************************)
(* `brevis publish [--prune]` (src/cmd/brevis/main.go, cmdPublish): every  *)
(* file is published in a transaction of its own, and then the workflows   *)
(* of the project that were not named are removed.  Deploys of the same    *)
(* project, and of projects that share a slug, may run at the same time.   *)
(***************************************************************************)
EXTENDS Catalog

CONSTANTS
  Deploys,        \* runs of the command
  Interrompe      \* a deploy may be killed, or lose its database, between statements

VARIABLES
  umPorVez,       \* how the installation deploys: one at a time, or as they come
  fase,           \* where a deploy is
  projeto,        \* its --project
  aPublicar,      \* files left
  publicados,     \* files published
  removidos,      \* slugs Podar has taken out of `workflows`
  comCron         \* history: workflows whose latest published version has a cron

vars == <<workflows, agenda, umPorVez, fase, projeto, aPublicar, publicados, removidos,
          comCron>>

Init ==
  /\ workflows = {}
  /\ agenda = [s \in Slugs |-> SemAgenda]
  /\ umPorVez \in BOOLEAN
  /\ fase = [d \in Deploys |-> "inicio"]
  /\ projeto \in [Deploys -> Projetos]
  /\ aPublicar = [d \in Deploys |-> {}]
  /\ publicados = [d \in Deploys |-> {}]
  /\ removidos = [d \in Deploys |-> {}]
  /\ comCron = {}

\* the files of the command line, and whether each one has a cron
Comecar(d) ==
  /\ fase[d] = "inicio"
  /\ umPorVez => \A e \in Deploys : fase[e] \in {"inicio", "fim", "morto"}
  /\ \E S \in (SUBSET Slugs) \ {{}} : aPublicar' = [aPublicar EXCEPT ![d] = S]
  /\ fase' = [fase EXCEPT ![d] = "publicar"]
  /\ UNCHANGED <<workflows, agenda, umPorVez, projeto, publicados, removidos, comCron>>

PublicarArquivo(d) ==
  /\ fase[d] = "publicar"
  /\ \E s \in aPublicar[d] :
       /\ \E temCron \in BOOLEAN :
            /\ Publicar(projeto[d], s, temCron)
            /\ comCron' = IF temCron THEN comCron \cup {<<projeto[d], s>>}
                                     ELSE comCron \ {<<projeto[d], s>>}
       /\ aPublicar' = [aPublicar EXCEPT ![d] = @ \ {s}]
       /\ publicados' = [publicados EXCEPT ![d] = @ \cup {s}]
  /\ UNCHANGED <<fase, umPorVez, projeto, removidos>>

\* Mutant: the schedules go first
PodarAgendasAntes(d) ==
  /\ fase[d] = "publicar" /\ aPublicar[d] = {}
  /\ removidos' = [removidos EXCEPT ![d] = Podaveis(projeto[d], publicados[d])]
  /\ PodarAgendas(removidos'[d])
  /\ fase' = [fase EXCEPT ![d] = IF removidos'[d] = {} THEN "fim" ELSE "podar"]
  /\ UNCHANGED <<workflows, umPorVez, projeto, aPublicar, publicados, comCron>>

\* Mutant: the schedules are forgotten
PodarSoDefinicoes(d) ==
  /\ fase[d] = "publicar" /\ aPublicar[d] = {}
  /\ PodarWorkflows(projeto[d], publicados[d])
  /\ fase' = [fase EXCEPT ![d] = "fim"]
  /\ UNCHANGED <<agenda, umPorVez, projeto, aPublicar, publicados, removidos, comCron>>

\* Podar, first statement; the command ends here without --prune
PodarDefinicoes(d) ==
  /\ fase[d] = "publicar" /\ aPublicar[d] = {}
  /\ \/ /\ removidos' = [removidos EXCEPT ![d] = Podaveis(projeto[d], publicados[d])]
        /\ PodarWorkflows(projeto[d], publicados[d])
        /\ fase' = [fase EXCEPT ![d] = IF removidos'[d] = {} THEN "fim" ELSE "podar"]
     \/ fase' = [fase EXCEPT ![d] = "fim"] /\ UNCHANGED <<workflows, removidos>>
  /\ UNCHANGED <<agenda, umPorVez, projeto, aPublicar, publicados, comCron>>

\* Podar, second statement
PodarOrfas(d) ==
  /\ fase[d] = "podar"
  /\ PodarAgendas(removidos[d])
  /\ fase' = [fase EXCEPT ![d] = "fim"]
  /\ UNCHANGED <<workflows, umPorVez, projeto, aPublicar, publicados, removidos, comCron>>

Interromper(d) ==
  /\ Interrompe
  /\ fase[d] \in {"publicar", "podar"}
  /\ fase' = [fase EXCEPT ![d] = "morto"]
  /\ UNCHANGED <<workflows, agenda, umPorVez, projeto, aPublicar, publicados, removidos, comCron>>

Next ==
  \E d \in Deploys : Comecar(d) \/ PublicarArquivo(d) \/ PodarDefinicoes(d)
                       \/ PodarOrfas(d) \/ Interromper(d)

Spec == Init /\ [][Next]_vars

--------------------------------------------------------------------------------

\* The tables and the memory of the deploys have their types
TypeOK ==
  /\ workflows \subseteq Projetos \X Slugs
  /\ agenda \in [Slugs -> Linha \cup {SemAgenda}]
  /\ umPorVez \in BOOLEAN
  /\ fase \in [Deploys -> {"inicio", "publicar", "podar", "fim", "morto"}]
  /\ projeto \in [Deploys -> Projetos]
  /\ \A f \in {aPublicar, publicados, removidos} : f \in [Deploys -> SUBSET Slugs]
  /\ comCron \subseteq Projetos \X Slugs

\* A schedule without its workflow is left behind by a deploy that was killed
\* while pruning, and by nothing else, however many run at once: the workflows
\* that are not on the list go "together with their schedules"
\* (schedules.go:82-83, 117-118).
AgendaTemDefinicao ==
  \A s \in Agendados :
    \/ TemDefinicao(s)
    \/ \E d \in Deploys : fase[d] \in {"podar", "morto"} /\ s \in removidos[d]

\* Deployed one at a time, and by one project, a workflow published with a cron
\* has its schedule, whichever deploy is killed: without it "a workflow that
\* never fires" is left (schedules.go:21-25).
GrafoTemAgenda ==
  umPorVez /\ (\A d, e \in Deploys : projeto[d] = projeto[e]) =>
    \A w \in workflows \cap comCron : w[2] \in Agendados

\* What is left in the tables by deploys that are killed, repeated or simultaneous:
\* no schedule without a workflow, and no workflow with a cron without its schedule
CatalogoCoerente == TypeOK /\ AgendaTemDefinicao /\ GrafoTemAgenda
================================================================================
