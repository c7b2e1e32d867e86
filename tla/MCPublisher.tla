------------------------------ MODULE MCPublisher ------------------------------
EXTENDS Publisher, WorkflowSpec, TLC

Acesso == INSTANCE AccessRules
Tela == INSTANCE ScreenRules

DiaADia == [s \in Slugs |-> {1}]
Simetria == Permutations(Slugs) \cup Permutations(Deploys) \cup Permutations(Projetos)

\* What a deploy finds to publish was accepted by the rules of WorkflowSpec: before
\* any deploy has run, every definition they accept can be run as the file says
DefinicaoServe == Init => DefinicaoAceitaRoda

\* Whatever the configuration, the session or the address of a request, who is not the
\* operator is kept out, and what the operator sees is what the tables hold
AcessoServe == Init => Acesso!AcessoFiel /\ Tela!TelaFiel
================================================================================
