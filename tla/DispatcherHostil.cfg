SPECIFICATION Spec
CONSTANTS
  Runs = {r1}
  Dispatchers = {d1, d2}
  Goroutines = {g1, g2, g3}
  MaxConcorrente = 2
  MaxTentativas = 2
  MaxQuedas = 1
  Pontual = FALSE
  BancoFalha = TRUE
  Nenhum = Nenhum
  WorkflowDe <- UmWorkflow
  MaxAtivos <- LimiteUm
  Prioridade <- MesmaPrioridade
SYMMETRY Simetria
INVARIANTS TypeOK TentativasLimitadas AvisoSoNoFim ContaDeTentativas
PROPERTY ImplementaVida
CHECK_DEADLOCK FALSE
