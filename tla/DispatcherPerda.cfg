SPECIFICATION Spec
CONSTANTS
  Runs = {r1}
  Dispatchers = {d1}
  Goroutines = {g1}
  MaxConcorrente = 1
  MaxTentativas = 2
  MaxQuedas = 1
  Pontual = TRUE
  BancoFalha = FALSE
  Nenhum = Nenhum
  WorkflowDe <- UmWorkflow
  MaxAtivos <- LimiteUm
  Prioridade <- MesmaPrioridade
INVARIANTS NadaSePerde
CHECK_DEADLOCK FALSE
