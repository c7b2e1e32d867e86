SPECIFICATION SpecJusta
CONSTANTS
  Runs = {r1, r2}
  Dispatchers = {d1, d2}
  Goroutines = {g1, g2}
  MaxConcorrente = 2
  MaxTentativas = 2
  MaxQuedas = 1
  Pontual = TRUE
  BancoFalha = FALSE
  Nenhum = Nenhum
  WorkflowDe <- UmWorkflow
  MaxAtivos <- LimiteUm
  Prioridade <- MesmaPrioridade
INVARIANTS  LimitesRespeitados NinguemEsquece
PROPERTIES NaoRodaParaSempre TodoRunTermina
CHECK_DEADLOCK FALSE
