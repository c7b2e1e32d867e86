SPECIFICATION Spec
CONSTANTS
  Projetos = {p1}
  Slugs = {w1}
  Schedulers = {s1}
  Operadores = {}
  MaxTempo = 3
  MaxPorCiclo = 2
  MaxComandos = 0
  MaxIntervencoes = 0
  MaxQuedas = 1
  BancoFalha = FALSE
  InicioComMarco = TRUE
  SemAgenda = SemAgenda
  Runs <- Chaves
  WorkflowDe <- WorkflowDoRun
  MaxAtivos <- SemLimite
  Prioridade <- PrioridadeDoGatilho
  Horarios <- TodoInstante
INVARIANT MarcadorDizVerdade
CHECK_DEADLOCK FALSE
