SPECIFICATION SpecJusta
CONSTANTS
  Projetos = {p1}
  Slugs = {w1}
  Schedulers = {s1, s2}
  Operadores = {o1}
  MaxTempo = 3
  MaxPorCiclo = 1
  MaxComandos = 1
  MaxIntervencoes = 0
  MaxQuedas = 0
  BancoFalha = FALSE
  InicioComMarco = TRUE
  SemAgenda = SemAgenda
  Runs <- Chaves
  WorkflowDe <- WorkflowDoRun
  MaxAtivos <- SemLimite
  Prioridade <- PrioridadeDoGatilho
  Horarios <- TodoInstante
INVARIANTS MarcadorDizVerdade BackfillCompleto
PROPERTIES  SoOMaisRecente
CHECK_DEADLOCK FALSE
