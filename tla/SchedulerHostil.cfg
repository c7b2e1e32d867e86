SPECIFICATION Spec
CONSTANTS
  Projetos = {p1}
  Slugs = {w1}
  Schedulers = {s1}
  Operadores = {o1}
  MaxTempo = 4
  MaxPorCiclo = 2
  MaxComandos = 1
  MaxIntervencoes = 1
  MaxQuedas = 1
  BancoFalha = TRUE
  InicioComMarco = FALSE
  SemAgenda = SemAgenda
  Runs <- Chaves
  WorkflowDe <- WorkflowDoRun
  MaxAtivos <- SemLimite
  Prioridade <- PrioridadeDoGatilho
  Horarios <- UmHorarioSim
INVARIANTS SemLacuna
PROPERTIES OrdemDosSlots
CHECK_DEADLOCK FALSE
