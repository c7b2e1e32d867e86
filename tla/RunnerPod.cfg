SPECIFICATION Spec
CONSTANTS
  Runs = {r1}
  Nos = {a, b}
  MaxPods = 2
  MaxTentativas = 2
  Configuracoes <- SoOScheduler
  ManterPodEmFalha = TRUE
  MaxQuedas = 0
INVARIANTS PodDestaTentativa
CHECK_DEADLOCK FALSE
