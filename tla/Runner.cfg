SPECIFICATION SpecJustaMC
CONSTANTS
  Runs = {r1, r2}
  Nos = {a, b, c}
  MaxPods = 1
  MaxTentativas = 2
  Configuracoes <- ComandosDoBrevis
  ManterPodEmFalha = FALSE
  MaxQuedas = 1
INVARIANTS OrdemDoGrafo PodsSobControle   PassoServe
PROPERTY TodaExecucaoTermina
CHECK_DEADLOCK FALSE
