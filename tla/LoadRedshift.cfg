CONSTANTS
  Pedidos <- PedidosTLC
  MaxExecucoes = 2
  MaxFalhas = 1
SPECIFICATION Spec
CHECK_DEADLOCK FALSE
INVARIANTS
  NadaSumiuNoRedshift
