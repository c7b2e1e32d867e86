CONSTANTS
  Pedidos <- PedidosTLC
  MaxExecucoes = 2
  MaxFalhas = 1
SPECIFICATION Spec
CHECK_DEADLOCK FALSE
INVARIANTS
  CargaFiel
  ResultadoConfere
  UmaLinhaPorId
  SobraExplicada
  RegistroServe
  PlanoServe
PROPERTIES
  ImplementaTabela
  RepeticaoInocua
