CONSTANTS
  Pedidos <- PedidosTLC
  MaxFalhas = 2
SPECIFICATION Spec
CHECK_DEADLOCK FALSE
INVARIANTS
  LeituraFiel
  DesfechoExplica
  CredencialGuardada
  ProvedorPoupado
  HttpServe
PROPERTIES
  GcsComUmTrabalhador
  TodaLeituraTermina
