SPECIFICATION Spec
CONSTANTS
  Projetos = {p1, p2}
  Slugs = {w1, w2}
  Deploys = {d1, d2, d3}
  Nos = {n1, n2}
  Interrompe = TRUE
  SemAgenda = SemAgenda
  Horarios <- DiaADia
SYMMETRY Simetria
INVARIANTS CatalogoCoerente DefinicaoServe AcessoServe
CHECK_DEADLOCK FALSE
