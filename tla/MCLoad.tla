--------------------------------- MODULE MCLoad ---------------------------------
EXTENDS Load, RecordRules, TLC

Plano == INSTANCE LoadPlan
Tipos == INSTANCE TypeRules
Arquivos == INSTANCE FileRules

L(n, c) == [tipo |-> "linha", id |-> n, campos |-> c]
Salta == [tipo |-> "salta", id |-> 0, campos |-> {}]
Erro == [tipo |-> "erro", id |-> 0, campos |-> {}]
A == {"id", "a"}
AB == {"id", "a", "b"}

\* two records; a record twice and one a transformer skips; a field only the second
\* has; a source that breaks
Fontes == {<<L(1, A), L(2, A)>>, <<L(1, A), Salta, L(1, A), L(2, A)>>, <<L(1, A), L(2, AB)>>, <<L(1, A), Erro>>}

Base == [destino |-> "files", dedup |-> "none", flush |-> 0, criar |-> "nao", cluster |-> {},
         existe |-> TRUE, daTabela |-> AB, indice |-> FALSE, limite |-> 1, manter |-> FALSE,
         colunas |-> {}, bloco |-> 1, ensaio |-> FALSE, fonte |-> <<>>]

Com(r, fs) == fs @@ r
Flushes == {0, 1}
Dedups == {"none", "merge"}

PedidosTLC ==
  {Com(Base, [destino |-> "files", dedup |-> d, flush |-> f, fonte |-> s]) :
     d \in Dedups, f \in Flushes, s \in Fontes}
  \cup {Com(Base, [destino |-> o, dedup |-> d, flush |-> f, fonte |-> s, indice |-> u, daTabela |-> t,
                   bloco |-> f + 1]) :
     o \in {"postgres", "mysql"}, d \in Dedups, f \in Flushes, s \in Fontes, u \in BOOLEAN, t \in {A, AB}}
  \cup {Com(Base, [destino |-> "redshift", dedup |-> d, flush |-> f, fonte |-> s, manter |-> k, colunas |-> c]) :
     d \in Dedups, f \in Flushes, s \in Fontes, k \in BOOLEAN, c \in {{}, A}}
  \cup {Com(Base, [destino |-> "bigquery", dedup |-> d, flush |-> f, fonte |-> s, manter |-> k, limite |-> n,
                   existe |-> e, criar |-> "schema", cluster |-> {"a"}]) :
     d \in Dedups, f \in {0, 2}, s \in Fontes, k \in BOOLEAN, n \in {1, 2}, e \in BOOLEAN}
  \cup {Com(Base, [destino |-> "bigquery", fonte |-> <<L(1, A)>>, existe |-> FALSE, criar |-> k, colunas |-> c,
                   cluster |-> g, daTabela |-> t, ensaio |-> x]) :
     k \in {"nao", "sql"}, c \in {{}, AB}, g \in {{}, {"b"}}, t \in {A, AB}, x \in BOOLEAN}
  \cup {Com(Base, [destino |-> o, dedup |-> d, existe |-> e, colunas |-> c, daTabela |-> t,
                   indice |-> o \in {"postgres", "mysql"}, fonte |-> <<L(1, A)>>]) :
     o \in {"postgres", "mysql", "redshift", "bigquery"}, d \in Dedups, e \in BOOLEAN, c \in {{}, AB}, t \in {A, {"id"}}}

\* The rules are functions of their inputs and no state changes them: one initial state
\* is enough to evaluate them
UmComeco == pc = "verificar" /\ i = 0 /\ execucao = 1 /\ cfg = CHOOSE c \in Pedidos : TRUE

\* Whatever a record holds, what is computed from it is what the platform and the rows
\* loaded before expect
RegistroServe == UmComeco => RegistroFiel

\* What a load is asked to do it does under the same names, types, paths and order,
\* whichever the destination, and what it says of itself hides no secret and no row
PlanoServe == UmComeco => Plano!PlanoFiel /\ Tipos!TiposFieis /\ Arquivos!ArquivosFieis
================================================================================
