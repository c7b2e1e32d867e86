-------------------------------- MODULE MCExtract --------------------------------
EXTENDS Extract

Regras == INSTANCE HttpRules

Base == [n |-> 1, processo |-> <<1>>, trabalhadores |-> 1, tolera |-> FALSE, para |-> FALSE,
         estrategia |-> "nenhuma", maxPages |-> 9, tamanho |-> 0, tentativas |-> 2, corpo |-> FALSE,
         total |-> 3, limite |-> 2, laco |-> 0, giraPagina |-> FALSE,
         cred |-> "nenhuma", renova |-> FALSE, validade |-> TRUE, loja |-> "nenhuma", ttl |-> FALSE,
         gira |-> FALSE, revoga |-> FALSE, morta |-> FALSE]
Com(fs) == [x \in DOMAIN Base |-> IF x \in DOMAIN fs THEN fs[x] ELSE Base[x]]

\* one source, every way of paging; the last page may point back
Sozinhas ==
  {Com([estrategia |-> e, total |-> t, limite |-> l, laco |-> k, maxPages |-> m, corpo |-> c]) :
     e \in {"link", "cursor"}, t \in {0, 3, 4}, l \in {1, 2}, k \in {0, 1, 2}, m \in {1, 9}, c \in BOOLEAN}
  \cup {Com([estrategia |-> e, total |-> t, limite |-> 2, tamanho |-> z, maxPages |-> m]) :
     e \in {"page", "offset", "nenhuma"}, t \in {0, 3, 4}, z \in {0, 2}, m \in {1, 2, 9}}

\* two sources or three, with one worker or two
Leques ==
  {Com([n |-> k, processo |-> [f \in 1..k |-> 1], trabalhadores |-> w, tolera |-> c, para |-> s, total |-> t, tentativas |-> 1]) :
     k \in {2, 3}, w \in {1, 2}, c \in BOOLEAN, s \in BOOLEAN, t \in {0, 1}}

\* the credential: pages that reissue the session, what is kept between two runs, and
\* two walks of one process that share a cache
Reemitidas ==
  {Com([n |-> 2, processo |-> p, estrategia |-> "page", total |-> 1, limite |-> 1, tentativas |-> 1, cred |-> "valor",
        gira |-> TRUE, revoga |-> TRUE, giraPagina |-> g, renova |-> r]) :
     p \in {<<1, 1>>, <<1, 2>>}, g \in BOOLEAN, r \in BOOLEAN}
Guardadas ==
  {Com([n |-> 2, processo |-> p, total |-> 1, tentativas |-> 1, cred |-> "valor", renova |-> TRUE, validade |-> v,
        loja |-> o, gira |-> TRUE, revoga |-> x, morta |-> m]) :
     p \in {<<1, 1>>, <<1, 2>>}, v \in BOOLEAN, o \in {"arquivo", "gcs"}, x \in BOOLEAN, m \in BOOLEAN}
Partilhadas ==
  {Com([n |-> 2, processo |-> <<1, 1>>, trabalhadores |-> w, total |-> 1, tentativas |-> 1, cred |-> c, renova |-> r,
        loja |-> o, ttl |-> t, gira |-> g]) :
     w \in {1, 2}, c \in {"valor", "login"}, r \in BOOLEAN, o \in {"nenhuma", "gcs"}, t \in BOOLEAN, g \in BOOLEAN}

PedidosTLC == Sozinhas \cup Leques \cup Reemitidas \cup Guardadas \cup Partilhadas

\* The rules are functions of their inputs: one initial state is enough to evaluate them
UmComeco == Init /\ cfg = CHOOSE c \in Pedidos : TRUE

\* Whatever a source declares and whatever a server answers, a request is formed, repeated
\* and logged as the declaration says, and only the page ends a walk
HttpServe == UmComeco => Regras!HttpFiel
================================================================================
