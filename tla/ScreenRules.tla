-------------------------------- MODULE ScreenRules --------------------------------
(***************************************************************************)
(* What the operator is shown: the lists with their filters, order, pages  *)
(* and links, the numbers of the overview, the graph of a run, the next    *)
(* runs and the alert of a failure.                                        *)
(*   src/internal/api/ui.go, graph.go, src/internal/notify/slack.go,       *)
(*   src/internal/infrastructure/postgres/leitura.go,                      *)
(*   src/web/pages/pages_templ.go, src/web/components/components_templ.go  *)
(* A run is created at an instant of its own, so the instant names it.     *)
(***************************************************************************)
LOCAL INSTANCE Integers
LOCAL INSTANCE Sequences
LOCAL INSTANCE FiniteSets
LOCAL INSTANCE SequencesExt
LOCAL INSTANCE FiniteSetsExt
LOCAL INSTANCE TLC

Vazio == ""
Estados == {"queued", "running", "success", "failed", "retrying", "canceled"}

--------------------------------------------------------------------------------
(* What a page is asked for: 0 is a field that was not given                    *)

estadoValido(s) == IF s \in Estados THEN s ELSE Vazio
ordemValida(s) == IF s \in {"workflow", "agenda", "proxima", "ultima"} THEN s ELSE Vazio
\* a text that is no number has no value here, and is taken for the first page
pagina(n) == IF n < 1 THEN 1 ELSE n
\* RFC 3339, or no filter
instante(v) == IF v < 0 THEN 0 ELSE v

\* the query string of a link, and what url leaves out of it: what is empty, and the page
\* when a filter changes
Nada(campo) == IF campo \in {"workflow", "de", "ate", "pagina"} THEN 0 ELSE Vazio
Juntar(q, campo, valor) == IF valor = Nada(campo) THEN [n \in DOMAIN q \ {campo} |-> q[n]]
                           ELSE [n \in DOMAIN q \cup {campo} |-> IF n = campo THEN valor ELSE q[n]]
urlRuns(f, campo, valor, reinicia) ==
  LET postos == {n \in {"estado"} : f[n] # Vazio} \cup {n \in {"workflow", "de", "ate"} : f[n] # 0}
                \cup {n \in {"pagina"} : ~reinicia /\ f.pagina > 1}
  IN Juntar([n \in postos |-> f[n]], campo, valor)
\* the handler of /runs: what it shows as its filter is what it asks the table for
runs(q) ==
  [estado |-> IF "estado" \in DOMAIN q THEN estadoValido(q.estado) ELSE Vazio,
   workflow |-> IF "workflow" \in DOMAIN q THEN q.workflow ELSE 0,
   de |-> IF "de" \in DOMAIN q THEN instante(q.de) ELSE 0,
   ate |-> IF "ate" \in DOMAIN q THEN instante(q.ate) ELSE 0,
   pagina |-> IF "pagina" \in DOMAIN q THEN pagina(q.pagina) ELSE 1]

urlWorkflows(f, campo, valor, reinicia) ==
  LET postos == {n \in {"q", "estado", "ativo", "tag", "ordem"} : f[n] # Vazio} \cup {n \in {"dir"} : f.dir = "desc"}
                \cup {n \in {"pagina"} : ~reinicia /\ f.pagina > 1}
  IN Juntar([n \in postos |-> f[n]], campo, valor)
\* a column sorts upwards, then downwards, then not at all
ComOrdem(f, campo) ==
  CASE f.ordem = campo /\ f.dir # "desc" -> urlWorkflows(f, "dir", "desc", TRUE)
    [] f.ordem = campo /\ f.dir = "desc" -> urlWorkflows([f EXCEPT !.ordem = Vazio, !.dir = Vazio], "pagina", 0, TRUE)
    [] OTHER -> urlWorkflows([f EXCEPT !.dir = Vazio], "ordem", campo, TRUE)
workflows(q) ==
  [n \in {"q", "estado", "ativo", "tag", "ordem", "dir", "pagina"} |->
     IF n \notin DOMAIN q THEN IF n = "pagina" THEN 1 ELSE Vazio
     ELSE CASE n = "estado" -> estadoValido(q[n]) [] n = "ordem" -> ordemValida(q[n])
            [] n = "pagina" -> pagina(q[n]) [] n = "dir" -> IF q[n] = "desc" THEN "desc" ELSE Vazio [] OTHER -> q[n]]

--------------------------------------------------------------------------------
(* The list of runs: a filter, an order, a page                                *)

\* both Runs and ContarRuns use it
where(f, tabela) == {r \in tabela : /\ f.estado \in {Vazio, r.status} /\ (f.workflow # 0 => f.workflow = r.slug)
                                    /\ (f.de # 0 => r.criado >= f.de) /\ (f.ate # 0 => r.criado < f.ate)}
\* LIMIT and OFFSET of a sequence
Recorte(s, desde, limite) == SubSeq(s, desde + 1, Min({desde + limite, Len(s)}))
Runs(f, tabela, limite) ==
  Recorte(SetToSortSeq(where(f, tabela), LAMBDA a, b : a.criado > b.criado), (f.pagina - 1) * limite, limite)
ContarRuns(f, tabela) == Cardinality(where(f, tabela))
RunsDoWorkflow(slug, tabela, limite) ==
  Recorte(SetToSortSeq({r \in tabela : r.slug = slug}, LAMBDA a, b : a.criado > b.criado), 0, limite)
\* the oldest of what waits or runs comes first
EmAndamento(tabela, limite) ==
  Recorte(SetToSortSeq({r \in tabela : r.status \in {"queued", "running", "retrying"}}, LAMBDA a, b : a.criado < b.criado), 0, limite)
\* varrerRuns: a duration needs both ends
Duracao(r) == IF r.inicio = 0 \/ r.fim = 0 THEN -1 ELSE r.fim - r.inicio

\* the foot of a list
Paginas(total, por) == Max({1, (total + por - 1) \div por})
Primeiro(total, por, p) == IF total = 0 THEN 0 ELSE (p - 1) * por + 1
Ultimo(total, por, p) == Min({p * por, total})
\* five pages, the one shown in the middle; at an end they move inwards
Janela(total, por, p) ==
  LET n == Paginas(total, por)
      ate == p + 2 + Max({0, 3 - p})
      de == Max({1, p - 2}) - Max({0, ate - n})
  IN Max({1, de})..Min({ate, n})

--------------------------------------------------------------------------------
(* The list of workflows, sorted by slug as the table gives it                  *)

\* Workflows: the schedule of the slug, and the latest run, all of it from one row
Workflow(w, agendas, tabela) ==
  LET deles == {r \in tabela : r.slug = w}
      tem == w \in DOMAIN agendas
      u == CHOOSE r \in deles : \A x \in deles : x.criado <= r.criado
  IN [slug |-> w, temAgenda |-> tem, cron |-> IF tem THEN agendas[w].cron ELSE 0,
      ativo |-> tem /\ agendas[w].ativo, totalRuns |-> Cardinality(deles),
      ultima |-> IF deles = {} THEN 0 ELSE u.criado, status |-> IF deles = {} THEN Vazio ELSE u.status,
      tags |-> IF w = 1 THEN {"dbt"} ELSE {}, textos |-> IF w = 1 THEN {"a", "ab"} ELSE {"a"}]
\* a cron that is not valid (-1) has no next instant
proximaDoWorkflow(w, agora) == IF ~w.ativo \/ w.cron <= 0 THEN 0 ELSE agora + w.cron
Linhas(agendas, tabela, agora) ==
  [w \in 1..3 |-> LET l == Workflow(w, agendas, tabela)
                  IN [n \in DOMAIN l \cup {"proxima"} |-> IF n = "proxima" THEN proximaDoWorkflow(l, agora) ELSE l[n]]]
filtrar(ws, f) ==
  SelectSeq(ws, LAMBDA w : /\ f.q # Vazio => f.q \in w.textos
                           /\ f.estado \in {Vazio, w.status}
                           /\ (f.ativo = "active" => w.ativo) /\ (f.ativo = "paused" => ~w.ativo /\ w.temAgenda)
                           /\ (f.tag # Vazio => f.tag \in w.tags))
tagsDe(ws) == UNION {ws[k].tags : k \in DOMAIN ws}

temValor(w, campo) == CASE campo = "agenda" -> w.cron # 0 [] campo = "proxima" -> w.proxima # 0
                        [] campo = "ultima" -> w.ultima # 0 [] OTHER -> TRUE
campoDe(w, campo) == CASE campo = "agenda" -> w.cron [] campo = "proxima" -> w.proxima
                       [] campo = "ultima" -> w.ultima [] OTHER -> w.slug
\* Mutant: the direction turns the whole comparison around
MenorInvertendo(a, b, f) ==
  LET x == IF f.dir = "desc" THEN b ELSE a
      y == IF f.dir = "desc" THEN a ELSE b
  IN IF temValor(x, f.ordem) # temValor(y, f.ordem) THEN temValor(x, f.ordem)
     ELSE IF campoDe(x, f.ordem) # campoDe(y, f.ordem) THEN campoDe(x, f.ordem) < campoDe(y, f.ordem) ELSE x.slug < y.slug
\* what has no value comes last both ways, and equals are in the order of their slugs
Menor(a, b, f) ==
  IF temValor(a, f.ordem) # temValor(b, f.ordem) THEN temValor(a, f.ordem)
  ELSE IF temValor(a, f.ordem) /\ campoDe(a, f.ordem) # campoDe(b, f.ordem)
       THEN (campoDe(a, f.ordem) < campoDe(b, f.ordem)) = (f.dir # "desc") ELSE a.slug < b.slug
ordenar(ws, f) == IF f.ordem = Vazio THEN ws ELSE SortSeq(ws, LAMBDA a, b : Menor(a, b, f))
recortar(ws, f, por) == Recorte(ws, (f.pagina - 1) * por, por)

\* the schedules that are on and have a next instant, the nearest first
proximasExecucoes(agendas, agora, limite) ==
  LET quando == {<<agora + agendas[w].cron, w>> : w \in {w \in DOMAIN agendas : agendas[w].ativo /\ agendas[w].cron > 0}}
  IN Recorte(SetToSortSeq(quando, LAMBDA a, b : a[1] < b[1] \/ (a[1] = b[1] /\ a[2] < b[2])), 0, limite)

--------------------------------------------------------------------------------
(* The numbers of the overview                                                 *)

Quantas(tabela, estados) == Cardinality({r \in tabela : r.status \in estados})
\* the mean of what has both ends, or none
DuracaoMedia(tabela) ==
  LET ds == {r \in tabela : Duracao(r) >= 0}
  IN IF ds = {} THEN 0 ELSE FoldSet(LAMBDA r, s : s + Duracao(r), 0, ds) \div Cardinality(ds)
Contagens(tabela) ==
  [Sucesso |-> Quantas(tabela, {"success"}), Falha |-> Quantas(tabela, {"failed"}),
   EmExecucao |-> Quantas(tabela, {"running", "retrying"}), Pendentes |-> Quantas(tabela, {"queued"}),
   DuracaoMedia |-> DuracaoMedia(tabela)]
\* the runs created in the last janela instants; the cancelled count in the total only
Indicadores(tabela, agora, janela) ==
  LET deles == {r \in tabela : r.criado >= agora - janela}
  IN [c \in {"Total"} |-> Cardinality(deles)] @@ Contagens(deles)
\* a share of what is over, <<of, hundred of>>; nothing over is no share
Razao(i, parte) == IF i.Sucesso + i.Falha = 0 THEN <<0, 1>> ELSE <<parte * 100, i.Sucesso + i.Falha>>

\* one column per hour (of H instants), the empty ones too
H == 2
ExecucoesPorHora(tabela, agora, horas) ==
  [k \in 1..horas |-> LET inicio == (agora \div H - (horas - k)) * H
                      IN [c \in {"inicio"} |-> inicio] @@ Contagens({r \in tabela : r.criado >= inicio /\ r.criado < inicio + H})]
Total(b) == b.Sucesso + b.Falha + b.EmExecucao + b.Pendentes
\* a column leads to the runs of its hour
linkDoBalde(b) == [n \in {"de", "ate"} |-> IF n = "de" THEN b.inicio ELSE b.inicio + H]

\* the top of the axis: four steps of a round length that hold the highest column
Passos == <<1, 2, 5, 10, 25, 50, 100, 250, 500, 1000, 2500, 5000>>
tetoDe(maior) ==
  LET bons == {k \in DOMAIN Passos : Passos[k] * 4 >= maior}
  IN IF maior = 0 THEN 4 ELSE IF bons # {} THEN Passos[Min(bons)] * 4 ELSE ((maior + 3999) \div 4000) * 4000
linhasDeGrade(teto, util) == [k \in 0..4 |-> [y |-> util - ((util * k) \div 4), rotulo |-> (teto * k) \div 4]]
\* a part of a column is two pixels high at least, unless it is empty
altura(n, teto, util) == IF n = 0 THEN 0 ELSE Max({2, (n * util) \div teto})
barra(b, teto, util) ==
  LET hs == altura(b.Sucesso, teto, util)
      hf == altura(b.Falha, teto, util)
      ho == altura(b.EmExecucao + b.Pendentes, teto, util)
  IN << <<util - hs, hs>>, <<util - hs - hf, hf>>, <<util - hs - hf - ho, ho>> >>
\* the pieces of the curve of the mean: an hour with none ends a piece
linhaDuracao(medias) == {<<a, b>> \in (DOMAIN medias) \X (DOMAIN medias) :
                           /\ a <= b /\ \A k \in a..b : medias[k] # 0
                           /\ a - 1 \in DOMAIN medias => medias[a - 1] = 0
                           /\ b + 1 \in DOMAIN medias => medias[b + 1] = 0}
\* at most eight labels of hours
marcasDeHora(n) == {k \in 0..(n - 1) : k % (n \div 8 + 1) = 0}
\* the ring: each kind that is not empty begins where the former ended
arcos(i, perimetro) ==
  LET ns == SelectSeq(<<i.Sucesso, i.Falha, i.EmExecucao, i.Pendentes>>, LAMBDA n : n # 0)
      tam == [k \in DOMAIN ns |-> (ns[k] * perimetro) \div i.Total]
  IN IF i.Total = 0 THEN <<>>
     ELSE [k \in DOMAIN ns |-> [dash |-> <<tam[k], perimetro - tam[k]>>, offset |-> -FoldLeft(LAMBDA s, x : s + x, 0, SubSeq(tam, 1, k - 1))]]

--------------------------------------------------------------------------------
(* The graph of a workflow or of a run                                         *)

Etapas == {1, 2, 3}
Grafo == INSTANCE StepGraph WITH Nos <- Etapas
LarguraNivel == 260
AlturaNo == 110
\* a column is a level of the order the runner follows; {} is a graph with a cycle
Posicoes(g) ==
  IF ~Grafo!TemNiveis(g) THEN {}
  ELSE {[n \in Etapas |-> LET k == Min({k \in 1..Cardinality(Etapas) : n \in Grafo!Nivel(g, k)})
                           coluna == Grafo!Nivel(g, k)
                       IN [X |-> (k - 1) * LarguraNivel,
                           Y |-> -(((Cardinality(coluna) - 1) * AlturaNo) \div 2)
                                 + Cardinality({m \in coluna : m < n}) * AlturaNo]]}
\* a step without a row is pending; an edge moves towards what runs now; a failed run may
\* be tried again, so the page goes on asking
responderGrafo(g, estados, status) ==
  {[nodes |-> p, status |-> [n \in Etapas |-> IF n \in DOMAIN estados THEN estados[n] ELSE "pending"],
    edges |-> [e \in g |-> e[2] \in DOMAIN estados /\ estados[e[2]] = "running"],
    Terminal |-> status \in {"success", "canceled"}] : p \in Posicoes(g)}

--------------------------------------------------------------------------------
(* The alert: its parts in their order, with the lengths of their texts         *)

Cabe == 900
truncar(n) == IF n <= Cabe THEN n ELSE Cabe + 15
\* the first tag that is not of everybody, or what is before the first _ of the slug
classificar(tags, partes) ==
  LET proprias == SelectSeq(tags, LAMBDA t : t \notin {"zarv", "dbt", "python"})
  IN IF proprias # <<>> THEN proprias[1] ELSE IF Len(partes) > 1 THEN partes[1] ELSE "-"
mensagem(a) ==
  LET campos == <<"dominio", "pipeline", "status", "origem">> \o (IF a.passo THEN <<"passo">> ELSE <<>>)
                \o (IF a.tentativas > 0 THEN <<"tentativas">> ELSE <<>>) \o (IF a.data THEN <<"data">> ELSE <<>>)
      bloco(nome, n) == IF n = 0 THEN <<>> ELSE <<[bloco |-> nome, tamanho |-> n]>>
  IN <<[bloco |-> "header", tamanho |-> 32], [bloco |-> "campos", tamanho |-> Len(campos)]>>
     \o bloco("erro", IF a.erro = 0 THEN 0 ELSE truncar(a.erro) + 6)
     \o bloco("log", IF a.log = 0 THEN 0 ELSE truncar(a.log) + 24)
     \o bloco("link", IF a.url /\ a.run THEN 60 ELSE 0)
\* Falhou: no webhook, an error on the way, or what Slack answers
Falhou(webhook, resposta) == ~webhook \/ resposta \in 200..299

--------------------------------------------------------------------------------
(* What is expected of them                                                    *)

Corridas == [status : {"running", "success", "failed", "canceled"}, slug : {1, 2}]
\* tables of runs created at different instants
Tabela(m) == {[criado |-> t, status |-> m[t].status, slug |-> m[t].slug,
               inicio |-> IF m[t].status = "canceled" THEN 0 ELSE t,
               fim |-> IF m[t].status \in {"running", "canceled"} THEN 0 ELSE t + 3] : t \in DOMAIN m}
Tabelas == {Tabela(m) : m \in UNION {[ts -> Corridas] : ts \in {{}, {2}, {2, 3}, {1, 4}, {2, 3, 5}}}}
SemFiltro == [estado |-> Vazio, workflow |-> 0, de |-> 0, ate |-> 0, pagina |-> 1]
Na(f, p) == [f EXCEPT !.pagina = p]
Filtros == {[SemFiltro EXCEPT !.estado = e, !.de = d, !.ate = a] : e \in {Vazio, "failed"}, d \in {0, 2}, a \in {0, 4}}
           \cup {[SemFiltro EXCEPT !.workflow = w] : w \in {1, 2}}
Lidas(f, tabela, limite, ps) == UNION {ToSet(Runs(Na(f, p), tabela, limite)) : p \in ps}

\* The pages of the runs are the runs the filter counts, each on one page, the newest
\* first, under the numbers the foot says; whoever walks down them while runs are created
\* sees each that was there; the numbers offered are pages that exist (leitura.go, ui.go)
PaginasServem ==
  /\ \A tb \in Tabelas, f \in Filtros, limite \in {1, 2} :
       LET total == ContarRuns(f, tb)
           n == Paginas(total, limite)
           lista == FlattenSeq([p \in 1..n |-> Runs(Na(f, p), tb, limite)])
           nova == tb \cup Tabela([t \in {6} |-> [status |-> "failed", slug |-> 1]])
       IN /\ Len(lista) = total /\ ToSet(lista) = where(f, tb)
          /\ \A k \in 1..(total - 1) : lista[k].criado > lista[k + 1].criado
          /\ Runs(Na(f, n + 1), tb, limite) = <<>>
          /\ \A p \in 1..n : total > 0 => Ultimo(total, limite, p) - Primeiro(total, limite, p) + 1 = Len(Runs(Na(f, p), tb, limite))
          /\ \A p \in 1..n : where(f, tb) \subseteq Lidas(f, tb, limite, 1..p) \cup Lidas(f, nova, limite, (p + 1)..(n + 1))
          /\ \A r \in ToSet(EmAndamento(tb, limite)), x \in tb : x.status = "running" /\ x.criado < r.criado => x \in ToSet(EmAndamento(tb, limite))
  /\ \A total \in 0..17, p \in 1..9 :
       LET n == Paginas(total, 2)
           j == Janela(total, 2, p)
       IN j \subseteq 1..n /\ (p <= n => p \in j /\ Cardinality(j) = Min({5, n}))

Agendas == UNION {[ws -> [cron : {-1, 1, 2}, ativo : BOOLEAN]] : ws \in {{}, {1, 3}, {1, 2}}}
FiltrosW == [q : {Vazio, "ab"}, estado : {Vazio, "failed"}, ativo : {Vazio, "active", "paused"}, tag : {Vazio, "dbt"},
             ordem : {Vazio, "workflow", "agenda", "proxima", "ultima"}, dir : {Vazio, "desc"}, pagina : {1}]
SoOrdem == {f \in FiltrosW : f.q = Vazio /\ f.estado = Vazio /\ f.ativo = Vazio /\ f.tag = Vazio}
DasListas == {Linhas(a, tb, 7) : a \in Agendas, tb \in {tb \in Tabelas : Cardinality(tb) <= 2}}

\* A sorted list is the filtered one, every page of it follows from the one before, what
\* has no value is last whichever way it is sorted and two loads give the same order; a
\* schedule is shown as on or as paused and a workflow that never had one as neither; the
\* tags to filter by do not shrink with the filter; the nearest runs to come are those of
\* the lines of the list (ui.go ordenar, filtrar, recortar, proximasExecucoes)
ListaServe ==
  /\ \A ws \in DasListas :
       /\ \A f \in SoOrdem :
            LET o == ordenar(ws, f)
            IN /\ Len(o) = Len(ws) /\ ToSet(o) = ToSet(ws)
               /\ FlattenSeq([p \in 1..3 |-> recortar(o, Na(f, p), 2)]) = o
               /\ o = ordenar(Reverse(ws), f) \/ f.ordem = Vazio
               /\ \A i, j \in DOMAIN o : i < j /\ f.ordem # Vazio =>
                    /\ temValor(o[j], f.ordem) => temValor(o[i], f.ordem)
                    /\ temValor(o[j], f.ordem) /\ f.dir = "desc" => campoDe(o[i], f.ordem) >= campoDe(o[j], f.ordem)
                    /\ temValor(o[j], f.ordem) /\ f.dir # "desc" => campoDe(o[i], f.ordem) <= campoDe(o[j], f.ordem)
       /\ \A f \in {f \in FiltrosW : f.ordem = Vazio /\ f.dir = Vazio} :
            LET com(a) == ToSet(filtrar(ws, [f EXCEPT !.ativo = a]))
            IN /\ com("active") \cap com("paused") = {}
               /\ com("active") \cup com("paused") = {w \in com(Vazio) : w.temAgenda}
               /\ tagsDe(filtrar(ws, f)) \subseteq tagsDe(ws)
  /\ \A a \in Agendas, limite \in 1..2 :
       LET ps == proximasExecucoes(a, 7, limite)
           ls == Linhas(a, {}, 7)
       IN /\ \A k \in DOMAIN ps : ps[k][1] = ls[ps[k][2]].proxima
          /\ \A w \in 1..3 : ls[w].proxima # 0 =>
               \/ \E k \in DOMAIN ps : ps[k][2] = w
               \/ Len(ps) = limite /\ \A k \in DOMAIN ps : ps[k][1] <= ls[w].proxima

Cliques == {<<"estado", Vazio>>, <<"estado", "failed">>, <<"workflow", 1>>, <<"de", 0>>, <<"de", 3>>, <<"ate", 5>>}
Pedidos == [estado : {Vazio, "failed", "xpto"}, workflow : {0, 1}, de : {-1, 2}, ate : {-1, 4}, pagina : {-1, 1, 7}]

\* A link on a page is that page with one thing changed: it is read back to the same
\* filter, a changed filter starts at the first page and a changed page keeps the filter,
\* three clicks on a column give its order away again, and what was typed wrong is shown
\* as what was asked; a column of the chart leads to the runs it counts (pages.templ url,
\* ComOrdem; ui.go runs, workflows; components.templ linkDoBalde)
LinkFiel ==
  /\ \A q \in Pedidos :
       LET f == runs(q)
       IN /\ f.pagina >= 1 /\ f.de >= 0 /\ runs(urlRuns(f, "pagina", f.pagina, FALSE)) = f
          /\ \A c \in Cliques : runs(urlRuns(f, c[1], c[2], TRUE)) = [f EXCEPT ![c[1]] = c[2], !.pagina = 1]
          /\ \A p \in 1..3 : runs(urlRuns(f, "pagina", p, FALSE)) = Na(f, p)
  /\ \A g \in FiltrosW, p \in {1, 7} :
       LET f == Na(workflows(g), p)
           clica(x, campo) == workflows(ComOrdem(x, campo))
       IN /\ \A c \in {<<"tag", "dbt">>, <<"estado", Vazio>>, <<"ativo", "paused">>} :
               workflows(urlWorkflows(f, c[1], c[2], TRUE)) = [f EXCEPT ![c[1]] = c[2], !.pagina = 1]
          /\ f.ordem = Vazio /\ f.dir = Vazio =>
               /\ clica(f, "ultima") = [f EXCEPT !.ordem = "ultima", !.pagina = 1]
               /\ clica(clica(f, "ultima"), "ultima") = [f EXCEPT !.ordem = "ultima", !.dir = "desc", !.pagina = 1]
               /\ clica(clica(clica(f, "ultima"), "ultima"), "ultima") = Na(f, 1)
  /\ \A tb \in Tabelas : \A b \in ToSet(ExecucoesPorHora(tb, 5, 3)) :
       ContarRuns(runs(linkDoBalde(b)), tb) = Total(b) + Quantas(where(runs(linkDoBalde(b)), tb), {"canceled"})

\* The shares of what is over add up, and what waits, runs or was cancelled moves none of
\* them; every hour has its column and every run of the window is in one; nothing that
\* happened is too small for the chart, no column leaves its axis but by the pixels that
\* make it visible, the curve is broken where nothing ran and the pieces of the ring follow
\* one another (leitura.go; components.templ)
NumerosServem ==
  /\ \A tb \in Tabelas :
       LET i == Indicadores(tb, 6, 6)
           hs == ExecucoesPorHora(tb, 5, 3)
           r == arcos(i, 289)
       IN /\ i.Total = Total(i) + Quantas(tb, {"canceled"})
          /\ Razao(i, i.Sucesso)[1] + Razao(i, i.Falha)[1] \in {0, 100 * Razao(i, i.Sucesso)[2]}
          /\ \A s \in {"running", "queued", "canceled"} :
               LET j == Indicadores(tb \cup {[criado |-> 6, status |-> s, slug |-> 1, inicio |-> 0, fim |-> 0]}, 6, 6)
               IN Razao(i, i.Falha) = Razao(j, j.Falha) /\ j.DuracaoMedia = i.DuracaoMedia
          /\ \A x \in tb : Cardinality({k \in 1..3 : x.criado \in hs[k].inicio..(hs[k].inicio + H - 1)}) = 1
          /\ FoldLeft(LAMBDA s, b : s + Total(b), 0, hs) = Total(i)
          /\ \A k \in DOMAIN r : r[k].dash[1] - r[k].offset <= 289
          /\ \A k \in 1..(Len(r) - 1) : r[k + 1].offset = r[k].offset - r[k].dash[1]
  /\ \A s, f, o \in {0, 1, 3, 24, 399} :
       LET b == [Sucesso |-> s, Falha |-> f, EmExecucao |-> o, Pendentes |-> 0]
           teto == tetoDe(Total(b))
           p == barra(b, teto, 214)
           g == linhasDeGrade(teto, 214)
       IN /\ teto >= Total(b) /\ \A k \in 0..3 : g[k + 1].rotulo - g[k].rotulo = teto \div 4 /\ g[k + 1].y < g[k].y
          /\ \A k \in 1..3 : <<s, f, o>>[k] > 0 <=> p[k][2] >= 2
          /\ p[1][1] + p[1][2] = 214 /\ p[2][1] + p[2][2] = p[1][1] /\ p[3][1] + p[3][2] = p[2][1]
          /\ p[3][1] >= -4
  /\ \A m \in [1..4 -> {0, 1}] : \A k \in 1..4 :
       Cardinality({t \in linhaDuracao(m) : k \in t[1]..t[2]}) = m[k]
  /\ \A n \in 1..40 : Cardinality(marcasDeHora(n)) <= 8 /\ 0 \in marcasDeHora(n)

Ciclo == INSTANCE RunStatus
\* A graph is drawn as it is run: every step once and apart from the others, every edge
\* forwards, a column in the middle of the others; a step shows what its row says, motion
\* is where something runs, and the page stops asking only when the run can move no more;
\* a cycle is refused (graph.go responderGrafo, grafoDaRun)
GrafoServe ==
  \A g \in Grafo!Grafos :
    /\ responderGrafo(g, <<>>, "queued") = {} <=> Grafo!Ciclico(g)
    /\ \A ns \in SUBSET Etapas, quais \in [Etapas -> {"running", "success"}], status \in Estados :
         \A x \in responderGrafo(g, [n \in ns |-> quais[n]], status) :
           /\ \A a, b \in Etapas : x.nodes[a] = x.nodes[b] => a = b
           /\ \A e \in g : x.nodes[e[1]].X < x.nodes[e[2]].X
           /\ \A n \in Etapas : LET coluna == {m \in Etapas : x.nodes[m].X = x.nodes[n].X}
                             IN FoldSet(LAMBDA m, s : s + x.nodes[m].Y, 0, coluna) = 0
           /\ \A n \in Etapas : x.status[n] = "pending" <=> n \notin ns
           /\ \A e \in g : x.edges[e] <=> x.status[e[2]] = "running"
           /\ x.Terminal <=> \A para \in Ciclo!Status : ~Ciclo!PodeIr(status, para)

\* An alert fits into what Slack takes whatever the error and the log hold, tells what
\* failed before why, and neither displaces the other (slack.go mensagem, truncar)
AlertaServe ==
  /\ \A a \in [passo : BOOLEAN, tentativas : {0, 2}, data : BOOLEAN, erro : {0, 900, 901, 99999}, log : {0, 901, 99999},
               url : BOOLEAN, run : BOOLEAN] :
       LET m == mensagem(a)
           nomes == [k \in DOMAIN m |-> m[k].bloco]
       IN /\ m[2].tamanho <= 10 /\ \A k \in DOMAIN m : m[k].tamanho <= 3000
          /\ "erro" \in ToSet(nomes) <=> a.erro > 0
          /\ "log" \in ToSet(nomes) <=> a.log > 0
          /\ \A i, j \in DOMAIN m : nomes[i] = "erro" /\ nomes[j] = "log" => i < j
  /\ \A ts \in UNION {[1..k -> {"zarv", "dbt", "id"}] : k \in 0..2}, ps \in {<<"id">>, <<"id", "load">>} :
       classificar(ts, ps) = "-" => "id" \notin ToSet(ts) /\ Len(ps) = 1
  /\ \A r \in {0, 200, 302, 404} : Falhou(TRUE, r) <=> r = 200

TelaFiel == PaginasServem /\ ListaServe /\ LinkFiel /\ NumerosServem /\ GrafoServe /\ AlertaServe
================================================================================
