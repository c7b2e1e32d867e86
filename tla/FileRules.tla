-------------------------------- MODULE FileRules --------------------------------
(***************************************************************************)
(* Records as files: which files a Path names, what a batch becomes on     *)
(* disk or in object storage, how each format is read back, and the        *)
(* preview of what was read.                                               *)
(*   src/sdk/internal/core/path.go, src/sdk/internal/core/preview.go,      *)
(*   src/sdk/to/files.go, src/sdk/from/files.go, src/sdk/store,            *)
(*   src/sdk/extract/extract.go (the decoders)                             *)
(* A key is the sequence of its segments; a file is its key and its bytes, *)
(* "meio" while they are not all there.                                    *)
(***************************************************************************)
LOCAL INSTANCE Integers
LOCAL INSTANCE Sequences
LOCAL INSTANCE FiniteSets
LOCAL INSTANCE SequencesExt
LOCAL INSTANCE FiniteSetsExt
LOCAL INSTANCE TLC

Vazio == ""
Sem == "nenhum"

--------------------------------------------------------------------------------
(* Paths                                                                       *)

\* a Path: scheme, segments, whether it ends in a slash
Caminho(esquema, segs, barra) == [esquema |-> esquema, segs |-> segs, barra |-> barra]
ErroDeCaminho == [erro |-> TRUE, esquema |-> Vazio, bucket |-> Vazio, dir |-> <<>>, padrao |-> Vazio]

ParseLocation(p) ==
  LET s == IF p.esquema = "file" THEN Vazio ELSE p.esquema
      resto == IF s = Vazio THEN p.segs ELSE Tail(p.segs)
      local(dir, padrao) == [erro |-> FALSE, esquema |-> s, dir |-> dir, padrao |-> padrao,
                             bucket |-> IF s = Vazio THEN Vazio ELSE Head(p.segs)]
  IN CASE p = Caminho(Vazio, <<>>, FALSE) -> ErroDeCaminho
       [] s \notin {Vazio, "s3", "gs"} -> ErroDeCaminho
       [] s # Vazio /\ p.segs = <<>> -> ErroDeCaminho
       [] p.barra \/ resto = <<>> -> local(resto, Vazio)
       [] OTHER -> local(Front(resto), Last(resto))

\* Location.String
String(loc) == Caminho(loc.esquema,
                       (IF loc.esquema = Vazio THEN <<>> ELSE <<loc.bucket>>) \o loc.dir
                         \o (IF loc.padrao = Vazio THEN <<>> ELSE <<loc.padrao>>),
                       loc.padrao = Vazio)

TerminaEm(s, fim) == Len(s) >= Len(fim) /\ SubSeq(s, Len(s) - Len(fim) + 1, Len(s)) = fim
\* path.Match, of the patterns that are a name or a star and an ending
PathMatch(padrao, base) == IF SubSeq(padrao, 1, 1) = "*" THEN TerminaEm(base, SubSeq(padrao, 2, Len(padrao)))
                           ELSE base = padrao
Matches(loc, chave) == loc.padrao = Vazio \/ PathMatch(loc.padrao, Last(chave))

\* to.Files reads its own Path as a directory always
comoDiretorio(p) == IF p = Caminho(Vazio, <<>>, FALSE) THEN p ELSE [p EXCEPT !.barra = TRUE]
\* the full path of what was written
referencia(loc, chave) == Caminho(loc.esquema, (IF loc.esquema = Vazio THEN <<>> ELSE <<loc.bucket>>) \o chave, FALSE)

\* the Store and the scheme of the Path; Sem is the local filesystem
checkStore(loc, store) == IF loc.esquema = Vazio THEN store = Sem ELSE store = loc.esquema

--------------------------------------------------------------------------------
(* What a batch becomes                                                        *)

\* the date in PartitionBy of the first record, when it is a text of ten characters
partition(f, lote) ==
  IF f.particao = Vazio \/ lote = <<>> THEN <<>>
  ELSE IF f.particao \notin DOMAIN Head(lote) THEN <<>>
  ELSE LET v == Head(lote)[f.particao]
       IN IF v.tipo # "texto" \/ Len(v.t) < 10 THEN <<>>
          ELSE << f.particao \o "=" \o SubSeq(v.t, 1, 10) >>

formatoDe(f) == IF f.formato = Vazio THEN "ndjson" ELSE f.formato
extensao(f) == "." \o formatoDe(f) \o (IF f.comprime THEN ".gz" ELSE "")
name(f, loc, lote, agora) == loc.dir \o partition(f, lote) \o << "parte-" \o ToString(agora) \o extensao(f) >>

refuseUnsupported(f, dedup) == dedup = "merge" \/ f.formato \notin {Vazio, "ndjson", "csv"}

Arquivo(chave, bytes) == [chave |-> chave, bytes |-> bytes]
Temporario(chave, bytes) == Arquivo(Front(chave) \o <<".brevis-7">>, bytes)

\* Mutant: the file is written under its own name
putDireto(loc, chave, bytes, falha) == << {Arquivo(chave, "meio")}, {Arquivo(chave, bytes)} >>

\* Everything a directory may be seen to hold while a batch lands.  Object storage: one
\* PUT.  Disk: a temporary name, then a rename; whatever fails, the temporary name goes
put(loc, chave, bytes, falha) ==
  IF loc.esquema # Vazio THEN IF falha = "criar" THEN << {} >> ELSE << {}, {Arquivo(chave, bytes)} >>
  ELSE CASE falha = "criar" -> << {} >>
         [] falha = "escrever" -> << {}, {Temporario(chave, "meio")}, {} >>
         [] falha = "renomear" -> << {}, {Temporario(chave, "meio")}, {Temporario(chave, bytes)}, {} >>
         [] OTHER -> << {}, {Temporario(chave, "meio")}, {Temporario(chave, bytes)}, {Arquivo(chave, bytes)} >>

--------------------------------------------------------------------------------
(* CSV: characters "a", comma, quote and newline                               *)

Celula(v) == [tipo |-> "texto", t |-> v]
\* cell: nothing is an empty cell, a text is itself, the rest is its JSON without the quotes
cell(v) == CASE v.tipo = "nil" -> <<>> [] OTHER -> v.t

ColunasDe(lote) == UNION {DOMAIN lote[k] : k \in DOMAIN lote}
Escapa(c) == IF {c[k] : k \in DOMAIN c} \cap {",", "q", "n"} = {} THEN c
             ELSE <<"q">> \o FlattenSeq([k \in DOMAIN c |-> IF c[k] = "q" THEN <<"q", "q">> ELSE <<c[k]>>]) \o <<"q">>
csvWriter(celulas) ==
  FlattenSeq([k \in DOMAIN celulas |-> (IF k > 1 THEN <<",">> ELSE <<>>) \o Escapa(celulas[k])]) \o <<"n">>

\* the union of the fields, sorted, and a cell for each in every row
encodeCSV(lote, ordem) ==
  LET cols == SelectSeq(ordem, LAMBDA c : c \in ColunasDe(lote))
      linha(r) == csvWriter([k \in DOMAIN cols |-> IF cols[k] \in DOMAIN r THEN cell(r[cols[k]]) ELSE <<>>])
  IN csvWriter([k \in DOMAIN cols |-> <<cols[k]>>]) \o FlattenSeq([k \in DOMAIN lote |-> linha(lote[k])])

\* encoding/csv: rows of cells; a blank line is no row
CsvReader(texto) ==
  LET passo(m, c) ==
        CASE m.modo = "aspas" /\ c = "q" -> [m EXCEPT !.modo = "fecha"]
          [] m.modo = "aspas" -> [m EXCEPT !.celula = Append(@, c)]
          [] m.modo = "fecha" /\ c = "q" -> [m EXCEPT !.modo = "aspas", !.celula = Append(@, "q")]
          [] m.modo = "inicio" /\ c = "q" -> [m EXCEPT !.modo = "aspas"]
          [] c = "," -> [m EXCEPT !.modo = "inicio", !.linha = Append(@, m.celula), !.celula = <<>>]
          [] c = "n" -> [m EXCEPT !.modo = "inicio", !.linha = <<>>, !.celula = <<>>,
                                  !.linhas = IF m.modo = "inicio" /\ m.linha = <<>> THEN @
                                             ELSE Append(@, Append(m.linha, m.celula))]
          [] OTHER -> [m EXCEPT !.modo = "nua", !.celula = Append(@, c)]
  IN FoldLeft(passo, [modo |-> "inicio", celula |-> <<>>, linha |-> <<>>, linhas |-> <<>>], texto).linhas

\* the first row names the fields, unless there is none; a row of another length is an error
csvDecoder(linhas, semCabecalho) ==
  LET cab == IF semCabecalho \/ linhas = <<>> THEN <<>> ELSE linhas[1]
      dados == IF semCabecalho \/ linhas = <<>> THEN linhas ELSE Tail(linhas)
      boa(k) == Len(dados[k]) = Len(linhas[1])
      nomes(k) == IF semCabecalho THEN {<<"field", j - 1>> : j \in DOMAIN dados[k]} ELSE ToSet(cab)
      \* of two columns with one name the last one stays
      de(k, c) == dados[k][Max({j \in DOMAIN dados[k] : (IF semCabecalho THEN <<"field", j - 1>> ELSE cab[j]) = c})]
      ate == IF \A k \in DOMAIN dados : boa(k) THEN Len(dados) ELSE Min({k \in DOMAIN dados : ~boa(k)}) - 1
  IN [itens |-> [k \in 1..ate |-> [c \in nomes(k) |-> de(k, c)]], erro |-> ate < Len(dados)]

--------------------------------------------------------------------------------
(* The other formats                                                           *)

\* a page of JSON is one array of records or one record
jsonDecoder(doc) == IF doc.tipo = "lista" THEN doc.itens ELSE <<doc>>

\* An element: its attributes, its text, its children.  The records are the children of
\* the root; names that repeat become a list
No(nome, atributos, texto, filhos) == [nome |-> nome, atributos |-> atributos, texto |-> texto, filhos |-> filhos]
RECURSIVE value(_)
value(n) ==
  LET nomes == {n.filhos[k].nome : k \in DOMAIN n.filhos}
      de(c) == SelectSeq(n.filhos, LAMBDA f : f.nome = c)
      campos == {<<"@", a>> : a \in n.atributos} \cup {<<"", c>> : c \in nomes}
                \cup (IF n.texto # Vazio /\ n.filhos = <<>> THEN {<<"#text", "">>} ELSE {})
      valor(c) == CASE c[1] = "@" -> <<"texto", c[2]>>
                    [] c[1] = "#text" -> <<"texto", n.texto>>
                    [] Len(de(c[2])) = 1 -> value(de(c[2])[1])
                    [] OTHER -> <<"lista", [k \in DOMAIN de(c[2]) |-> value(de(c[2])[k])]>>
  IN IF n.filhos = <<>> /\ n.atributos = {} THEN <<"texto", n.texto>>
     ELSE <<"objeto", [c \in campos |-> valor(c)]>>
xmlDecoder(raiz) == [k \in DOMAIN raiz.filhos |-> value(raiz.filhos[k])]

NewDecoder(formato) == formato \in {"csv", "ndjson", "json", "xml"}

--------------------------------------------------------------------------------
(* from.Files                                                                  *)

\* Store.List: every object under the prefix, however deep, but the "directories"
List(chaves, dir) == {c \in chaves : IsStrictPrefix(dir, c) /\ Last(c) # Vazio}
\* os.ReadDir: what the directory itself holds
ReadDir(chaves, dir) == {c \in chaves : Front(c) = dir}
\* sorted, of those the Path names; ordem is every key there is, sorted
list(loc, chaves, ordem) ==
  LET achadas == IF loc.esquema = Vazio THEN ReadDir(chaves, loc.dir) ELSE List(chaves, loc.dir)
  IN SelectSeq(ordem, LAMBDA c : c \in achadas /\ Matches(loc, c))

\* One file: how many of its records come out before it breaks.  A .gz that is not gzip
\* breaks before the first
drain(arquivo) ==
  IF arquivo.falha = "abrir" \/ (arquivo.falha = "gzip" /\ TerminaEm(Last(arquivo.chave), ".gz"))
  THEN [itens |-> <<>>, erro |-> TRUE]
  ELSE [itens |-> IF arquivo.falha = "meio" THEN Front(arquivo.itens) ELSE arquivo.itens,
        erro |-> arquivo.falha = "meio"]

\* The files in order until one breaks or the consumer stops; the error names the file, a
\* consumer that stops hears of none.  Every file begun counts as a page
Read(arquivos, para, amostra) ==
  LET saida(k) == FlattenSeq([j \in 1..k |-> drain(arquivos[j]).itens])
      fins == {k \in DOMAIN arquivos : drain(arquivos[k]).erro \/ Len(saida(k)) >= para}
      ate == IF fins = {} THEN Len(arquivos) ELSE Min(fins)
      parou == ate > 0 /\ Len(saida(ate)) >= para
      itens == SubSeq(saida(ate), 1, Min({para, Len(saida(ate))}))
  IN [itens |-> itens, amostra |-> SubSeq(itens, 1, Min({amostra, Len(itens)})), Pages |-> ate,
      erro |-> IF ate > 0 /\ ~parou /\ drain(arquivos[ate]).erro THEN Last(arquivos[ate].chave) ELSE Sem]

\* to.Files.Write: what lands, and the path the result names; {} is refused
Write(f, loc, store, dedup, lote, agora) ==
  LET chave == name(f, loc, lote, agora)
  IN IF refuseUnsupported(f, dedup) \/ loc.erro \/ ~checkStore(loc, store) THEN {}
     ELSE {[chave |-> chave, Objects |-> referencia(loc, chave)]}

--------------------------------------------------------------------------------
(* The preview: cells as their widths                                          *)

maxLineWidth == 160
maxCellWidth == 40

\* one cell of the table: how many characters, and whether it reads as a number
formatCell(c) == [c EXCEPT !.n = IF @ > maxCellWidth THEN maxCellWidth ELSE @,
                           !.numero = @ /\ c.n <= maxCellWidth]
Nulo == [n |-> 4, numero |-> TRUE]
columnsOf(amostra) == ColunasDe(amostra)

\* how many columns fit a line; the first one always does
cabem(larguras, indice) ==
  Max({1} \cup {j \in DOMAIN larguras : indice + FoldLeft(LAMBDA s, l : s + 2 + l, 0, SubSeq(larguras, 1, j)) <= maxLineWidth})

\* the sample as a table of at most budget bytes: rows from the top, the first one always.
\* nomes gives the width of each column's name
RenderPreview(amostra, cols, nomes, budget, linhas) ==
  LET celula(r, c) == IF c \in DOMAIN r THEN formatCell(r[c]) ELSE Nulo
      largura(j) == Max({nomes[cols[j]]} \cup {celula(amostra[k], cols[j]).n : k \in DOMAIN amostra})
      numerica(j) == \A k \in DOMAIN amostra : celula(amostra[k], cols[j]).numero
      larguras == [j \in DOMAIN cols |-> largura(j)]
      indice == Len(ToString(Len(amostra) - 1))
      shown == cabem(larguras, indice)
      antes(j) == indice + FoldLeft(LAMBDA s, l : s + 2 + l, 0, SubSeq(larguras, 1, j - 1))
      \* a line without the blanks it ends in, and its newline
      linha(n, c(_)) == 1 + Max({n} \cup {antes(j) + 2 + (IF numerica(j) THEN larguras[j] ELSE c(j)) :
                                            j \in {j \in 1..shown : c(j) > 0}})
      bytes(k) == linha(0, LAMBDA j : nomes[cols[j]])
                  + FoldLeft(LAMBDA s, r : s + linha(indice, LAMBDA j : celula(r, cols[j]).n), 0, SubSeq(amostra, 1, k))
      rows == Max({1} \cup {k \in DOMAIN amostra : bytes(k) <= budget})
  IN [linhas |-> rows, colunas |-> shown, escondidas |-> Len(cols) - shown, bytes |-> bytes(rows),
      maior |-> antes(shown + 1), diz |-> IF rows < linhas THEN <<rows, linhas>> ELSE <<linhas>>]

\* the size in tenths of its unit, and the unit's power of a thousand
humanBytes(n) ==
  LET exp == IF n < 1000 THEN 0 ELSE Max({k \in 1..2 : n >= 1000^k})
  IN [decimos |-> (n * 10 + (1000^exp) \div 2) \div 1000^exp, potencia |-> exp]

\* in microseconds: the closest multiple, halves up
Arredonda(d, u) == ((d + u \div 2) \div u) * u
RoundDuration(d) == CASE d >= 1000000 -> Arredonda(d, 10000) [] d >= 1000 -> Arredonda(d, 1000) [] OTHER -> d

--------------------------------------------------------------------------------
(* What is expected of them                                                    *)

Caminhos == {Caminho(e, s, b) : e \in {Vazio, "file", "s3", "gs", "ftp"}, b \in BOOLEAN,
               s \in {<<>>, <<"b">>, <<"b", "d">>, <<"b", "d", "dados.csv">>, <<"b", "*.ndjson">>}}
Locais == {ParseLocation(comoDiretorio(p)) : p \in Caminhos} \ {ErroDeCaminho}
Configs == {[formato |-> x, particao |-> p, comprime |-> c] : x \in {Vazio, "csv", "parquet"}, p \in {Vazio, "dt"}, c \in BOOLEAN}
Dt(t) == [tipo |-> "texto", t |-> t]
Lotes == {<<[dt |-> Dt("2026-09-04T10:00:00Z")]>>, <<[dt |-> Dt("hoje")]>>,
          <<[dt |-> [tipo |-> "nil", t |-> Vazio]]>>, <<[id |-> Dt("1")], [dt |-> Dt("2026-09-05")]>>}

\* A location that is rendered is read back as itself, and a Path to write into keeps
\* every segment it was given: no last segment is taken for the name of a file
\* (core/path.go ParseLocation, to/files.go comoDiretorio)
CaminhoVolta ==
  /\ \A p \in Caminhos : LET l == ParseLocation(p) IN ~l.erro => ParseLocation(String(l)) = l
  /\ \A p \in Caminhos : LET l == ParseLocation(comoDiretorio(p))
       IN ~l.erro => /\ l.padrao = Vazio
                     /\ (IF l.esquema = Vazio THEN <<>> ELSE <<l.bucket>>) \o l.dir = p.segs
  /\ \A l \in Locais : Cardinality({s \in {Sem, "s3", "gs"} : checkStore(l, s)}) = 1

\* The path in Result.Objects names the file that was written and no other; so does the
\* configured Path with the ending, unless the file went to a partition of a local
\* directory, which is not read into (to/files.go Write, from/files.go list)
EscritoELido ==
  \A f \in Configs, l \in Locais, lote \in Lotes, store \in {Sem, "s3", "gs"}, dedup \in {"none", "merge"} :
    \A w \in Write(f, l, store, dedup, lote, 1) :
      LET outro == l.dir \o <<"parte-2" \o extensao(f)>>
          todas == <<w.chave, outro>>
          lidas(p) == list(ParseLocation(p), ToSet(todas), todas)
          pasta == String([l EXCEPT !.padrao = "*" \o extensao(f)])
      IN /\ dedup = "none" /\ (store = Sem <=> l.esquema = Vazio)
         /\ lidas(w.Objects) = << w.chave >>
         /\ outro \in ToSet(lidas(pasta))
         /\ (w.chave \in ToSet(lidas(pasta))) <=> (l.esquema # Vazio \/ partition(f, lote) = <<>>)
         /\ name(f, l, lote, 1) # name(f, l, lote, 2)

\* At no moment of a write, and after none that fails, does a reader of the ending see a
\* file with less than the whole batch; a write that succeeds leaves that file alone
\* (to/files.go put)
NuncaMeio ==
  \A f \in Configs, l \in Locais, lote \in Lotes, falha \in {Vazio, "criar", "escrever", "renomear"} :
    LET chave == name(f, l, lote, 1)
        vistos == put(l, chave, "inteiro", falha)
        lendo(fs) == {a \in fs : PathMatch("*" \o extensao(f), Last(a.chave))}
    IN /\ \A k \in DOMAIN vistos : \A a \in lendo(vistos[k]) : a.bytes = "inteiro"
       /\ Last(vistos) \in {{}, {Arquivo(chave, "inteiro")}}
       /\ falha = Vazio => Last(vistos) # {}

Celulas == {<<>>, <<"a">>, <<"q">>, <<",">>, <<"n">>, <<"q", "q">>, <<"a", "q">>, <<"q", "a">>, <<"n", ",">>}
Linhas == {[x |-> Celula(c), y |-> Celula(d)] : c \in Celulas, d \in Celulas} \cup {[x |-> Celula(c)] : c \in Celulas}

\* What is written as CSV is read back row by row and cell by cell, a field a record does
\* not have as an empty cell, whatever the texts hold -- but a row whose only cell is
\* empty, which is a blank line (to/files.go encodeCSV, extract.go csvDecoder)
CsvVolta ==
  \A a, b \in Linhas :
    LET lote == <<a, b>>
        cols == ColunasDe(lote)
        ficam == SelectSeq(lote, LAMBDA r : Cardinality(cols) > 1 \/ cell(r["x"]) # <<>>)
        lido == csvDecoder(CsvReader(encodeCSV(lote, <<"x", "y">>)), FALSE)
    IN /\ ~lido.erro /\ Len(lido.itens) = Len(ficam)
       /\ \A k \in DOMAIN ficam : lido.itens[k] =
            [c \in {<<x>> : x \in cols} |-> IF c[1] \in DOMAIN ficam[k] THEN cell(ficam[k][c[1]]) ELSE <<>>]

Arquivos == {[chave |-> <<"d", n>>, falha |-> x, itens |-> i] :
               n \in {"a.csv", "a.csv.gz"}, x \in {Sem, "abrir", "gzip", "meio"}, i \in {<<1>>, <<2, 3>>}}
Inteiro(a) == ~drain(a).erro

\* What a reader of files gives is the records of the files in order and nothing after
\* the first that breaks; it ends without an error only if every file was whole or the
\* consumer stopped, and counts every file it began (from/files.go Read, drain)
LeituraEmOrdem ==
  \A a, b \in Arquivos, para \in 1..4, amostra \in 0..2 :
    LET r == Read(<<a, b>>, para, amostra)
        tudo == a.itens \o b.itens
    IN /\ IsPrefix(r.amostra, r.itens) /\ Len(r.amostra) <= amostra
       /\ Len(r.itens) <= para
       /\ r.erro = Sem => /\ IsPrefix(r.itens, tudo)
                          /\ Len(r.itens) = para \/ r.itens = tudo
       /\ r.erro # Sem => r.Pages = 1 \/ Inteiro(a)
       /\ r.Pages = 2 => Inteiro(a)

Folhas == {No(n, a, t, <<>>) : n \in {"x", "y"}, a \in {{}, {"id"}}, t \in {Vazio, "1"}}
Nos == Folhas \cup {No("x", a, Vazio, s) : a \in {{}, {"id"}}, s \in UNION {[1..k -> Folhas] : k \in 1..2}}
\* every child of each name, in order
DoNome(n, c) == LET fs == SelectSeq(n.filhos, LAMBDA f : f.nome = c) IN [k \in DOMAIN fs |-> value(fs[k])]

\* Two elements that come out the same have the same attributes and, name by name, the
\* same children: one child is not a list of one, an attribute is not a child
\* (extract.go xmlNode.value)
XmlDistingue ==
  \A a, b \in Nos : value(a) = value(b) =>
    /\ a.atributos = b.atributos
    /\ \A c \in {"x", "y"} : DoNome(a, c) = DoNome(b, c)

Cel(n, numero) == [n |-> n, numero |-> numero]
Registros == {[a |-> Cel(1, TRUE)], [a |-> Cel(200, TRUE), b |-> Cel(3, FALSE)], [b |-> Cel(0, TRUE)]}

\* The preview shows a row and a column at least, keeps to its budget and to the width of
\* a line when it shows more, and its footer says of every row and column it held back
\* (core/preview.go RenderPreview, footer)
PreviaHonesta ==
  /\ \A s \in UNION {[1..k -> Registros] : k \in 1..3}, budget \in {1, 60, 130}, mais \in {0, 1}, largo \in {1, 130, 170} :
       LET cols == SetToSeq(columnsOf(s))
           p == RenderPreview(s, cols, [a |-> largo, b |-> 130], budget, Len(s) + mais)
       IN /\ p.linhas \in 1..Len(s) /\ p.colunas \in 1..Len(cols)
          /\ p.escondidas + p.colunas = Len(cols)
          /\ p.linhas > 1 => p.bytes <= budget
          /\ p.colunas > 1 => p.maior <= maxLineWidth
          /\ Len(p.diz) = 1 <=> p.linhas = Len(s) + mais
  /\ \A n \in {0, 999, 1000, 1500, 999499, 999999, 1000000, 150000000} :
       LET h == humanBytes(n) IN h.potencia > 0 => h.decimos >= 10 /\ (h.decimos < 10000 \/ n = 999999)
  /\ \A d \in {0, 1, 999, 1000, 1499, 999499, 999999, 1000000, 1234567} :
       (d > 0) => RoundDuration(d) > 0

ArquivosFieis ==
  CaminhoVolta /\ EscritoELido /\ NuncaMeio /\ CsvVolta /\ LeituraEmOrdem /\ XmlDistingue /\ PreviaHonesta
================================================================================
