----------------------------- MODULE StepExecution -----------------------------
(***************************************************************************)
(* What one attempt of a step is made of, as functions: the task built     *)
(* from the definition, the environment it runs in, the pod or the process *)
(* or the Go function that runs it, the events that come back, and the     *)
(* part of its log that is kept.  Runner has the order in which these      *)
(* happen.  A refusal is an empty set of outcomes.                         *)
(*   src/internal/application/execution/runner.go, janela.go               *)
(*   src/internal/execution/*.go, local/*.go, kubernetes/*.go              *)
(* Texts are sequences of words; a time-out is in milliseconds.            *)
(***************************************************************************)
LOCAL INSTANCE Integers
LOCAL INSTANCE Sequences
LOCAL INSTANCE FiniteSets
LOCAL INSTANCE SequencesExt
LOCAL INSTANCE TLC

Credencial == "BREVIS_CREDENTIAL_DIR"
\* the names of variables, in the order of sort.Strings
Variaveis == <<"A", Credencial, "BREVIS_RUN_ATTEMPT", "BREVIS_RUN_FIRST", "BREVIS_RUN_ID",
               "BREVIS_RUN_LOGICAL_DATE", "BREVIS_RUN_PARAMS", "BREVIS_RUN_TRIGGER", "Z">>
Ordenadas(S) == SelectSeq(Variaveis, LAMBDA v : v \in S)
Nada == [v \in {} |-> ""]

\* What an executor is given; `env` and `secrets` are maps, a secret is <<name, key>>
TaskExec(comandos, imagens, envs, segredos, prazos) ==
  [no : {"n"}, comando : comandos, acao : {""}, imagem : imagens, shell : BOOLEAN, env : envs,
   secrets : segredos, prazo : prazos, cpu : {"", "1"}, cpuMax : {""}]

\* started, log, succeeded or failed; a line of the log has a length and may be blank
Event(tipo, canal, tamanho, codigo) ==
  [tipo |-> tipo, canal |-> canal, tamanho |-> tamanho, codigo |-> codigo]
Linha(canal, n) == Event("log", canal, n, 0)

--------------------------------------------------------------------------------
(* The environment and the task: contextoDoRun, mesclarEnv, montar             *)

\* A first execution is claimed only when the history could be read and has none
primeiraExecucao(r) == r.historico = "nunca"

\* `run` without an id (the command `brevis run`) knows neither history nor attempt
contextoDoRun(r, tentativa) ==
  (IF r.id = "" THEN Nada
   ELSE [v \in {"BREVIS_RUN_ID", "BREVIS_RUN_FIRST", "BREVIS_RUN_ATTEMPT"} |->
           CASE v = "BREVIS_RUN_ID" -> r.id
             [] v = "BREVIS_RUN_FIRST" -> IF primeiraExecucao(r) THEN "true" ELSE "false"
             [] OTHER -> ToString(tentativa)])
  @@ [v \in IF r.gatilho = "" THEN {} ELSE {"BREVIS_RUN_TRIGGER"} |-> r.gatilho]
  @@ [v \in IF r.data = "" THEN {} ELSE {"BREVIS_RUN_LOGICAL_DATE"} |-> r.data]
  @@ [v \in IF r.params = "" THEN {} ELSE {"BREVIS_RUN_PARAMS"} |-> r.params]

\* The step over the installation over what the engine knows of the run
mesclarEnv(base, execucao, acima) == acima @@ base @@ execucao

\* Pods need an image; without an executor of pods an image is ignored, with a warning
Quem(r, t) ==
  CASE t.acao # "" -> IF r.go THEN {"go"} ELSE {}
    [] t.acao = "" /\ t.imagem # "" /\ r.pods -> {"pods"}
    [] OTHER -> IF r.processo THEN {"processo"} ELSE {}

montar(r, t, tentativa) ==
  {[quem |-> q, tarefa |-> [t EXCEPT !.env = mesclarEnv(r.env, contextoDoRun(r, tentativa), t.env),
                                     !.prazo = r.prazo]] : q \in Quem(r, t)}

--------------------------------------------------------------------------------
(* The pod                                                                     *)

\* Decisions of the installation, not of the author of a workflow
Opcoes(pvcs, caminhos, liberados, shells) ==
  [namespace : {"", "ns"}, pvc : pvcs, caminho : caminhos, secretsPermitidos : liberados,
   shell : shells, envFrom : {<<>>, <<"s">>}, espera : {0, 1}, labels : {Nada, ("managed-by" :> "eu")}]

DezMinutos == 600000
comPadroes(o) ==
  [o EXCEPT !.shell = IF @ = <<>> THEN <<"/bin/sh", "-c">> ELSE @,
            !.namespace = IF @ = "" THEN "default" ELSE @,
            !.caminho = IF o.pvc # "" /\ @ = "" THEN "/var/brevis/credentials" ELSE @,
            !.espera = IF @ <= 0 THEN DezMinutos ELSE @]

\* Mutant: an empty list allows everything
permiteSecretSeVazia(o, nome) == nome \in o.secretsPermitidos \/ o.secretsPermitidos = {}

\* An empty list denies everything
permiteSecret(o, nome) == nome \in o.secretsPermitidos

recursos(t) ==
  LET r == [requests |-> IF t.cpu = "" THEN {} ELSE {<<"cpu", t.cpu>>},
            limits |-> IF t.cpuMax = "" THEN {} ELSE {<<"cpu", t.cpuMax>>}]
  IN IF r.requests = {} /\ r.limits = {} THEN {} ELSE {r}

\* The declared variables sorted, then the secrets sorted, then the directory of the
\* credential unless it is declared (as a variable: a secret of this name is not seen)
EnvDoPod(t, o) ==
  LET declaradas == Ordenadas(DOMAIN t.env)
      segredos == Ordenadas(DOMAIN t.secrets)
  IN [k \in DOMAIN declaradas |-> <<declaradas[k], "valor", t.env[declaradas[k]]>>]
     \o [k \in DOMAIN segredos |-> <<segredos[k], "secret", t.secrets[segredos[k]]>>]
     \o (IF o.pvc # "" /\ Credencial \notin DOMAIN t.env THEN <<<<Credencial, "valor", o.caminho>>>> ELSE <<>>)

\* The object that is sent: Pod, PodSpec, Container and what they are made of
Pod(t, o) ==
  [namespace |-> o.namespace,
   command |-> IF t.shell THEN [k \in DOMAIN o.shell |-> <<o.shell[k]>>] \o <<t.comando>>
               ELSE [k \in DOMAIN t.comando |-> <<t.comando[k]>>],
   env |-> EnvDoPod(t, o), envFrom |-> o.envFrom, recursos |-> recursos(t),
   volumes |-> IF o.pvc = "" THEN {} ELSE {<<o.pvc, o.caminho>>},
   restartPolicy |-> "Never",
   activeDeadlineSeconds |-> IF t.prazo > 0 THEN {t.prazo \div 1000} ELSE {},
   labels |-> o.labels @@ ("managed-by" :> "brevis") @@ ("node" :> t.no)]

MontarPod(t, opcoes) ==
  LET o == comPadroes(opcoes)
  IN IF t.imagem = "" \/ t.comando = <<>> \/ \E v \in DOMAIN t.secrets : ~permiteSecret(o, t.secrets[v][1])
     THEN {} ELSE {Pod(t, o)}

\* What the API server shows of it; a container that has not ended has no exit code
Status(fases, saidas) == [fase : fases, saida : saidas, espera : {"", "ImagePullBackOff"}, motivo : {"", "OOMKilled"}]
Terminou(s) == s.fase \in {"Succeeded", "Failed"}
Saida(s) == IF s.saida = {} THEN 0 ELSE CHOOSE c \in s.saida : TRUE

--------------------------------------------------------------------------------
(* The API client                                                              *)

\* The token of the service account is rotated on disk: it is read again once it is
\* older than tokenTTL
autorizar(c, agora, noDisco) ==
  IF c.token = "" \/ agora - c.lido > c.ttl
  THEN {[c EXCEPT !.token = v, !.lido = agora] : v \in noDisco}
  ELSE {c}

requisicao(c, agora, noDisco, status) == {<<d.token, status>> : d \in autorizar(c, agora, noDisco)}

\* Any answer of 300 or more is an error; deleting what is not there is not
CriarPod(status) == status < 300
LerPod(status) == status < 300
Logs(status) == status < 300
ApagarPod(status) == status < 300 \/ status = 404

\* Outside a cluster there is no client
NoCluster(host, porta, arquivos) ==
  IF host = "" \/ porta = "" \/ ~({"namespace", "ca"} \subseteq arquivos) THEN {}
  ELSE {[token |-> "", lido |-> 0, ttl |-> 60000]}

--------------------------------------------------------------------------------
(* Processes and Go functions                                                  *)

\* Locally a secret is a variable of the engine itself, and must be there
ambienteDaTask(t, doMotor) ==
  IF \E v \in DOMAIN t.secrets : v \notin DOMAIN doMotor \/ doMotor[v] = "" THEN {}
  ELSE {[v \in DOMAIN t.secrets |-> doMotor[v]] @@ t.env}

ProcessExecutor(env) == env = "local"

\* the two pipes are drained in any order
Misturas(a, b) ==
  {m \in [1..(Len(a) + Len(b)) -> ToSet(a) \cup ToSet(b)] :
     /\ SelectSeq(m, LAMBDA e : e.canal = "stdout") = a
     /\ SelectSeq(m, LAMBDA e : e.canal = "stderr") = b}
Comeco == <<Event("started", "", 0, 0)>>
Fim(codigo) == <<Event(IF codigo = 0 THEN "succeeded" ELSE "failed", "", 0, codigo)>>

\* One event that ends it, after every line of both pipes; a process that is killed
\* has the code -1
ExecutarProcesso(t, doMotor, out, err, codigo) ==
  IF t.comando = <<>> \/ ambienteDaTask(t, doMotor) = {} THEN {}
  ELSE {Comeco \o m \o Fim(codigo) : m \in Misturas(out, err)}

\* Names are unique and not empty
Register(tarefas, nome) == IF nome = "" \/ nome \in tarefas THEN {} ELSE {tarefas \cup {nome}}

\* A panic is a failure; a function that comes back without an error has succeeded
\* though its time-out is over; lines that find the channel full are dropped
ExecutarGo(tarefas, t, log, como) ==
  IF t.acao \notin tarefas THEN {}
  ELSE {Comeco \o log \o Fim(IF como = "sem erro" THEN 0 ELSE 1)}
       \cup {Comeco \o Fim(IF como = "sem erro" THEN 0 ELSE 1)}

\* A pod: what it waits for, its log (which was perhaps followed before), its end
acompanhar(s, log) ==
  Comeco \o (IF s.espera = "" THEN <<>> ELSE <<Linha("stderr", 1)>>) \o log
  \o (IF s.fase = "Succeeded" THEN Fim(0) ELSE <<Event("failed", "", 0, Saida(s))>>)

--------------------------------------------------------------------------------
(* The log of an attempt: janela, and the lines an error carries               *)

TetoDoLog == 8
fatiaDoInicio == TetoDoLog \div 4
Vazia == [inicio |-> <<>>, fim |-> <<>>, cortado |-> 0]
Bytes(ls) == FoldLeft(LAMBDA n, l : n + l + 1, 0, ls)

\* Lines are dropped from the front until the rest fits; the last one stays
Aparada(j) ==
  LET restos == Suffixes(j.fim) \ {<<>>}
      cabe(s) == Bytes(s) <= TetoDoLog - fatiaDoInicio \/ Len(s) = 1
      resto == CHOOSE s \in restos : cabe(s) /\ \A u \in restos : cabe(u) => Len(u) <= Len(s)
  IN [j EXCEPT !.fim = resto, !.cortado = @ + Bytes(j.fim) - Bytes(resto)]

\* A line that fits goes to the beginning, also when others are at the end already
Escrever(j, l) ==
  IF Bytes(j.inicio) + l + 1 <= fatiaDoInicio THEN [j EXCEPT !.inicio = Append(@, l)]
  ELSE Aparada([j EXCEPT !.fim = Append(@, l)])
Janela(ls) == FoldLeft(Escrever, Vazia, ls)

linhasDeContexto == 5
Ultimas(s) == SubSeq(s, IF Len(s) > linhasDeContexto THEN Len(s) - linhasDeContexto + 1 ELSE 1, Len(s))

\* What rodarNo gets: success unless a failure was among the events; the error has
\* the last lines of stderr, or of stdout when there are none
tentar(eventos) ==
  LET linhas(canais) == SelectSeq(eventos, LAMBDA e : e.tipo = "log" /\ e.tamanho > 0 /\ e.canal \in canais)
      falhas == SelectSeq(eventos, LAMBDA e : e.tipo = "failed")
      stderr == Ultimas(linhas({"stderr"}))
      tudo == linhas({"stdout", "stderr"})
  IN [falhou |-> falhas # <<>>,
      codigo |-> IF falhas = <<>> THEN 0 ELSE Last(falhas).codigo,
      contexto |-> IF stderr = <<>> THEN Ultimas(linhas({"stdout"})) ELSE stderr,
      log |-> Janela([k \in DOMAIN tudo |-> tudo[k].tamanho])]

--------------------------------------------------------------------------------
(* Properties, over small inputs                                               *)

Mapas == {Nada, "A" :> "x", (Credencial :> "y") @@ ("BREVIS_RUN_ID" :> "z")}
Segredos == {Nada, "A" :> <<"s", "k">>, ("Z" :> <<"u", "k">>) @@ (Credencial :> <<"s", "k">>)}
Tarefas == TaskExec({<<>>, <<"dbt", "run">>}, {"", "i"}, Mapas, Segredos, {0, 500, 2500})
Instalacoes == Opcoes({"", "v"}, {"", "/c"}, {{}, {"s"}, {"s", "u"}}, {<<>>, <<"sh">>})
Motor == [v \in {"A", "Z", Credencial} |-> "do motor"]
Runs_ == [id : {"", "r"}, historico : {"nunca", "ja", "erro"}, gatilho : {"", "manual"}, data : {"", "d"},
          params : {"", "{}"}, env : Mapas, go : BOOLEAN, pods : BOOLEAN, processo : BOOLEAN, prazo : {0}]

\* of two entries of one name the last counts
Efetivo(env, v) ==
  LET k == CHOOSE k \in DOMAIN env : env[k][1] = v /\ \A m \in DOMAIN env : env[m][1] = v => m <= k
  IN env[k]

\* A step sees the same variables in a pod and on the machine of its author, from the
\* same place, secrets included (pod.go: "o mesmo codigo nos dois"); but for a secret
\* with the name of the credential's directory, which the volume overrides
AmbienteIgual ==
  \A t \in Tarefas, o \in Instalacoes : \A p \in MontarPod(t, o), a \in ambienteDaTask(t, Motor) :
    \A v \in DOMAIN a \ (IF o.pvc = "" \/ Credencial \in DOMAIN t.env \ DOMAIN t.secrets THEN {} ELSE {Credencial}) :
      LET e == Efetivo(p.env, v)
      IN a[v] = IF e[2] = "secret" THEN Motor[v] ELSE e[3]

\* A workflow gets no secret the installation has not released, whatever it declares,
\* and the cluster ends a pod no later than the time-out of its step
PodContido ==
  \A t \in Tarefas, o \in Instalacoes : \A p \in MontarPod(t, o) :
    /\ \A k \in DOMAIN p.env : p.env[k][2] = "secret" => p.env[k][3][1] \in o.secretsPermitidos
    /\ t.prazo > 0 => \E d \in p.activeDeadlineSeconds : d * 1000 <= t.prazo /\ t.prazo < (d + 1) * 1000

\* What a step declares is never replaced by what the engine tells it, and the engine
\* claims a first execution only of a run with an id whose history says so
DeclaradoVence ==
  \A r \in Runs_, e \in Mapas : \A m \in montar(r, [CHOOSE t \in Tarefas : TRUE EXCEPT !.env = e], 1) :
    LET env == m.tarefa.env
    IN /\ \A v \in DOMAIN e : env[v] = e[v]
       /\ \A v \in DOMAIN r.env \ DOMAIN e : env[v] = r.env[v]
       /\ "BREVIS_RUN_FIRST" \in DOMAIN env /\ env["BREVIS_RUN_FIRST"] = "true" =>
            r.id # "" /\ r.historico = "nunca"

\* Nothing of a log is lost without being counted: what is kept and what is counted add
\* up, a log that fits is whole, the last line is there and the rest stays under the ceiling
LogConta ==
  \A ls \in UNION {[1..n -> {1, 2, 4, 8}] : n \in 0..4} :
    LET j == Janela(ls)
    IN /\ Bytes(j.inicio) + Bytes(j.fim) + j.cortado = Bytes(ls)
       /\ Bytes(ls) <= TetoDoLog - fatiaDoInicio => j.cortado = 0
       /\ Bytes(j.inicio) + Bytes(j.fim) <= TetoDoLog \/ Len(j.fim) = 1
       /\ ls # <<>> => Last(ls) \in ToSet(j.inicio) \/ Last(j.fim) = Last(ls)

\* The outcome of a process, and the lines its error shows, do not depend on the order
\* in which its two pipes were read
OrdemDosCanosNaoImporta ==
  LET t == CHOOSE t \in Tarefas : t.comando # <<>> /\ t.secrets = Nada
      s(canal, n) == [k \in 1..n |-> Linha(canal, k - 1)]
  IN \A n, m \in 0..3, c \in {-1, 0, 1} :
       LET fins == {tentar(e) : e \in ExecutarProcesso(t, Motor, s("stdout", n), s("stderr", m), c)}
       IN \A f, g \in fins : f.falhou = (c # 0) /\ f.codigo = c /\ f.contexto = g.contexto

\* What a step is run with, and what is kept of it
PassoFiel == AmbienteIgual /\ PodContido /\ DeclaradoVence /\ LogConta /\ OrdemDosCanosNaoImporta
================================================================================
