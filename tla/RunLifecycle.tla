------------------------------ MODULE RunLifecycle ------------------------------
(***************************************************************************)
(* What the engine promises about one run, whoever executes it: the run    *)
(* walks the graph of status.go, it is started at most MaxTentativas       *)
(* times, a retry comes only while starts are left, and the one alert goes *)
(* out when the last start has failed (dispatcher.go:146-149 and 249-256). *)
(* There is no queue, no worker and no crash here.                         *)
(***************************************************************************)
EXTENDS Naturals

CONSTANTS Runs, MaxTentativas

VARIABLES
  status,     \* the state of every run
  inicios,    \* how often it has entered `running`
  avisos      \* alerts of final failure sent for it

vars == <<status, inicios, avisos>>

Mover(r, de, para) ==
  /\ status[r] = de
  /\ status' = [status EXCEPT ![r] = para]

Init ==
  /\ status = [r \in Runs |-> "created"]
  /\ inicios = [r \in Runs |-> 0]
  /\ avisos = [r \in Runs |-> 0]

Enfileirar(r) == Mover(r, "created", "queued") /\ UNCHANGED <<inicios, avisos>>

Comecar(r) ==
  /\ inicios[r] < MaxTentativas
  /\ Mover(r, "queued", "running")
  /\ inicios' = [inicios EXCEPT ![r] = @ + 1]
  /\ UNCHANGED avisos

Terminar(r) ==
  /\ Mover(r, "running", "success") \/ Mover(r, "running", "failed")
  /\ UNCHANGED <<inicios, avisos>>

TentarDeNovo(r) ==
  /\ inicios[r] < MaxTentativas
  /\ avisos[r] = 0
  /\ Mover(r, "failed", "retrying")
  /\ UNCHANGED <<inicios, avisos>>

Reenfileirar(r) == Mover(r, "retrying", "queued") /\ UNCHANGED <<inicios, avisos>>

Avisar(r) ==
  /\ status[r] = "failed"
  /\ inicios[r] = MaxTentativas
  /\ avisos[r] = 0
  /\ avisos' = [avisos EXCEPT ![r] = 1]
  /\ UNCHANGED <<status, inicios>>

Next ==
  \E r \in Runs :
    \/ Enfileirar(r) \/ Comecar(r) \/ Terminar(r)
    \/ TentarDeNovo(r) \/ Reenfileirar(r) \/ Avisar(r)

Spec == Init /\ [][Next]_vars

================================================================================
