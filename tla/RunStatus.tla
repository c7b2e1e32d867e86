------------------------------- MODULE RunStatus -------------------------------
(***************************************************************************)
(* The states of a run and the graph of its transitions                    *)
(* (src/internal/domain/run/status.go).  The Go map from a state to the    *)
(* list of its successors is the relation `transicoes` below.              *)
(***************************************************************************)

\* run.Status
Status == {"created", "queued", "running", "success",
           "failed", "retrying", "canceled"}

\* The graph, as a set of edges.  `success` and `canceled` have none.
transicoes ==
  { <<"created",  "queued">>,   <<"created",  "canceled">>,
    <<"queued",   "running">>,  <<"queued",   "canceled">>,
    <<"running",  "success">>,  <<"running",  "failed">>,
    <<"running",  "canceled">>,
    <<"failed",   "retrying">>,
    <<"retrying", "queued">>,   <<"retrying", "canceled">> }

\* Mutant: every state but the final ones may be left for any other
PodeIrSeNaoTerminou(de, para) == de \notin {"success", "canceled"}

\* Status.PodeIr, which is all that Valida tests for a known state
PodeIr(de, para) == <<de, para>> \in transicoes

\* Status.Terminal: `failed` is not, a retry may leave it
Terminal(s) == s \in {"success", "canceled"}

================================================================================
