------------------------------ MODULE MCScheduler ------------------------------
EXTENDS Scheduler
Chaves == Slugs \X {"schedule", "manual", "backfill"} \X (1..MaxTempo)
WorkflowDoRun == [r \in Chaves |-> r[1]]
SemLimite == [r \in Chaves |-> 0]
\* criarEEnfileirar: 0 for a slot, prioridadeBackfill for a backfill, 10 for a click
PrioridadeDoGatilho ==
  [r \in Chaves |-> CASE r[2] = "schedule" -> 0 [] r[2] = "backfill" -> -10 [] OTHER -> 10]
UmHorarioSim == [s \in Slugs |-> {t \in 2..MaxTempo : t # 3}]
TodoInstante == [s \in Slugs |-> 2..MaxTempo]
================================================================================
