------------------------------ MODULE MCDispatcher ------------------------------
EXTENDS Dispatcher, TLC
UmWorkflow == [r \in Runs |-> "w"]
LimiteUm == [r \in Runs |-> 1]
SemLimite == [r \in Runs |-> 0]
MesmaPrioridade == [r \in Runs |-> 0]
Simetria == Permutations(Goroutines) \cup Permutations(Dispatchers) \cup Permutations(Runs)
================================================================================
