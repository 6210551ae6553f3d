----------------------------- MODULE MCWorkerRun -----------------------------
(* WorkerRun on small instances.                                            *)
EXTENDS WorkerRun, TLC

Runs == Permutations(Run)

\* Invocations with an identity each (the drain route's default), and two of three
\* invocations with the same runnerId from their scheduler.
OwnNames == [p \in Runner |-> p]
TwoShareAName ==
  LET shared == CHOOSE pair \in SUBSET Runner : Cardinality(pair) = 2
      name == CHOOSE n \in shared : TRUE IN
  [p \in Runner |-> IF p \in shared THEN name ELSE p]
=============================================================================
