-------------------------- MODULE MCBoqFinalization --------------------------
(* BoqFinalization on small instances.  Requests are interchangeable.       *)
EXTENDS BoqFinalization, TLC

Requests == Permutations(Request)

\* Every line in one section, or the second line in a section of its own.
OneSection == [l \in Line |-> "A"]
TwoSections == [l \in Line |-> IF l = 1 THEN "A" ELSE "B"]
=============================================================================
