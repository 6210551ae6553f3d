--------------------------- MODULE MCExtractionJobs ---------------------------
(* Instances of ExtractionJobs for TLC. *)
EXTENDS ExtractionJobs

FirstSource == [t \in Prep |-> CHOOSE s \in Source : TRUE]
=============================================================================
