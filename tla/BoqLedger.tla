------------------------------ MODULE BoqLedger ------------------------------
(***************************************************************************)
(* What a bill of quantities promises its readers, with no request, version *)
(* or transaction in sight: a revision is a draft until it is final; only   *)
(* reviewed, acceptable content becomes final; every edit asks for a new    *)
(* review; a final revision and the record kept of it never change.         *)
(***************************************************************************)
CONSTANTS Revision, None, Acceptable(_)

VARIABLES content, reviewed, final, record
vars == <<content, reviewed, final, record>>

\* An edit of a draft, its creation included.
Edit(r) ==
  /\ ~final[r]
  /\ content' = [content EXCEPT ![r] = content'[r]]
  /\ reviewed' = [reviewed EXCEPT ![r] = FALSE]
  /\ UNCHANGED <<final, record>>

\* A review of a draft as it stands, with either outcome.
Review(r) ==
  /\ ~final[r]
  /\ \E outcome \in BOOLEAN : reviewed' = [reviewed EXCEPT ![r] = outcome]
  /\ UNCHANGED <<content, final, record>>

Finalize(r) ==
  /\ ~final[r] /\ reviewed[r] /\ Acceptable(content[r])
  /\ final' = [final EXCEPT ![r] = TRUE]
  /\ record' = [record EXCEPT ![r] = content[r]]
  /\ UNCHANGED <<content, reviewed>>

Init ==
  /\ content = [r \in Revision |-> content[r]]
  /\ reviewed = [r \in Revision |-> FALSE]
  /\ final = [r \in Revision |-> FALSE]
  /\ record = [r \in Revision |-> None]

Next == \E r \in Revision : Edit(r) \/ Review(r) \/ Finalize(r)

Spec == Init /\ [][Next]_vars
=============================================================================
