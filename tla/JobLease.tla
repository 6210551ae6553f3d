------------------------------- MODULE JobLease --------------------------------
(***************************************************************************)
(* What a job queue promises to its users, with no row, recovery or handler in  *)
(* sight: a job that waits is taken by one worker, who alone ends it or puts it  *)
(* back; nobody else puts it back unless that worker is lost; it fails only     *)
(* after the takes it was allowed; and its user may withdraw it at any time.    *)
(***************************************************************************)
EXTENDS Naturals

CONSTANTS Job, Worker, MaxTakes

VARIABLE job
vars == <<job>>

\* by: the worker that has the job, if there is one.
State(status, takes, by) == [status |-> status, takes |-> takes, by |-> by]

Had(f) == f.status = "taken" /\ f.by # {}

Submitted(f, g) == f.status = "none" /\ g = State("waiting", 0, {})
Taken(f, g) ==
  f.status = "waiting" /\ \E w \in Worker : g = State("taken", f.takes + 1, {w})
Settled(f, g) == Had(f) /\ \E s \in {"done", "parked"} : g = State(s, f.takes, {})
Returned(f, g) == Had(f) /\ f.takes < MaxTakes /\ g = State("waiting", f.takes, {})
Failed(f, g) == Had(f) /\ f.takes >= MaxTakes /\ g = State("failed", f.takes, {})
Lost(f, g) == Had(f) /\ g = State("taken", f.takes, {})
Recovered(f, g) ==
  f.status = "taken" /\ f.by = {} /\ g = State("waiting", f.takes, {})
Withdrawn(f, g) ==
  f.status \in {"waiting", "taken", "parked"} /\ g = State("cancelled", f.takes, {})
Retried(f, g) == f.status \in {"parked", "failed"} /\ g = State("waiting", 0, {})

Moves(f, g) ==
  \/ Submitted(f, g) \/ Taken(f, g) \/ Settled(f, g) \/ Returned(f, g) \/ Failed(f, g)
  \/ Lost(f, g) \/ Recovered(f, g) \/ Withdrawn(f, g) \/ Retried(f, g)

Init == job = [j \in Job |-> State("none", 0, {})]

\* One step may concern two jobs: a worker is lost with all it has.
Next ==
  /\ DOMAIN job' = Job
  /\ \A j \in Job : job'[j] = job[j] \/ Moves(job[j], job'[j])

Spec == Init /\ [][Next]_vars
=============================================================================
