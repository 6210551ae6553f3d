------------------------- MODULE ExtractionJobsProofs -------------------------
(* Proofs about ExtractionJobs, for every value of its constants.           *)
EXTENDS ExtractionJobs, TLAPS

Live == {"RUNNING", "CANCELLED"}

\* What holds of an invocation wherever it is: only a preparation is put aside,
\* and only for a source job.
WorkerInv(p) ==
  /\ pc[p] = "idle" => outer[p] = NoJob
  /\ pc[p] = "wait" => outer[p] # NoJob
  /\ outer[p] # NoJob => row[outer[p]].target \in Prep
  /\ outer[p] # NoJob /\ pc[p] \in Handling \cup {"claim", "wait"} => row[on[p]].target \in Source
  /\ pc[p] = "requeue" => row[on[p]].attempts < MaxAttempts

\* A job that is held is running or cancelled, and fresh.
HeldLive ==
  \A p \in Worker, j \in Job : Holds(p, j) => row[j].status \in Live /\ j \notin stale

\* A job that can be claimed again has an attempt left: a running one that nobody
\* holds was lost, and a fault paid for it.
RowInv(j) ==
  /\ row[j].status = "NONE" => row[j].target = NoTarget
  /\ row[j].attempts <= MaxAttempts + faults
  /\ row[j].status = "QUEUED" => row[j].attempts < MaxAttempts + faults
  /\ row[j].status = "RUNNING" /\ (\A p \in Worker : ~Holds(p, j))
       => row[j].attempts < MaxAttempts + faults

OnePerPrep == \A t \in Prep : \A i, j \in Of(t) : i = j

Inductive ==
  /\ TypeOK
  /\ \A p \in Worker : WorkerInv(p)
  /\ HeldLive
  /\ OneExecutor
  /\ \A j \in Job : RowInv(j)
  /\ OneActivePerTarget
  /\ OnePerPrep

-----------------------------------------------------------------------------

LEMMA InitInductive ==
  ASSUME Init
  PROVE  Inductive
<1>1. TypeOK
  BY ConstantsAssumption DEF Init, TypeOK, Row, NoRow, PC, Handling, Enqueuing
<1>2. ASSUME NEW p \in Worker, NEW j \in Job
      PROVE  ~Holds(p, j)
  <2>1. pc[p] = "idle" /\ outer[p] = NoJob
    BY DEF Init
  <2>2. QED
    BY <2>1, ConstantsAssumption DEF Holds, Handling
<1>3. \A p \in Worker : WorkerInv(p)
  BY ConstantsAssumption DEF Init, WorkerInv, Handling
<1>4. ASSUME NEW j \in Job
      PROVE  RowInv(j)
  <2>1. row[j] = NoRow /\ faults = 0
    BY DEF Init
  <2>2. QED
    BY <2>1, ConstantsAssumption DEF RowInv, NoRow
<1>5. \A t \in Target : Of(t) = {}
  BY ConstantsAssumption DEF Init, Of, NoRow
<1>6. QED
  BY <1>1, <1>2, <1>3, <1>4, <1>5
  DEF Inductive, HeldLive, OneExecutor, OneActivePerTarget, OnePerPrep, ActiveOf, Target

-----------------------------------------------------------------------------
(* Writes of a row.                                                        *)

LEMMA Written ==
  ASSUME TypeOK, NEW j \in Job, NEW new \in Row, new.status # "NONE", new.target \in Target,
         Write(j, new)
  PROVE  /\ row' \in [Job -> Row] /\ row'[j] = new
         /\ \A i \in Job \ {j} : row'[i] = row[i]
         /\ stale' = stale \ {j}
         /\ \A i \in Job : row'[i].status # "NONE" => row'[i].target \in Target
  BY DEF TypeOK, Write

WithStatus(old, s) == [old EXCEPT !.status = s]

LEMMA WithStatusFields ==
  ASSUME NEW old \in Row, NEW s \in NonTerminal \cup Terminal
  PROVE  /\ WithStatus(old, s) \in Row
         /\ WithStatus(old, s).status = s
         /\ WithStatus(old, s).target = old.target
         /\ WithStatus(old, s).attempts = old.attempts
         /\ s # "NONE"
  BY DEF WithStatus, Row, NonTerminal, Terminal, Active, Executing

LEMMA ClaimedFields ==
  ASSUME NEW old \in Row
  PROVE  /\ Claimed(old) \in Row
         /\ Claimed(old).status = "RUNNING"
         /\ Claimed(old).target = old.target
         /\ Claimed(old).attempts = old.attempts + 1
  BY DEF Claimed, Row, NonTerminal, Active, Executing

LEMMA StatusSet ==
  ASSUME TypeOK, NEW j \in Job, row[j].status # "NONE",
         NEW s \in NonTerminal \cup Terminal, SetStatus(j, s)
  PROVE  /\ row' \in [Job -> Row]
         /\ row'[j].status = s /\ row'[j].target = row[j].target
         /\ row'[j].attempts = row[j].attempts
         /\ \A i \in Job \ {j} : row'[i] = row[i]
         /\ stale' = stale \ {j}
         /\ \A i \in Job : row'[i].status # "NONE" => row'[i].target \in Target
<1>1. row[j] \in Row /\ row[j].target \in Target
  BY DEF TypeOK
<1>2. Write(j, WithStatus(row[j], s))
  BY DEF SetStatus, WithStatus
<1>3. QED
  BY <1>1, <1>2, WithStatusFields, Written

LEMMA NewRowTyped ==
  ASSUME NEW t \in Target
  PROVE  /\ NewRow(t) \in Row /\ NewRow(t).status = "QUEUED"
         /\ NewRow(t).target = t /\ NewRow(t).attempts = 0
  BY DEF NewRow, Row, NonTerminal, Active, Executing

-----------------------------------------------------------------------------
(* What is left to show of a step of one invocation that writes no row but those *)
(* of K.                                                                   *)

OnlyMoves(p) ==
  /\ pc' \in [Worker -> PC] /\ on' \in [Worker -> Job \cup {NoJob}]
  /\ want' \in [Worker -> Source \cup {NoTarget}] /\ outer' \in [Worker -> Job \cup {NoJob}]
  /\ \A q \in Worker \ {p} : /\ pc'[q] = pc[q] /\ on'[q] = on[q]
                             /\ want'[q] = want[q] /\ outer'[q] = outer[q]

\* The invocation at its new place.
Placed(p) ==
  /\ pc'[p] \in Handling \cup {"claim", "wait", "reset"} => on'[p] \in Job
  /\ pc'[p] \in Enqueuing => want'[p] \in Source

\* Rows that others hold are not written, or only their status is.
Spared(p, K) ==
  \A k \in K : \/ \A q \in Worker \ {p} : ~Holds(q, k)
               \/ /\ row'[k].status \in Live
                  /\ row'[k].target = row[k].target
                  /\ row'[k].attempts = row[k].attempts

Writes(K) ==
  /\ row' \in [Job -> Row] /\ stale' \subseteq Job
  /\ \A j \in Job \ K : row'[j] = row[j] /\ (j \in stale' => j \in stale)
  /\ \A k \in K : k \notin stale'
  /\ \A j \in Job : row'[j].status # "NONE" => row'[j].target \in Target

LEMMA OthersHold ==
  ASSUME NEW p \in Worker, OnlyMoves(p), NEW q \in Worker \ {p}, NEW j \in Job
  PROVE  Holds(q, j)' <=> Holds(q, j)
  BY DEF OnlyMoves, Holds

\* An invocation that has a row other than its own changed under it.
LEMMA OtherWorker ==
  ASSUME TypeOK, HeldLive, NEW p \in Worker, OnlyMoves(p),
         NEW q \in Worker \ {p}, WorkerInv(q),
         \A j \in Job : Holds(q, j) => /\ row'[j].target = row[j].target
                                       /\ row'[j].attempts = row[j].attempts,
         \A j \in Job : row[j].target # NoTarget => row'[j].target = row[j].target
  PROVE  WorkerInv(q)'
<1>1. outer[q] # NoJob => outer[q] \in Job /\ Holds(q, outer[q])
  BY DEF TypeOK, Holds
<1>2. pc[q] = "requeue" => on[q] \in Job /\ Holds(q, on[q])
  BY DEF TypeOK, Holds, Handling
<1>3. outer[q] # NoJob /\ pc[q] \in Handling \cup {"claim", "wait"}
        => row'[on[q]].target = row[on[q]].target
  <2>1. SUFFICES ASSUME outer[q] # NoJob, pc[q] \in Handling \cup {"claim", "wait"}
                 PROVE  row'[on[q]].target = row[on[q]].target
    OBVIOUS
  <2>2. on[q] \in Job /\ row[on[q]].target \in Source
    BY <2>1 DEF TypeOK, WorkerInv
  <2>3. row[on[q]].target # NoTarget
    BY <2>2, ConstantsAssumption DEF Target
  <2>4. QED
    BY <2>2, <2>3
<1>4. QED
  BY <1>1, <1>2, <1>3 DEF WorkerInv, OnlyMoves

\* What is left to show of a step.
LEMMA Step ==
  ASSUME Inductive, NEW p \in Worker, NEW K \in SUBSET Job,
         OnlyMoves(p), Placed(p), WorkerInv(p)', Writes(K), Spared(p, K),
         faults' \in 0..MaxFaults, faults <= faults',
         \A j \in Job : row[j].target # NoTarget => row'[j].target = row[j].target,
         \A j \in Job : Holds(p, j)' => /\ row'[j].status \in Live /\ j \notin stale'
                                        /\ \A q \in Worker \ {p} : ~Holds(q, j),
         \A j \in Job \ K : Holds(p, j) /\ ~Holds(p, j)' /\ row[j].status = "RUNNING"
                             => row[j].attempts < MaxAttempts + faults',
         \A k \in K : RowInv(k)',
         OneActivePerTarget', OnePerPrep'
  PROVE  Inductive'
<1>1. TypeOK'
  BY DEF Inductive, TypeOK, OnlyMoves, Placed, Writes
<1>2. \A q \in Worker \ {p}, j \in Job : Holds(q, j)' <=> Holds(q, j)
  BY OthersHold
<1>3. \A q \in Worker \ {p}, j \in Job : Holds(q, j) =>
        /\ row'[j].status \in Live /\ j \notin stale'
        /\ row'[j].target = row[j].target /\ row'[j].attempts = row[j].attempts
  BY DEF Inductive, HeldLive, Writes, Spared
<1>4. HeldLive'
  BY <1>2, <1>3 DEF HeldLive
<1>5. OneExecutor'
  BY <1>2 DEF OneExecutor, Inductive
<1>6. ASSUME NEW q \in Worker
      PROVE  WorkerInv(q)'
  <2>1. CASE q = p
    BY <2>1
  <2>2. CASE q # p
    BY <2>2, <1>3, OtherWorker DEF Inductive
  <2>3. QED
    BY <2>1, <2>2
<1>7. ASSUME NEW j \in Job \ K
      PROVE  RowInv(j)'
  <2>1. row'[j] = row[j] /\ RowInv(j) /\ row[j].attempts \in Nat
    BY DEF Writes, Inductive, TypeOK, Row
  <2>2. faults \in Nat /\ faults' \in Nat /\ MaxAttempts \in Nat
    BY ConstantsAssumption DEF Inductive, TypeOK
  <2>3. ASSUME row[j].status = "RUNNING", \A q \in Worker : ~Holds(q, j)'
        PROVE  row[j].attempts < MaxAttempts + faults'
    <3>1. CASE Holds(p, j)
      BY <3>1, <2>3
    <3>2. CASE ~Holds(p, j)
      BY <3>2, <2>1, <2>2, <2>3, <1>2 DEF RowInv
    <3>3. QED
      BY <3>1, <3>2
  <2>4. QED
    BY <2>1, <2>2, <2>3 DEF RowInv
<1>8. \A j \in Job : RowInv(j)'
  BY <1>7
<1>9. QED
  BY <1>1, <1>4, <1>5, <1>6, <1>8 DEF Inductive

-----------------------------------------------------------------------------
(* Steps that write no row.                                                *)

LEMMA Walk ==
  ASSUME Inductive, NEW p \in Worker, UNCHANGED <<row, stale>>,
         OnlyMoves(p), Placed(p), WorkerInv(p)',
         faults' \in 0..MaxFaults, faults <= faults',
         \A j \in Job : Holds(p, j)' => Holds(p, j),
         \A j \in Job : Holds(p, j) /\ ~Holds(p, j)' /\ row[j].status = "RUNNING"
                      => row[j].attempts < MaxAttempts + faults'
  PROVE  Inductive'
<1>1. Writes({})
  BY DEF Writes, Inductive, TypeOK
<1>2. Spared(p, {})
  BY DEF Spared
<1>3. OneActivePerTarget' /\ OnePerPrep'
  BY DEF Inductive, OneActivePerTarget, OnePerPrep, ActiveOf, Of
<1>4. \A j \in Job : Holds(p, j)' => /\ row'[j].status \in Live /\ j \notin stale'
                                    /\ \A q \in Worker \ {p} : ~Holds(q, j)
  BY DEF Inductive, HeldLive, OneExecutor
<1>5. {} \in SUBSET Job
  OBVIOUS
<1>6. QED
  BY <1>1, <1>2, <1>3, <1>4, <1>5, Step

\* What an invocation does, seen from its own fields.
Moved(p, at, job, t, prep) ==
  /\ pc' = [pc EXCEPT ![p] = at] /\ on' = [on EXCEPT ![p] = job]
  /\ want' = [want EXCEPT ![p] = t] /\ outer' = [outer EXCEPT ![p] = prep]

LEMMA MovedFacts ==
  ASSUME TypeOK, NEW p \in Worker, NEW at \in PC, NEW job \in Job \cup {NoJob},
         NEW t \in Source \cup {NoTarget}, NEW prep \in Job \cup {NoJob},
         Moved(p, at, job, t, prep)
  PROVE  /\ OnlyMoves(p)
         /\ pc'[p] = at /\ on'[p] = job /\ want'[p] = t /\ outer'[p] = prep
  BY DEF TypeOK, Moved, OnlyMoves

LEMMA OwnFields ==
  ASSUME TypeOK, NEW p \in Worker
  PROVE  /\ on = [on EXCEPT ![p] = on[p]] /\ want = [want EXCEPT ![p] = want[p]]
         /\ outer = [outer EXCEPT ![p] = outer[p]]
         /\ on[p] \in Job \cup {NoJob} /\ want[p] \in Source \cup {NoTarget}
         /\ outer[p] \in Job \cup {NoJob}
  BY DEF TypeOK

LEMMA Places ==
         /\ {"idle", "claim", "wait", "find", "reset", "create", "read", "run", "sourced",
             "blocked", "thrown", "requeue", "fail"} \subseteq PC
         /\ Handling \cap {"idle", "claim", "wait", "find", "reset", "create"} = {}
         /\ Enqueuing \cap ({"idle", "claim", "wait"} \cup Handling) = {}
         /\ {"read", "run", "sourced", "blocked", "thrown", "requeue", "fail"} = Handling
         /\ {"find", "reset", "create"} = Enqueuing
  BY DEF PC, Handling, Enqueuing

\* A place an invocation may be in, with its job, its target and its preparation.
PlaceIn(rows, at, job, t, prep) ==
  /\ at \in PC /\ job \in Job \cup {NoJob} /\ t \in Source \cup {NoTarget}
  /\ prep \in Job \cup {NoJob}
  /\ at \in Handling \cup {"claim", "wait", "reset"} => job \in Job
  /\ at \in Enqueuing => t \in Source
  /\ at = "idle" => prep = NoJob
  /\ at = "wait" => prep # NoJob
  /\ prep # NoJob => rows[prep].target \in Prep
  /\ prep # NoJob /\ at \in Handling \cup {"claim", "wait"} => rows[job].target \in Source
  /\ at = "requeue" => rows[job].attempts < MaxAttempts
Place(at, job, t, prep) == PlaceIn(row, at, job, t, prep)

\* The jobs an invocation holds there.
HeldAt(at, job, prep, j) == (at \in Handling /\ job = j) \/ prep = j

LEMMA WalkTo ==
  ASSUME Inductive, NEW p \in Worker, UNCHANGED <<row, stale>>,
         NEW at, NEW job, NEW t, NEW prep,
         Place(at, job, t, prep), Moved(p, at, job, t, prep),
         faults' \in 0..MaxFaults, faults <= faults',
         \A j \in Job : HeldAt(at, job, prep, j) => Holds(p, j),
         \A j \in Job : Holds(p, j) /\ ~HeldAt(at, job, prep, j) /\ row[j].status = "RUNNING"
                      => row[j].attempts < MaxAttempts + faults'
  PROVE  Inductive'
<1>1. /\ OnlyMoves(p)
      /\ pc'[p] = at /\ on'[p] = job /\ want'[p] = t /\ outer'[p] = prep
  BY MovedFacts DEF Inductive, Place, PlaceIn
<1>2. Placed(p)
  BY <1>1 DEF Placed, Place, PlaceIn
<1>3. WorkerInv(p)'
  BY <1>1 DEF WorkerInv, Place, PlaceIn
<1>4. \A j \in Job : Holds(p, j)' <=> HeldAt(at, job, prep, j)
  BY <1>1 DEF Holds, HeldAt
<1>5. QED
  BY <1>1, <1>2, <1>3, <1>4, Walk

LEMMA PlaceNow ==
  ASSUME Inductive, NEW p \in Worker
  PROVE  /\ Place(pc[p], on[p], want[p], outer[p])
         /\ \A j \in Job : HeldAt(pc[p], on[p], outer[p], j) <=> Holds(p, j)
  BY DEF Inductive, TypeOK, WorkerInv, Place, PlaceIn, HeldAt, Holds

LEMMA SameFaults ==
  ASSUME Inductive, faults' = faults
  PROVE  faults' \in 0..MaxFaults /\ faults <= faults'
  BY ConstantsAssumption DEF Inductive, TypeOK

LEMMA EnqueueStep ==
  ASSUME Inductive, NEW p \in Worker, NEW s \in Source, Enqueue(p, s)
  PROVE  Inductive'
<1>1. Moved(p, "find", on[p], s, outer[p])
  BY OwnFields DEF Enqueue, Moved, Goto, Inductive
<1>2. Place("find", on[p], s, outer[p])
  BY PlaceNow, Places DEF Place, PlaceIn, Enqueue
<1>3. \A j \in Job : HeldAt("find", on[p], outer[p], j) <=> Holds(p, j)
  BY PlaceNow, Places DEF HeldAt, Enqueue
<1>4. UNCHANGED <<row, stale, faults>>
  BY DEF Enqueue
<1>5. QED
  BY <1>1, <1>2, <1>3, <1>4, WalkTo, SameFaults

LEMMA FindStaleStep ==
  ASSUME Inductive, NEW p \in Worker, FindStale(p)
  PROVE  Inductive'
<1>1. PICK at \in {"reset", "create"}, job \in Job \cup {NoJob} :
         /\ Moved(p, at, job, want[p], outer[p])
         /\ at = "reset" => job \in Job
  <2>1. CASE StaleOf(want[p]) = {}
    BY <2>1, OwnFields DEF FindStale, Moved, Goto, Inductive
  <2>2. CASE StaleOf(want[p]) # {}
    BY <2>2, OwnFields DEF FindStale, Moved, Goto, Inductive, StaleOf, Of
  <2>3. QED
    BY <2>1, <2>2
<1>2. Place(at, job, want[p], outer[p])
  BY <1>1, PlaceNow, Places DEF Place, PlaceIn, FindStale
<1>3. \A j \in Job : HeldAt(at, job, outer[p], j) <=> Holds(p, j)
  BY PlaceNow, Places DEF HeldAt, FindStale
<1>4. UNCHANGED <<row, stale, faults>>
  BY DEF FindStale
<1>5. QED
  BY <1>1, <1>2, <1>3, <1>4, WalkTo, SameFaults

LEMMA FindJobStep ==
  ASSUME Inductive, NEW p \in Worker, FindJob(p)
  PROVE  Inductive'
<1>1. want[p] \in Source /\ pc[p] = "create"
  BY DEF FindJob, Inductive, TypeOK, Enqueuing
<1>2. PICK j \in ActiveOf(want[p]) : Enqueued(p, j, row[j].status)
  BY DEF FindJob
<1>3. j \in Job /\ row[j].target = want[p]
  BY <1>2 DEF ActiveOf, Of
<1>4. PICK at \in {"claim", "wait", "idle"}, job \in {j, NoJob} :
         /\ Moved(p, at, job, NoTarget, outer[p])
         /\ at = "idle" => outer[p] = NoJob
         /\ at = "wait" => outer[p] # NoJob
         /\ at # "idle" => job = j
  <2>1. CASE row[j].status = "QUEUED"
    BY <1>2, <2>1, OwnFields DEF Enqueued, Goto, Moved, Inductive
  <2>2. CASE row[j].status # "QUEUED" /\ outer[p] # NoJob
    BY <1>2, <2>2, OwnFields DEF Enqueued, Goto, Moved, Inductive
  <2>3. CASE row[j].status # "QUEUED" /\ outer[p] = NoJob
    BY <1>2, <2>3, OwnFields DEF Enqueued, Goto, Moved, Inductive
  <2>4. QED
    BY <2>1, <2>2, <2>3
<1>5. Place(at, job, NoTarget, outer[p])
  BY <1>1, <1>3, <1>4, PlaceNow, Places DEF Place, PlaceIn
<1>6. \A i \in Job : HeldAt(at, job, outer[p], i) <=> Holds(p, i)
  BY <1>1, PlaceNow, Places DEF HeldAt
<1>7. UNCHANGED <<row, stale, faults>>
  BY <1>2 DEF FindJob, Enqueued
<1>8. QED
  BY <1>4, <1>5, <1>6, <1>7, WalkTo, SameFaults

\* The invocation goes back to the preparation it put aside, or stops; the fault pays for
\* a job it lets go of.
LEMMA CallThrowsStep ==
  ASSUME Inductive, NEW p \in Worker, CallThrows(p),
         faults' \in 0..MaxFaults, faults <= faults',
         pc[p] \in Handling => faults' = faults + 1
  PROVE  Inductive'
<1>1. UNCHANGED <<row, stale>>
  BY DEF CallThrows
<1>2. ASSUME NEW j \in Job, Holds(p, j), outer[p] # j
      PROVE  row[j].attempts < MaxAttempts + faults'
  <2>1. faults' = faults + 1 /\ faults \in Nat
    BY <1>2, ConstantsAssumption DEF Holds, Inductive, TypeOK
  <2>2. row[j].attempts \in Nat /\ row[j].attempts <= MaxAttempts + faults
    BY DEF Inductive, RowInv, TypeOK, Row
  <2>3. QED
    BY <2>1, <2>2, ConstantsAssumption
<1>3. CASE outer[p] = NoJob
  <2>1. Moved(p, "idle", NoJob, NoTarget, NoJob)
    BY <1>3 DEF CallThrows, Moved, Goto
  <2>2. Place("idle", NoJob, NoTarget, NoJob)
    BY Places DEF Place, PlaceIn
  <2>3. \A j \in Job : ~HeldAt("idle", NoJob, NoJob, j) /\ outer[p] # j
    BY <1>3, Places, ConstantsAssumption DEF HeldAt
  <2>4. QED
    BY <1>1, <1>2, <2>1, <2>2, <2>3, WalkTo
<1>4. CASE outer[p] # NoJob
  <2>1. Moved(p, "thrown", outer[p], NoTarget, NoJob)
    BY <1>4 DEF CallThrows, Moved, Goto
  <2>2. Place("thrown", outer[p], NoTarget, NoJob)
    BY <1>4, PlaceNow, Places DEF Place, PlaceIn
  <2>3. \A j \in Job : HeldAt("thrown", outer[p], NoJob, j) <=> outer[p] = j
    BY Places, ConstantsAssumption DEF HeldAt
  <2>4. \A j \in Job : outer[p] = j => Holds(p, j)
    BY DEF Holds
  <2>5. QED
    BY <1>1, <1>2, <2>1, <2>2, <2>3, <2>4, WalkTo
<1>5. QED
  BY <1>3, <1>4

LEMMA CallFailsStep ==
  ASSUME Inductive, NEW p \in Worker, CallFails(p) \/ NoIdLeft(p)
  PROVE  Inductive'
<1>1. /\ faults' \in 0..MaxFaults /\ faults <= faults'
      /\ pc[p] \in Handling => faults' = faults + 1
  BY Places, ConstantsAssumption DEF CallFails, NoIdLeft, Inductive, TypeOK
<1>2. QED
  BY <1>1, CallThrowsStep DEF CallFails, NoIdLeft

\* processQueuedJob returns without a write: nothing is left running behind it.
LEMMA ReturnStep ==
  ASSUME Inductive, NEW p \in Worker, UNCHANGED <<row, stale>>, Return(p),
         pc[p] \in Handling \cup {"claim"},
         pc[p] = "claim" \/ row[on[p]].status # "RUNNING"
  PROVE  Inductive'
<1>1. on[p] \in Job
  BY DEF Inductive, TypeOK
<1>2. faults' = faults
  BY DEF Return
<1>3. CASE outer[p] = NoJob
  <2>1. Moved(p, "idle", NoJob, want[p], NoJob)
    BY <1>3, OwnFields DEF Return, Moved, Goto, Inductive
  <2>2. Place("idle", NoJob, want[p], NoJob)
    BY OwnFields, Places DEF Place, PlaceIn, Inductive
  <2>3. \A j \in Job : ~HeldAt("idle", NoJob, NoJob, j)
    BY Places, ConstantsAssumption DEF HeldAt
  <2>4. \A j \in Job : Holds(p, j) => row[j].status # "RUNNING"
    BY <1>3, Places, ConstantsAssumption DEF Holds
  <2>5. QED
    BY <1>2, <2>1, <2>2, <2>3, <2>4, WalkTo, SameFaults
<1>4. CASE outer[p] # NoJob
  <2>1. Moved(p, "wait", on[p], want[p], outer[p])
    BY <1>4, OwnFields DEF Return, Moved, Goto, Inductive
  <2>2. Place("wait", on[p], want[p], outer[p])
    BY <1>1, <1>4, PlaceNow, Places DEF Place, PlaceIn
  <2>3. \A j \in Job : HeldAt("wait", on[p], outer[p], j) => Holds(p, j)
    BY Places DEF HeldAt, Holds
  <2>4. \A j \in Job : Holds(p, j) /\ ~HeldAt("wait", on[p], outer[p], j)
                         => row[j].status # "RUNNING"
    BY Places DEF HeldAt, Holds
  <2>5. QED
    BY <1>2, <2>1, <2>2, <2>3, <2>4, WalkTo, SameFaults
<1>5. QED
  BY <1>3, <1>4

\* It stays with its job.
LEMMA StayStep ==
  ASSUME Inductive, NEW p \in Worker, UNCHANGED <<row, stale>>,
         pc[p] \in Handling, NEW at \in Handling, Stay(p, at),
         at = "requeue" => row[on[p]].attempts < MaxAttempts
  PROVE  Inductive'
<1>1. Moved(p, at, on[p], want[p], outer[p]) /\ faults' = faults
  BY OwnFields DEF Stay, Moved, Goto, Inductive
<1>2. Place(at, on[p], want[p], outer[p])
  BY PlaceNow, Places DEF Place, PlaceIn
<1>3. \A j \in Job : HeldAt(at, on[p], outer[p], j) <=> Holds(p, j)
  BY Places DEF HeldAt, Holds
<1>4. QED
  BY <1>1, <1>2, <1>3, WalkTo, SameFaults

LEMMA HandlerSteps ==
  ASSUME Inductive, NEW p \in Worker,
         ReadClaimed(p) \/ SkipSource(p) \/ Throw(p) \/ ReadFailed(p)
  PROVE  Inductive'
<1>1. pc[p] \in Handling /\ UNCHANGED <<row, stale>>
  BY Places DEF ReadClaimed, SkipSource, Throw, ReadFailed
<1>2. \/ Return(p) /\ row[on[p]].status # "RUNNING"
      \/ \E at \in Handling : /\ Stay(p, at)
                              /\ at = "requeue" => row[on[p]].attempts < MaxAttempts
  BY Places DEF ReadClaimed, SkipSource, Throw, ReadFailed
<1>3. QED
  BY <1>1, <1>2, ReturnStep, StayStep

LEMMA RunSourceStep ==
  ASSUME Inductive, NEW p \in Worker, RunSource(p)
  PROVE  Inductive'
<1> DEFINE t == row[on[p]].target
<1>1. /\ pc[p] = "run" /\ t \in Prep /\ UNCHANGED <<row, stale, faults>>
      /\ Moved(p, "find", NoJob, SourceOf[t], on[p])
  BY DEF RunSource, Moved, Goto
<1>2. on[p] \in Job /\ SourceOf[t] \in Source
  BY <1>1, Places, ConstantsAssumption DEF Inductive, TypeOK
<1>3. outer[p] = NoJob
  BY <1>1, Places, ConstantsAssumption DEF Inductive, WorkerInv
<1>4. Place("find", NoJob, SourceOf[t], on[p])
  BY <1>1, <1>2, Places DEF Place, PlaceIn
<1>5. \A j \in Job : HeldAt("find", NoJob, on[p], j) <=> Holds(p, j)
  BY <1>1, <1>2, <1>3, Places, ConstantsAssumption DEF HeldAt, Holds
<1> HIDE DEF t
<1>6. QED
  BY <1>1, <1>4, <1>5, WalkTo, SameFaults

LEMMA ResumeStep ==
  ASSUME Inductive, NEW p \in Worker, SourceSettled(p) \/ SourceTimeout(p)
  PROVE  Inductive'
<1>1. PICK at \in {"sourced", "blocked", "thrown"} : Resume(p, at)
  BY DEF SourceSettled, SourceTimeout
<1>2. pc[p] = "wait"
  BY DEF SourceSettled, SourceTimeout
<1>3. outer[p] \in Job
  BY <1>2 DEF Inductive, WorkerInv, TypeOK
<1>4. Moved(p, at, outer[p], want[p], NoJob) /\ UNCHANGED <<row, stale, faults>>
  BY <1>1, OwnFields DEF Resume, Goto, Moved, Inductive
<1>5. Place(at, outer[p], want[p], NoJob)
  BY <1>3, PlaceNow, Places DEF Place, PlaceIn
<1>6. \A j \in Job : HeldAt(at, outer[p], NoJob, j) <=> Holds(p, j)
  BY <1>2, Places, ConstantsAssumption DEF HeldAt, Holds
<1>7. QED
  BY <1>4, <1>5, <1>6, WalkTo, SameFaults

LEMMA VanishStep ==
  ASSUME Inductive, NEW p \in Worker, Vanish(p)
  PROVE  Inductive'
<1>1. Moved(p, "idle", NoJob, NoTarget, NoJob) /\ UNCHANGED <<row, stale>>
  BY DEF Vanish, Goto, Moved
<1>2. faults \in Nat /\ faults' = faults + 1 /\ faults' \in 0..MaxFaults /\ faults <= faults'
  BY ConstantsAssumption DEF Vanish, Inductive, TypeOK
<1>3. Place("idle", NoJob, NoTarget, NoJob)
  BY Places DEF Place, PlaceIn
<1>4. \A j \in Job : ~HeldAt("idle", NoJob, NoJob, j)
  BY Places, ConstantsAssumption DEF HeldAt
<1>5. ASSUME NEW j \in Job
      PROVE  row[j].attempts < MaxAttempts + faults'
  <2>1. row[j].attempts \in Nat /\ row[j].attempts <= MaxAttempts + faults
    BY DEF Inductive, RowInv, TypeOK, Row
  <2>2. QED
    BY <2>1, <1>2, ConstantsAssumption
<1>6. QED
  BY <1>1, <1>2, <1>3, <1>4, <1>5, WalkTo

-----------------------------------------------------------------------------
(* Steps that write a row.                                                 *)

\* The row that is written keeps its target, and comes to no new active status.
LEMMA KeepsTargets ==
  ASSUME Inductive, NEW j \in Job,
         \A i \in Job \ {j} : row'[i] = row[i], row'[j].target = row[j].target,
         row'[j].status \in Active =>
           row[j].status \in Active \/ row[j].target \in Prep
  PROVE  OneActivePerTarget' /\ OnePerPrep'
<1>1. \A t \in Target : Of(t)' = Of(t)
  BY DEF Of
<1>2. OnePerPrep'
  BY <1>1 DEF OnePerPrep, Inductive, Target
<1>3. ASSUME NEW t \in Target, NEW i \in ActiveOf(t)', NEW k \in ActiveOf(t)'
      PROVE  i = k
  <2>1. i \in Of(t) /\ k \in Of(t) /\ i \in Job /\ k \in Job
    BY <1>1 DEF ActiveOf, Of
  <2>2. CASE t \in Prep
    BY <2>1, <2>2 DEF Inductive, OnePerPrep
  <2>3. CASE t \notin Prep
    <3>1. i \in ActiveOf(t) /\ k \in ActiveOf(t)
      BY <2>1, <2>3 DEF ActiveOf, Of
    <3>2. QED
      BY <3>1 DEF Inductive, OneActivePerTarget
  <2>4. QED
    BY <2>2, <2>3
<1>4. QED
  BY <1>2, <1>3 DEF OneActivePerTarget

\* A step that writes row k and nothing of the others.
WritesOne(k) ==
  /\ row' \in [Job -> Row] /\ stale' = stale \ {k}
  /\ \A i \in Job \ {k} : row'[i] = row[i]
  /\ \A i \in Job : row'[i].status # "NONE" => row'[i].target \in Target
  /\ row'[k].status # "NONE"
  /\ row[k].target # NoTarget => row'[k].target = row[k].target

LEMMA WriteTo ==
  ASSUME Inductive, NEW p \in Worker, NEW k \in Job, WritesOne(k),
         NEW at, NEW job, NEW t, NEW prep,
         PlaceIn(row', at, job, t, prep), Moved(p, at, job, t, prep), faults' = faults,
         \A q \in Worker \ {p} : ~Holds(q, k),
         \A j \in Job : HeldAt(at, job, prep, j) =>
           row'[j].status \in Live /\ (Holds(p, j) \/ j = k),
         \A j \in Job \ {k} : Holds(p, j) => HeldAt(at, job, prep, j),
         row'[k].attempts <= MaxAttempts + faults,
         row'[k].status = "QUEUED" => row'[k].attempts < MaxAttempts + faults,
         row'[k].status = "RUNNING" => HeldAt(at, job, prep, k),
         OneActivePerTarget', OnePerPrep'
  PROVE  Inductive'
<1>1. /\ OnlyMoves(p)
      /\ pc'[p] = at /\ on'[p] = job /\ want'[p] = t /\ outer'[p] = prep
  BY MovedFacts DEF Inductive, PlaceIn
<1>2. Placed(p)
  BY <1>1 DEF Placed, PlaceIn
<1>3. WorkerInv(p)'
  BY <1>1 DEF WorkerInv, PlaceIn
<1>4. \A j \in Job : Holds(p, j)' <=> HeldAt(at, job, prep, j)
  BY <1>1 DEF Holds, HeldAt
<1>5. {k} \in SUBSET Job /\ Writes({k}) /\ Spared(p, {k})
  BY DEF Writes, WritesOne, Spared, Inductive, TypeOK
<1>6. ASSUME NEW j \in Job, Holds(p, j)'
      PROVE  row'[j].status \in Live /\ j \notin stale' /\ \A q \in Worker \ {p} : ~Holds(q, j)
  <2>1. row'[j].status \in Live /\ (Holds(p, j) \/ j = k)
    BY <1>4, <1>6
  <2>2. j \notin stale'
    BY <2>1 DEF WritesOne, Inductive, HeldLive
  <2>3. \A q \in Worker \ {p} : ~Holds(q, j)
    BY <2>1 DEF Inductive, OneExecutor
  <2>4. QED
    BY <2>1, <2>2, <2>3
<1>7. RowInv(k)'
  BY <1>4 DEF RowInv, WritesOne
<1>8. \A j \in Job : row[j].target # NoTarget => row'[j].target = row[j].target
  BY DEF WritesOne
<1>9. \A j \in Job \ {k} : Holds(p, j) => Holds(p, j)'
  BY <1>4
<1>10. faults' \in 0..MaxFaults /\ faults <= faults'
  BY SameFaults
<1>11. QED
  BY <1>1, <1>2, <1>3, <1>5, <1>6, <1>7, <1>8, <1>9, <1>10, Step

\* A row that an invocation needs where it is going reads as it did.
LEMMA PlaceKept ==
  ASSUME Inductive, NEW k \in Job, WritesOne(k),
         NEW at, NEW job, NEW t, NEW prep, Place(at, job, t, prep), at # "requeue"
  PROVE  PlaceIn(row', at, job, t, prep)
<1>1. \A j \in Job : row[j].target # NoTarget => row'[j].target = row[j].target
  BY DEF WritesOne
<1>2. NoTarget \notin Prep /\ NoTarget \notin Source
  BY ConstantsAssumption DEF Target
<1>3. QED
  BY <1>1, <1>2, Places DEF Place, PlaceIn

LEMMA StatusWritten ==
  ASSUME Inductive, NEW k \in Job, row[k].status # "NONE",
         NEW s \in NonTerminal \cup Terminal, SetStatus(k, s)
  PROVE  /\ WritesOne(k) /\ row'[k].status = s
         /\ row'[k].target = row[k].target /\ row'[k].attempts = row[k].attempts
         /\ row[k].target \in Target
  BY StatusSet DEF Inductive, WritesOne, TypeOK, NonTerminal, Terminal, Active, Executing

LEMMA ResetStaleStep ==
  ASSUME Inductive, NEW p \in Worker, ResetStale(p)
  PROVE  Inductive'
<1> DEFINE k == on[p]
<1>1. /\ pc[p] = "reset" /\ k \in Job
      /\ Moved(p, "create", k, want[p], outer[p]) /\ faults' = faults
  BY OwnFields, Places DEF ResetStale, Inductive, TypeOK, Moved, Goto
<1>2. Place("create", k, want[p], outer[p])
  BY <1>1, PlaceNow, Places DEF Place, PlaceIn
<1>3. \A j \in Job : HeldAt("create", k, outer[p], j) <=> Holds(p, j)
  BY <1>1, Places DEF HeldAt, Holds
<1>4. CASE k \in stale /\ row[k].status = "RUNNING"
  <2>1. SetStatus(k, "QUEUED")
    BY <1>4 DEF ResetStale, FromRunning
  <2>2. \A q \in Worker : ~Holds(q, k)
    BY <1>1, <1>4 DEF Inductive, HeldLive
  <2>3. /\ WritesOne(k) /\ row'[k].status = "QUEUED"
        /\ row'[k].target = row[k].target /\ row'[k].attempts = row[k].attempts
    BY <1>1, <1>4, <2>1, StatusWritten DEF NonTerminal, Active, Executing
  <2>4. row[k].attempts < MaxAttempts + faults /\ row[k].attempts <= MaxAttempts + faults
    BY <1>1, <1>4, <2>2 DEF Inductive, RowInv
  <2>5. OneActivePerTarget' /\ OnePerPrep'
    BY <1>1, <1>4, <2>3, KeepsTargets DEF WritesOne, Active, Executing
  <2>6. PlaceIn(row', "create", k, want[p], outer[p])
    BY <1>1, <1>2, <2>3, PlaceKept
  <2>7. ASSUME NEW j \in Job, HeldAt("create", k, outer[p], j)
        PROVE  row'[j].status \in Live /\ Holds(p, j)
    BY <1>3, <2>2, <2>3, <2>7 DEF WritesOne, Inductive, HeldLive
  <2> HIDE DEF k
  <2>8. QED
    BY <1>1, <1>3, <2>2, <2>3, <2>4, <2>5, <2>6, <2>7, WriteTo
<1>5. CASE ~(k \in stale /\ row[k].status = "RUNNING")
  <2>1. UNCHANGED <<row, stale>>
    BY <1>5 DEF ResetStale, FromRunning
  <2> HIDE DEF k
  <2>2. QED
    BY <1>1, <1>2, <1>3, <2>1, WalkTo, SameFaults
<1>6. QED
  BY <1>4, <1>5

\* A step that ends or requeues the running job it holds, and goes to at.
LEMMA EndStep ==
  ASSUME Inductive, NEW p \in Worker, pc[p] \in Handling,
         row[on[p]].status = "RUNNING",
         NEW s \in (NonTerminal \cup Terminal) \ {"RUNNING"}, SetStatus(on[p], s),
         NEW at \in {"idle", "wait", "claim"}, NEW job,
         Moved(p, at, job, want[p], outer[p]), faults' = faults,
         at = "idle" => outer[p] = NoJob /\ job = NoJob,
         at = "wait" => outer[p] # NoJob,
         at # "idle" => job = on[p],
         s = "QUEUED" => row[on[p]].attempts < MaxAttempts
  PROVE  Inductive'
<1> DEFINE k == on[p]
<1>1. k \in Job /\ Holds(p, k)
  BY DEF Inductive, TypeOK, Holds
<1>2. \A q \in Worker \ {p} : ~Holds(q, k)
  BY <1>1 DEF Inductive, OneExecutor
<1>3. /\ WritesOne(k) /\ row'[k].status = s
      /\ row'[k].target = row[k].target /\ row'[k].attempts = row[k].attempts
  BY <1>1, StatusWritten
<1>4. /\ row[k].attempts \in Nat /\ faults \in Nat /\ MaxAttempts \in Nat
      /\ row[k].attempts <= MaxAttempts + faults
  BY <1>1, ConstantsAssumption DEF Inductive, RowInv, TypeOK, Row
<1>5. OneActivePerTarget' /\ OnePerPrep'
  BY <1>1, <1>3, KeepsTargets DEF WritesOne, Active, Executing
<1>6. Place(at, job, want[p], outer[p])
  BY <1>1, PlaceNow, OwnFields, Places DEF Place, PlaceIn, Inductive
<1>7. PlaceIn(row', at, job, want[p], outer[p])
  BY <1>1, <1>3, <1>6, PlaceKept
<1>8. outer[p] # k
  BY <1>1, ConstantsAssumption DEF Inductive, WorkerInv
<1>9. \A j \in Job : HeldAt(at, job, outer[p], j) <=> j = outer[p]
  BY Places DEF HeldAt
<1>10. ASSUME NEW j \in Job, HeldAt(at, job, outer[p], j)
       PROVE  row'[j].status \in Live /\ Holds(p, j)
  <2>1. j = outer[p] /\ j # k /\ Holds(p, j)
    BY <1>8, <1>9, <1>10 DEF Holds
  <2>2. QED
    BY <2>1, <1>3 DEF WritesOne, Inductive, HeldLive
<1>11. \A j \in Job \ {k} : Holds(p, j) => HeldAt(at, job, outer[p], j)
  BY <1>9 DEF Holds
<1>12. s = "QUEUED" => row[k].attempts < MaxAttempts + faults
  BY <1>4
<1> HIDE DEF k
<1>13. QED
  BY <1>1, <1>2, <1>3, <1>4, <1>5, <1>7, <1>10, <1>11, <1>12, WriteTo

\* processQueuedJob returns, whether its last update applied or not.
LEMMA ReturnMoves ==
  ASSUME Inductive, NEW p \in Worker, Return(p)
  PROVE  \E at \in {"idle", "wait"}, job \in {NoJob, on[p]} :
           /\ Moved(p, at, job, want[p], outer[p])
           /\ at = "idle" => outer[p] = NoJob /\ job = NoJob
           /\ at = "wait" => outer[p] # NoJob
           /\ at # "idle" => job = on[p]
<1>1. CASE outer[p] = NoJob
  <2>1. Moved(p, "idle", NoJob, want[p], outer[p])
    BY <1>1, OwnFields DEF Return, Goto, Moved, Inductive
  <2>2. QED
    BY <1>1, <2>1
<1>2. CASE outer[p] # NoJob
  <2>1. Moved(p, "wait", on[p], want[p], outer[p])
    BY <1>2, OwnFields DEF Return, Goto, Moved, Inductive
  <2>2. QED
    BY <1>2, <2>1
<1>3. QED
  BY <1>1, <1>2

LEMMA FinishStep ==
  ASSUME Inductive, NEW p \in Worker, pc[p] \in Handling,
         NEW s \in (NonTerminal \cup Terminal) \ {"RUNNING", "QUEUED"},
         FromRunning(on[p], s), Return(p)
  PROVE  Inductive'
<1>1. CASE row[on[p]].status = "RUNNING"
  <2>1. SetStatus(on[p], s) /\ faults' = faults
    BY <1>1 DEF FromRunning, Return
  <2>2. PICK at \in {"idle", "wait"}, job \in {NoJob, on[p]} :
           /\ Moved(p, at, job, want[p], outer[p])
           /\ at = "idle" => outer[p] = NoJob /\ job = NoJob
           /\ at = "wait" => outer[p] # NoJob
           /\ at # "idle" => job = on[p]
    BY ReturnMoves
  <2>3. QED
    BY <1>1, <2>1, <2>2, EndStep
<1>2. CASE row[on[p]].status # "RUNNING"
  BY <1>2, ReturnStep DEF FromRunning
<1>3. QED
  BY <1>1, <1>2

LEMMA CompleteStep ==
  ASSUME Inductive, NEW p \in Worker, (\E s \in NonTerminal \cup Terminal : Complete(p, s)) \/ Fail(p)
  PROVE  Inductive'
<1>1. ASSUME NEW s \in NonTerminal \cup Terminal, Complete(p, s)
      PROVE  Inductive'
  <2>1. pc[p] \in Handling /\ s \in (NonTerminal \cup Terminal) \ {"RUNNING", "QUEUED"}
    BY <1>1, Places DEF Complete, Results
  <2>2. QED
    BY <1>1, <2>1, FinishStep DEF Complete
<1>2. CASE Fail(p)
  <2>1. pc[p] \in Handling /\ "FAILED" \in (NonTerminal \cup Terminal) \ {"RUNNING", "QUEUED"}
    BY <1>2, Places DEF Fail, Terminal
  <2>2. QED
    BY <1>2, <2>1, FinishStep DEF Fail
<1>3. QED
  BY <1>1, <1>2

LEMMA RequeueStep ==
  ASSUME Inductive, NEW p \in Worker, Requeue(p)
  PROVE  Inductive'
<1>1. pc[p] = "requeue" /\ pc[p] \in Handling
  BY Places DEF Requeue
<1>2. CASE row[on[p]].status = "RUNNING"
  <2>1. SetStatus(on[p], "QUEUED") /\ Moved(p, "claim", on[p], want[p], outer[p]) /\ faults' = faults
    BY <1>2, OwnFields DEF Requeue, FromRunning, Stay, Goto, Moved, Inductive
  <2>2. row[on[p]].attempts < MaxAttempts
    BY <1>1 DEF Inductive, WorkerInv
  <2>3. "QUEUED" \in (NonTerminal \cup Terminal) \ {"RUNNING"}
    BY DEF NonTerminal, Active, Executing
  <2>4. QED
    BY <1>1, <1>2, <2>1, <2>2, <2>3, EndStep
<1>3. CASE row[on[p]].status # "RUNNING"
  <2>1. UNCHANGED <<row, stale>> /\ Return(p)
    BY <1>3 DEF Requeue, FromRunning
  <2>2. QED
    BY <1>1, <1>3, <2>1, ReturnStep
<1>4. QED
  BY <1>2, <1>3

LEMMA ClaimStep ==
  ASSUME Inductive, NEW p \in Worker, Claim(p)
  PROVE  Inductive'
<1> DEFINE k == on[p]
<1>1. pc[p] = "claim" /\ k \in Job
  BY DEF Claim, Inductive, TypeOK
<1>2. CASE row[k].status = "QUEUED"
  <2>1. Write(k, Claimed(row[k])) /\ Moved(p, "read", k, want[p], outer[p]) /\ faults' = faults
    BY <1>2, OwnFields DEF Claim, Stay, Goto, Moved, Inductive
  <2>2. row[k] \in Row /\ row[k].target \in Target
    BY <1>1, <1>2 DEF Inductive, TypeOK
  <2>3. /\ row' \in [Job -> Row] /\ row'[k] = Claimed(row[k])
        /\ \A i \in Job \ {k} : row'[i] = row[i]
        /\ stale' = stale \ {k}
        /\ \A i \in Job : row'[i].status # "NONE" => row'[i].target \in Target
    BY <1>1, <2>1, <2>2, ClaimedFields, Written DEF Inductive
  <2>4. /\ WritesOne(k) /\ row'[k].status = "RUNNING"
        /\ row'[k].target = row[k].target /\ row'[k].attempts = row[k].attempts + 1
    BY <2>2, <2>3, ClaimedFields DEF WritesOne
  <2>5. \A q \in Worker : ~Holds(q, k)
    BY <1>1, <1>2 DEF Inductive, HeldLive, Live
  <2>6. row'[k].attempts <= MaxAttempts + faults
    <3>1. row[k].attempts < MaxAttempts + faults
      BY <1>1, <1>2 DEF Inductive, RowInv
    <3>2. row[k].attempts \in Nat /\ faults \in Nat /\ MaxAttempts \in Nat
      BY <2>2, ConstantsAssumption DEF Inductive, TypeOK, Row
    <3>3. QED
      BY <2>4, <3>1, <3>2
  <2>7. OneActivePerTarget' /\ OnePerPrep'
    BY <1>1, <1>2, <2>4, KeepsTargets DEF WritesOne, Active, Executing
  <2>8. Place("read", k, want[p], outer[p])
    BY <1>1, PlaceNow, Places DEF Place, PlaceIn
  <2>9. PlaceIn(row', "read", k, want[p], outer[p])
    BY <1>1, <2>4, <2>8, PlaceKept
  <2>10. \A j \in Job : HeldAt("read", k, outer[p], j) <=> j = k \/ Holds(p, j)
    BY <1>1, Places DEF HeldAt, Holds
  <2>11. \A j \in Job : HeldAt("read", k, outer[p], j) => row'[j].status \in Live
    BY <2>4, <2>10 DEF WritesOne, Inductive, HeldLive, Live
  <2> HIDE DEF k
  <2>12. QED
    BY <1>1, <2>1, <2>4, <2>5, <2>6, <2>7, <2>9, <2>10, <2>11, WriteTo
<1>3. CASE row[k].status # "QUEUED"
  <2>1. Return(p) /\ UNCHANGED <<row, stale>>
    BY <1>3 DEF Claim
  <2>2. QED
    BY <1>1, <2>1, ReturnStep
<1>4. QED
  BY <1>2, <1>3

\* A row that begins again as a queued job of t.
LEMMA Begins ==
  ASSUME Inductive, NEW k \in Job, NEW t \in Target, Write(k, NewRow(t)),
         row[k].status \notin Live,
         row[k].target \in {t, NoTarget},
         ActiveOf(t) \subseteq {k}, t \in Prep => Of(t) \subseteq {k}
  PROVE  /\ WritesOne(k)
         /\ row'[k].status = "QUEUED" /\ row'[k].target = t
         /\ row'[k].attempts < MaxAttempts + faults
         /\ row'[k].attempts <= MaxAttempts + faults
         /\ \A q \in Worker : ~Holds(q, k)
         /\ OneActivePerTarget' /\ OnePerPrep'
<1>1. /\ row' \in [Job -> Row] /\ row'[k] = NewRow(t)
      /\ \A i \in Job \ {k} : row'[i] = row[i]
      /\ stale' = stale \ {k}
      /\ \A i \in Job : row'[i].status # "NONE" => row'[i].target \in Target
  BY NewRowTyped, Written DEF Inductive
<1>2. row'[k].status = "QUEUED" /\ row'[k].target = t /\ row'[k].attempts = 0
  BY <1>1, NewRowTyped
<1>3. faults \in Nat /\ MaxAttempts \in Nat \ {0}
  BY ConstantsAssumption DEF Inductive, TypeOK
<1>4. WritesOne(k)
  BY <1>1, <1>2 DEF WritesOne
<1>5. \A q \in Worker : ~Holds(q, k)
  BY DEF Inductive, HeldLive
<1>6. /\ \A u \in Target \ {t} : Of(u)' \subseteq Of(u) /\ ActiveOf(u)' \subseteq ActiveOf(u)
      /\ ActiveOf(t)' \subseteq ActiveOf(t) \cup {k} /\ Of(t)' \subseteq Of(t) \cup {k}
  BY <1>1, <1>2 DEF Of, ActiveOf
<1>7. OneActivePerTarget' /\ OnePerPrep'
  BY <1>6 DEF OneActivePerTarget, OnePerPrep, Inductive, Target
<1>8. QED
  BY <1>2, <1>3, <1>4, <1>5, <1>7

\* The invocation goes on to process a job that begins.
LEMMA BeginStep ==
  ASSUME Inductive, NEW p \in Worker, pc[p] \in {"idle", "create"},
         NEW k \in Job, NEW t \in Target, Write(k, NewRow(t)),
         row[k].status \notin Live, row[k].target \in {t, NoTarget},
         ActiveOf(t) \subseteq {k}, t \in Prep => Of(t) \subseteq {k},
         NEW w \in Source \cup {NoTarget},
         Moved(p, "claim", k, w, outer[p]), faults' = faults,
         outer[p] # NoJob => t \in Source
  PROVE  Inductive'
<1>1. /\ WritesOne(k)
      /\ row'[k].status = "QUEUED" /\ row'[k].target = t
      /\ row'[k].attempts < MaxAttempts + faults
      /\ row'[k].attempts <= MaxAttempts + faults
      /\ \A q \in Worker : ~Holds(q, k)
      /\ OneActivePerTarget' /\ OnePerPrep'
  BY Begins
<1>2. \A j \in Job : HeldAt("claim", k, outer[p], j) <=> Holds(p, j)
  BY Places DEF HeldAt, Holds
<1>3. \A j \in Job : HeldAt("claim", k, outer[p], j) => row'[j].status \in Live
  BY <1>1, <1>2 DEF WritesOne, Inductive, HeldLive
<1>4. outer[p] # NoJob => outer[p] # k /\ row'[outer[p]].target \in Prep
  BY <1>1, OwnFields DEF Inductive, WorkerInv, Holds, WritesOne
<1>5. PlaceIn(row', "claim", k, w, outer[p])
  BY <1>1, <1>4, OwnFields, Places DEF PlaceIn, Inductive
<1>6. QED
  BY <1>1, <1>2, <1>3, <1>5, WriteTo

LEMMA CreateJobStep ==
  ASSUME Inductive, NEW p \in Worker, CreateJob(p)
  PROVE  Inductive'
<1>1. PICK k \in Job : /\ row[k].status = "NONE" /\ Write(k, NewRow(want[p]))
                       /\ Enqueued(p, k, "QUEUED")
  BY DEF CreateJob
<1>2. pc[p] = "create" /\ want[p] \in Source /\ ActiveOf(want[p]) = {}
  BY Places DEF CreateJob, Inductive, TypeOK
<1>3. Moved(p, "claim", k, NoTarget, outer[p]) /\ faults' = faults
  BY <1>1, OwnFields DEF Enqueued, Goto, Moved, Inductive
<1>4. want[p] \in Target /\ want[p] \notin Prep
  BY <1>2, ConstantsAssumption DEF Target
<1>5. row[k].target = NoTarget /\ row[k].status \notin Live
  BY <1>1 DEF Inductive, RowInv, Live
<1>6. QED
  BY <1>1, <1>2, <1>3, <1>4, <1>5, BeginStep

LEMMA RetryPrepStep ==
  ASSUME Inductive, NEW p \in Worker, NEW k \in Job, RetryPrep(p, k)
  PROVE  Inductive'
<1> DEFINE t == row[k].target
<1>1. /\ pc[p] = "idle" /\ t \in Prep /\ Write(k, NewRow(t))
      /\ row[k].status \notin Live
  BY DEF RetryPrep, Live
<1>2. Moved(p, "claim", k, want[p], outer[p]) /\ faults' = faults
  BY OwnFields DEF RetryPrep, Moved, Goto, Inductive
<1>3. t \in Target /\ outer[p] = NoJob
  BY <1>1 DEF Target, Inductive, WorkerInv
<1>4. Of(t) \subseteq {k} /\ ActiveOf(t) \subseteq {k}
  BY <1>1 DEF Inductive, OnePerPrep, Of, ActiveOf
<1>5. want[p] \in Source \cup {NoTarget}
  BY OwnFields DEF Inductive
<1> HIDE DEF t
<1>6. row[k].target \in {t, NoTarget}
  BY DEF t
<1>7. QED
  BY <1>1, <1>2, <1>3, <1>4, <1>5, <1>6, BeginStep

LEMMA StartPrepStep ==
  ASSUME Inductive, NEW p \in Worker, NEW t \in Prep, StartPrep(p, t)
  PROVE  Inductive'
<1>1. PICK j \in Job :
        /\ \/ j \in Of(t) /\ row[j].status = "QUEUED" /\ UNCHANGED <<row, stale>>
           \/ Of(t) = {} /\ row[j].status = "NONE" /\ Write(j, NewRow(t))
        /\ on' = [on EXCEPT ![p] = j]
  BY DEF StartPrep
<1>2. pc[p] = "idle" /\ Moved(p, "claim", j, want[p], outer[p]) /\ faults' = faults
  BY <1>1, OwnFields DEF StartPrep, Moved, Goto, Inductive
<1>3. outer[p] = NoJob /\ want[p] \in Source \cup {NoTarget} /\ t \in Target
  BY <1>2, OwnFields DEF Inductive, WorkerInv, Target
<1>4. CASE UNCHANGED <<row, stale>>
  <2>1. Place("claim", j, want[p], outer[p])
    BY <1>3, Places DEF Place, PlaceIn
  <2>2. \A i \in Job : HeldAt("claim", j, outer[p], i) <=> Holds(p, i)
    BY <1>2, Places DEF HeldAt, Holds
  <2>3. QED
    BY <1>2, <1>4, <2>1, <2>2, WalkTo, SameFaults
<1>5. CASE Of(t) = {} /\ row[j].status = "NONE" /\ Write(j, NewRow(t))
  <2>1. row[j].target = NoTarget /\ row[j].status \notin Live
    BY <1>5 DEF Inductive, RowInv, Live
  <2>2. ActiveOf(t) = {}
    BY <1>5 DEF ActiveOf
  <2>3. QED
    BY <1>2, <1>3, <1>5, <2>1, <2>2, BeginStep
<1>6. QED
  BY <1>1, <1>4, <1>5

-----------------------------------------------------------------------------
(* Steps of nobody.                                                        *)

LEMMA TurnStaleStep ==
  ASSUME Inductive, NEW j \in Job, TurnStale(j)
  PROVE  Inductive'
<1>1. stale' = stale \cup {j} /\ UNCHANGED <<row, worker, faults>>
  BY DEF TurnStale
<1>2. TypeOK'
  BY <1>1 DEF Inductive, TypeOK, worker
<1>3. HeldLive'
  BY <1>1 DEF TurnStale, Inductive, HeldLive, Holds, worker
<1>4. OneExecutor' /\ (\A p \in Worker : WorkerInv(p)') /\ (\A i \in Job : RowInv(i)')
  BY <1>1 DEF Inductive, OneExecutor, WorkerInv, RowInv, Holds, worker
<1>5. OneActivePerTarget' /\ OnePerPrep'
  BY <1>1 DEF Inductive, OneActivePerTarget, OnePerPrep, ActiveOf, Of
<1>6. QED
  BY <1>2, <1>3, <1>4, <1>5 DEF Inductive

\* A holder of the job finds it cancelled.
LEMMA CancelStep ==
  ASSUME Inductive, NEW j \in Job, Cancel(j)
  PROVE  Inductive'
<1>1. row[j].status \in NonTerminal /\ SetStatus(j, "CANCELLED") /\ UNCHANGED <<worker, faults>>
  BY DEF Cancel
<1>2. row[j].status # "NONE" /\ "CANCELLED" \in NonTerminal \cup Terminal
  BY <1>1 DEF NonTerminal, Terminal, Active, Executing
<1>3. /\ WritesOne(j) /\ row'[j].status = "CANCELLED"
      /\ row'[j].target = row[j].target /\ row'[j].attempts = row[j].attempts
  BY <1>1, <1>2, StatusWritten
<1>4. TypeOK'
  BY <1>1, <1>3 DEF Inductive, TypeOK, worker, WritesOne
<1>5. HeldLive' /\ OneExecutor'
  BY <1>1, <1>3 DEF WritesOne, Inductive, HeldLive, OneExecutor, Holds, worker, Live
<1>6. \A i \in Job : row'[i].target = row[i].target /\ row'[i].attempts = row[i].attempts
  BY <1>3 DEF WritesOne
<1>7. ASSUME NEW p \in Worker
      PROVE  WorkerInv(p)'
  <2>1. pc[p] \in Handling \cup {"claim", "wait"} => on[p] \in Job
    BY DEF Inductive, TypeOK
  <2>2. outer[p] # NoJob => outer[p] \in Job
    BY OwnFields DEF Inductive
  <2>3. QED
    BY <1>1, <1>6, <2>1, <2>2, Places DEF Inductive, WorkerInv, worker
<1>8. \A i \in Job : RowInv(i)'
  BY <1>1, <1>3 DEF Inductive, RowInv, WritesOne, Holds, worker
<1>9. OneActivePerTarget' /\ OnePerPrep'
  BY <1>3, KeepsTargets DEF WritesOne, Active, Executing
<1>10. QED
  BY <1>4, <1>5, <1>7, <1>8, <1>9 DEF Inductive

-----------------------------------------------------------------------------

LEMMA NextInductive ==
  ASSUME Inductive, [Next]_vars
  PROVE  Inductive'
<1>1. CASE UNCHANGED vars
  BY <1>1 DEF vars, worker, Inductive, TypeOK, WorkerInv, HeldLive, OneExecutor, RowInv,
              OneActivePerTarget, OnePerPrep, ActiveOf, Of, Holds
<1>2. ASSUME NEW p \in Worker, Works(p)
      PROVE  Inductive'
  BY <1>2, FindStaleStep, ResetStaleStep, FindJobStep, CreateJobStep, CallFailsStep,
     ClaimStep, HandlerSteps, RunSourceStep, ResumeStep, CompleteStep, RequeueStep
  DEF Works, Enqueues
<1>3. ASSUME Next
      PROVE  Inductive'
  BY <1>2, <1>3, EnqueueStep, StartPrepStep, RetryPrepStep, CallFailsStep, VanishStep,
     CancelStep, TurnStaleStep
  DEF Next
<1>4. QED
  BY <1>1, <1>3

\* The inductive invariant: only a running or cancelled job is held, by one
\* invocation, and while it is held it is not stale.
THEOREM InductiveHolds == Spec => []Inductive
<1>1. Init => Inductive
  BY InitInductive
<1>2. Inductive /\ [Next]_vars => Inductive'
  BY NextInductive
<1>3. QED
  BY <1>1, <1>2, PTL DEF Spec

\* Types are kept (the rows and invocations of LocalJobQueue).
THEOREM TypeCorrect == Spec => []TypeOK
  BY InductiveHolds, PTL DEF Inductive

\* No job is executed by two invocations, however many enqueue, reset, retry and
\* cancel it (processQueuedJob).
THEOREM ExecutedOnce == Spec => []OneExecutor
  BY InductiveHolds, PTL DEF Inductive

\* A target never has two active jobs (findOrCreateQueuedExtractionJob).
THEOREM NoDuplicates == Spec => []OneActivePerTarget
  BY InductiveHolds, PTL DEF Inductive

\* Attempts are bounded by maximumAttempts and the invocations lost.
THEOREM AttemptsAreBounded == Spec => []AttemptsBounded
<1>1. ASSUME Inductive, NEW j \in Job
      PROVE  row[j].attempts <= MaxAttempts + faults
  <2>1. RowInv(j)
    BY <1>1, Zenon DEF Inductive
  <2>2. QED
    BY <2>1 DEF RowInv
<1>3. Inductive => AttemptsBounded
  BY <1>1, Zenon DEF AttemptsBounded
<1>4. QED
  BY <1>3, InductiveHolds, PTL

-----------------------------------------------------------------------------
(* What no step does to a job that ended.                                  *)

EndedKept(j) ==
  row[j].status \in Terminal =>
    \/ row'[j].status = row[j].status
    \/ row[j].status = "FAILED" /\ row[j].target \in Prep /\ row'[j].status = "QUEUED"

\* Every write is of a row that has not ended, but for the retry of a preparation.
LEMMA WriteKeepsEnded ==
  ASSUME TypeOK, NEW k \in Job, NEW new, Write(k, new),
         \/ row[k].status \notin Terminal
         \/ row[k].status = "FAILED" /\ row[k].target \in Prep /\ new.status = "QUEUED",
         NEW j \in Job
  PROVE  EndedKept(j)
  BY DEF Write, EndedKept, TypeOK

LEMMA NextKeepsEnded ==
  ASSUME TypeOK, [Next]_vars, NEW j \in Job
  PROVE  EndedKept(j)
<1>1. CASE row' = row
  BY <1>1 DEF EndedKept
<1>2. ASSUME NEW p \in Worker, NEW s, FromRunning(on[p], s), on[p] \in Job
      PROVE  EndedKept(j)
  BY <1>1, <1>2, WriteKeepsEnded DEF FromRunning, SetStatus, Terminal
<1>3. ASSUME NEW p \in Worker, Works(p)
      PROVE  EndedKept(j)
  <2>1. CASE FindStale(p) \/ FindJob(p) \/ NoIdLeft(p) \/ ReadClaimed(p) \/ RunSource(p)
               \/ SkipSource(p) \/ SourceSettled(p) \/ SourceTimeout(p) \/ Throw(p) \/ ReadFailed(p)
    BY <1>1, <2>1 DEF FindStale, FindJob, NoIdLeft, CallThrows, ReadClaimed, RunSource,
                      SkipSource, SourceSettled, SourceTimeout, Resume, Throw, ReadFailed
  <2>2. CASE ResetStale(p) \/ Requeue(p) \/ Fail(p) \/ \E s \in NonTerminal \cup Terminal : Complete(p, s)
    <3>1. on[p] \in Job
      BY <2>2, Places DEF ResetStale, Requeue, Fail, Complete, Results, TypeOK
    <3>2. row' = row \/ \E s : FromRunning(on[p], s)
      BY <2>2 DEF ResetStale, Requeue, Fail, Complete
    <3>3. QED
      BY <1>1, <1>2, <3>1, <3>2
  <2>3. CASE CreateJob(p)
    BY <2>3, WriteKeepsEnded DEF CreateJob, Terminal
  <2>4. CASE Claim(p)
    <3>1. on[p] \in Job
      BY <2>4 DEF Claim, TypeOK
    <3>2. CASE row[on[p]].status = "QUEUED"
      BY <2>4, <3>1, <3>2, WriteKeepsEnded DEF Claim, Terminal
    <3>3. CASE row[on[p]].status # "QUEUED"
      BY <1>1, <2>4, <3>3 DEF Claim
    <3>4. QED
      BY <3>2, <3>3
  <2>5. QED
    BY <1>3, <2>1, <2>2, <2>3, <2>4 DEF Works, Enqueues
<1>4. ASSUME NEW p \in Worker,
             \/ \E s \in Source : Enqueue(p, s)
             \/ CallFails(p) \/ Vanish(p)
      PROVE  EndedKept(j)
  BY <1>1, <1>4 DEF Enqueue, CallFails, CallThrows, Vanish
<1>5. ASSUME NEW p \in Worker, NEW t \in Prep, StartPrep(p, t)
      PROVE  EndedKept(j)
  BY <1>1, <1>5, WriteKeepsEnded DEF StartPrep, Terminal
<1>6. ASSUME NEW p \in Worker, NEW k \in Job, RetryPrep(p, k)
      PROVE  EndedKept(j)
  BY <1>6, WriteKeepsEnded DEF RetryPrep, Terminal, NewRow
<1>7. ASSUME NEW k \in Job, Cancel(k)
      PROVE  EndedKept(j)
  BY <1>7, WriteKeepsEnded DEF Cancel, SetStatus, NonTerminal, Active, Executing, Terminal
<1>8. ASSUME NEW k \in Job, TurnStale(k)
      PROVE  EndedKept(j)
  BY <1>1, <1>8 DEF TurnStale
<1>9. CASE UNCHANGED vars
  BY <1>1, <1>9 DEF vars
<1>10. QED
  BY <1>3, <1>4, <1>5, <1>6, <1>7, <1>8, <1>9 DEF Next

\* A job that is completed or cancelled is never written again, and a failed one only
\* by the retry of a preparation (extraction-job-repository).
THEOREM EndedJobsStay == Spec => EndedStays
<1>1. TypeOK /\ [Next]_vars => [\A j \in Job : EndedKept(j)]_vars
  BY NextKeepsEnded
<1>2. [][\A j \in Job : EndedKept(j)]_vars <=> EndedStays
  BY PTL DEF EndedStays, EndedKept
<1>3. QED
  BY <1>1, <1>2, TypeCorrect, PTL DEF Spec

-----------------------------------------------------------------------------
(* The invocations implement JobLease.  First, what a step does to one job.   *)

\* An invocation that gives its job up has spent the job's attempts.
SpentInv == \A p \in Worker : pc[p] = "fail" => row[on[p]].attempts >= MaxAttempts

Stays(j) == row'[j] = row[j] /\ (row[j].status = "RUNNING" => Hands(j)' = Hands(j))

MadeAnew(j) == row[j].status = "NONE" /\ \E t \in Target : row'[j] = NewRow(t)
TakenUp(j) ==
  /\ row[j].status = "QUEUED" /\ row'[j] = Claimed(row[j])
  /\ \E p \in Worker : Hands(j)' = {p}
LetGo(j) ==
  row[j].status = "RUNNING" /\ row'[j] = row[j] /\ Hands(j) # {} /\ Hands(j)' = {}
WonBack(j) ==
  row[j].status = "RUNNING" /\ Hands(j) = {} /\ row'[j] = WithStatus(row[j], "QUEUED")
Cancelled(j) ==
  row[j].status \in NonTerminal /\ row'[j] = WithStatus(row[j], "CANCELLED")
QueuedAgain(j) ==
  /\ row[j].status \in {"FAILED", "NEEDS_INPUT", "NEEDS_REVIEW"}
  /\ \E t \in Target : row'[j] = NewRow(t)

\* Its executor is through with it.
Through(j) ==
  /\ row[j].status = "RUNNING" /\ Hands(j) # {}
  /\ \/ \E s \in {"COMPLETED", "NEEDS_INPUT", "NEEDS_REVIEW"} : row'[j] = WithStatus(row[j], s)
     \/ row[j].attempts < MaxAttempts /\ row'[j] = WithStatus(row[j], "QUEUED")
     \/ row[j].attempts >= MaxAttempts /\ row'[j] = WithStatus(row[j], "FAILED")

Turns(j) ==
  \/ Stays(j) \/ MadeAnew(j) \/ TakenUp(j) \/ LetGo(j) \/ WonBack(j)
  \/ Cancelled(j) \/ QueuedAgain(j) \/ Through(j)

\* A step of p, for the other invocations and for the running jobs p holds.
Others(p) ==
  \A q \in Worker \ {p} : pc'[q] = pc[q] /\ on'[q] = on[q] /\ outer'[q] = outer[q]
Keeps(p, j) == row[j].status = "RUNNING" => (Holds(p, j)' <=> Holds(p, j))

LEMMA StaysPut ==
  ASSUME NEW p \in Worker, NEW j \in Job, Others(p), row'[j] = row[j], Keeps(p, j)
  PROVE  Stays(j)
<1>1. \A q \in Worker \ {p} : Holds(q, j)' <=> Holds(q, j)
  BY DEF Others, Holds
<1>2. ASSUME row[j].status = "RUNNING"
      PROVE  Hands(j)' = Hands(j)
  <2>1. \A q \in Worker : Holds(q, j)' <=> Holds(q, j)
    BY <1>1, <1>2 DEF Keeps
  <2>2. QED
    BY <2>1 DEF Hands
<1>3. QED
  BY <1>2 DEF Stays

LEMMA Free ==
  ASSUME Inductive, NEW j \in Job, row[j].status \notin Live \/ j \in stale
  PROVE  Hands(j) = {} /\ \A p \in Worker : ~Holds(p, j)
  BY DEF Inductive, HeldLive, Hands

\* Steps of an invocation that write no row and let go of no running job.
Looks(p) ==
  \/ \E s \in Source : Enqueue(p, s)
  \/ FindStale(p) \/ FindJob(p) \/ NoIdLeft(p)
  \/ ReadClaimed(p) \/ RunSource(p) \/ SkipSource(p) \/ SourceSettled(p) \/ SourceTimeout(p)
  \/ Throw(p) \/ ReadFailed(p)

LEMMA LooksTurn ==
  ASSUME Inductive, NEW p \in Worker, Looks(p), NEW j \in Job
  PROVE  Stays(j)
<1>0. TypeOK /\ WorkerInv(p) /\ NoJob \notin Job /\ Source \cap Prep = {}
  BY ConstantsAssumption DEF Inductive
<1>1. row' = row
  BY DEF Looks, Enqueue, FindStale, FindJob, NoIdLeft, CallThrows, ReadClaimed,
         RunSource, SkipSource, SourceSettled, SourceTimeout, Resume, Throw, ReadFailed
<1>2. CASE (\E s \in Source : Enqueue(p, s)) \/ FindStale(p) \/ FindJob(p)
  <2>1. Others(p)
    BY <1>0, <1>2 DEF Enqueue, FindStale, FindJob, Enqueued, Goto, Others, TypeOK
  <2>2. pc[p] \notin Handling /\ pc'[p] \notin Handling /\ outer'[p] = outer[p]
    BY <1>0, <1>2 DEF Enqueue, FindStale, FindJob, Enqueued, Goto, TypeOK, Handling
  <2>3. QED
    BY <1>1, <2>1, <2>2, StaysPut DEF Keeps, Holds
<1>3. CASE NoIdLeft(p)
  <2>1. pc[p] = "create" /\ CallThrows(p)
    BY <1>3 DEF NoIdLeft
  <2>2. Others(p)
    BY <1>0, <2>1 DEF CallThrows, Goto, Others, TypeOK
  <2>3. /\ pc'[p] = IF outer[p] = NoJob THEN "idle" ELSE "thrown"
        /\ on'[p] = outer[p] /\ outer'[p] = NoJob
    BY <1>0, <2>1 DEF CallThrows, Goto, TypeOK
  <2>4. Keeps(p, j)
    BY <1>0, <2>1, <2>3 DEF Keeps, Holds, Handling
  <2>5. QED
    BY <1>1, <2>2, <2>4, StaysPut
<1>4. CASE ReadClaimed(p)
  <2>1. Others(p)
    BY <1>0, <1>4 DEF ReadClaimed, Stay, Return, Goto, Others, TypeOK
  <2>2. pc[p] = "read" /\ outer'[p] = outer[p]
    BY <1>4 DEF ReadClaimed, Stay, Return
  <2>3. CASE row[on[p]].status = "RUNNING"
    <3>1. pc'[p] = "run" /\ on'[p] = on[p]
      BY <1>0, <1>4, <2>3 DEF ReadClaimed, Stay, Goto, TypeOK
    <3>2. QED
      BY <1>1, <2>1, <2>2, <3>1, StaysPut DEF Keeps, Holds, Handling
  <2>4. CASE row[on[p]].status # "RUNNING"
    <3>1. pc'[p] \notin Handling
      BY <1>0, <1>4, <2>4 DEF ReadClaimed, Return, Goto, TypeOK, Handling
    <3>2. QED
      BY <1>1, <2>1, <2>2, <2>4, <3>1, StaysPut DEF Keeps, Holds, Handling
  <2>5. QED
    BY <2>3, <2>4
<1>5. CASE RunSource(p)
  <2>1. Others(p)
    BY <1>0, <1>5 DEF RunSource, Goto, Others, TypeOK
  <2>2. pc[p] = "run" /\ pc'[p] = "find" /\ outer'[p] = on[p] /\ row[on[p]].target \in Prep
    BY <1>0, <1>5 DEF RunSource, Goto, TypeOK
  <2>3. outer[p] = NoJob
    BY <1>0, <2>2 DEF WorkerInv, Handling
  <2>4. QED
    BY <1>0, <1>1, <2>1, <2>2, <2>3, StaysPut DEF Keeps, Holds, Handling
<1>6. CASE SkipSource(p) \/ Throw(p) \/ (ReadFailed(p) /\ row[on[p]].status = "RUNNING")
  <2>1. Others(p) /\ on'[p] = on[p] /\ outer'[p] = outer[p]
    BY <1>0, <1>6 DEF SkipSource, Throw, ReadFailed, Stay, Goto, Others, TypeOK
  <2>2. pc[p] \in Handling /\ pc'[p] \in Handling
    BY <1>0, <1>6 DEF SkipSource, Throw, ReadFailed, Stay, Goto, Handling, TypeOK
  <2>3. QED
    BY <1>1, <2>1, <2>2, StaysPut DEF Keeps, Holds
<1>7. CASE ReadFailed(p) /\ row[on[p]].status # "RUNNING"
  <2>1. Others(p) /\ outer'[p] = outer[p] /\ pc'[p] \notin Handling
    BY <1>0, <1>7 DEF ReadFailed, Return, Goto, Others, TypeOK, Handling
  <2>2. QED
    BY <1>1, <1>7, <2>1, StaysPut DEF Keeps, Holds
<1>8. CASE SourceSettled(p) \/ SourceTimeout(p)
  <2>1. pc[p] = "wait" /\ \E at \in {"sourced", "blocked", "thrown"} : Resume(p, at)
    BY <1>8 DEF SourceSettled, SourceTimeout
  <2>2. Others(p)
    BY <1>0, <2>1 DEF Resume, Goto, Others, TypeOK
  <2>3. pc'[p] \in Handling /\ on'[p] = outer[p] /\ outer'[p] = NoJob
    BY <1>0, <2>1 DEF Resume, Goto, Handling, TypeOK
  <2>4. QED
    BY <1>0, <1>1, <2>1, <2>2, <2>3, StaysPut DEF Keeps, Holds, Handling
<1>9. QED
  BY <1>2, <1>3, <1>4, <1>5, <1>6, <1>7, <1>8 DEF Looks

Elsewhere(k) == \A i \in Job \ {k} : row'[i] = row[i]

\* A step of p that writes no row but that of k.
LEMMA NotWritten ==
  ASSUME NEW p \in Worker, NEW k \in Job, NEW j \in Job, j # k,
         Others(p), Keeps(p, j), Elsewhere(k)
  PROVE  Stays(j)
BY StaysPut DEF Elsewhere

LEMMA ResetTurn ==
  ASSUME Inductive, NEW p \in Worker, ResetStale(p), NEW j \in Job
  PROVE  Turns(j)
<1>0. TypeOK /\ on[p] \in Job
  BY Places DEF Inductive, ResetStale, TypeOK
<1>1. Others(p) /\ Keeps(p, j)
  BY <1>0 DEF ResetStale, Goto, Others, TypeOK, Keeps, Holds, Handling
<1>2. CASE on[p] \in stale /\ row[on[p]].status = "RUNNING"
  <2>1. Write(on[p], WithStatus(row[on[p]], "QUEUED"))
    BY <1>2 DEF ResetStale, FromRunning, SetStatus, WithStatus
  <2>2. CASE j = on[p]
    <3>1. row'[j] = WithStatus(row[j], "QUEUED") /\ Hands(j) = {}
      BY <1>0, <1>2, <2>1, <2>2, Free DEF Write, TypeOK
    <3>2. QED
      BY <1>2, <2>2, <3>1 DEF WonBack, Turns
  <2>3. QED
    BY <1>0, <1>1, <2>1, <2>2, NotWritten DEF Write, TypeOK, Elsewhere, Turns
<1>3. CASE ~(on[p] \in stale /\ row[on[p]].status = "RUNNING")
  <2>1. row' = row
    BY <1>3 DEF ResetStale, FromRunning
  <2>2. QED
    BY <1>1, <2>1, StaysPut DEF Turns
<1>4. QED
  BY <1>2, <1>3

LEMMA CreateTurn ==
  ASSUME Inductive, NEW p \in Worker, CreateJob(p), NEW j \in Job
  PROVE  Turns(j)
<1>0. TypeOK /\ want[p] \in Target
  BY Places DEF Inductive, CreateJob, TypeOK, Target
<1>1. PICK k \in Job : row[k].status = "NONE" /\ Write(k, NewRow(want[p]))
                       /\ Enqueued(p, k, "QUEUED")
  BY DEF CreateJob
<1>2. Others(p) /\ Keeps(p, j)
  BY <1>0, <1>1 DEF CreateJob, Enqueued, Goto, Others, TypeOK, Keeps, Holds, Handling
<1>3. CASE j = k
  BY <1>0, <1>1, <1>3 DEF Write, TypeOK, MadeAnew, Turns
<1>4. QED
  BY <1>0, <1>1, <1>2, <1>3, NotWritten DEF Write, TypeOK, Elsewhere, Turns

LEMMA StartTurn ==
  ASSUME Inductive, NEW p \in Worker, NEW t \in Prep, StartPrep(p, t), NEW j \in Job
  PROVE  Turns(j)
<1>0. TypeOK /\ t \in Target
  BY DEF Inductive, Target
<1>1. PICK k \in Job : \/ row' = row
                       \/ row[k].status = "NONE" /\ Write(k, NewRow(t))
  BY DEF StartPrep
<1>2. Others(p) /\ Keeps(p, j)
  BY <1>0 DEF StartPrep, Goto, Others, TypeOK, Keeps, Holds, Handling
<1>3. CASE row' = row
  BY <1>2, <1>3, StaysPut DEF Turns
<1>4. CASE j = k /\ row[k].status = "NONE" /\ Write(k, NewRow(t))
  BY <1>0, <1>4 DEF Write, TypeOK, MadeAnew, Turns
<1>5. QED
  BY <1>0, <1>1, <1>2, <1>3, <1>4, NotWritten DEF Write, TypeOK, Elsewhere, Turns

LEMMA RetryTurn ==
  ASSUME Inductive, NEW p \in Worker, NEW k \in Job, RetryPrep(p, k), NEW j \in Job
  PROVE  Turns(j)
<1>0. TypeOK /\ row[k].target \in Target
  BY DEF Inductive, RetryPrep, Target
<1>1. Others(p) /\ Keeps(p, j) /\ Write(k, NewRow(row[k].target))
  BY <1>0 DEF RetryPrep, Goto, Others, TypeOK, Keeps, Holds, Handling
<1>2. CASE j = k
  BY <1>0, <1>1, <1>2 DEF RetryPrep, Write, TypeOK, QueuedAgain, Turns
<1>3. QED
  BY <1>0, <1>1, <1>2, NotWritten DEF Write, TypeOK, Elsewhere, Turns

LEMMA ClaimTurn ==
  ASSUME Inductive, NEW p \in Worker, Claim(p), NEW j \in Job
  PROVE  Turns(j)
<1>0. TypeOK /\ on[p] \in Job /\ NoJob \notin Job
  BY ConstantsAssumption DEF Inductive, Claim, TypeOK
<1>1. Others(p) /\ outer'[p] = outer[p] /\ pc[p] = "claim"
  BY <1>0 DEF Claim, Stay, Return, Goto, Others, TypeOK
<1>2. CASE row[on[p]].status = "QUEUED"
  <2>1. Write(on[p], Claimed(row[on[p]])) /\ pc'[p] = "read" /\ on'[p] = on[p]
    BY <1>0, <1>2 DEF Claim, Stay, Goto, TypeOK
  <2>2. CASE j = on[p]
    <3>1. row'[j] = Claimed(row[j])
      BY <1>0, <2>1, <2>2 DEF Write, TypeOK
    <3>2. \A q \in Worker : ~Holds(q, j)
      BY <1>2, <2>2, Free DEF Live
    <3>3. \A q \in Worker : Holds(q, j)' <=> q = p
      BY <1>1, <2>1, <2>2, <3>2 DEF Others, Holds, Handling
    <3>4. Hands(j)' = {p}
      BY <3>3 DEF Hands
    <3>5. QED
      BY <1>2, <2>2, <3>1, <3>4 DEF TakenUp, Turns
  <2>3. CASE j # on[p]
    <3>1. Keeps(p, j)
      BY <1>1, <2>1, <2>3 DEF Keeps, Holds, Handling
    <3>2. QED
      BY <1>0, <1>1, <2>1, <2>3, <3>1, NotWritten DEF Write, TypeOK, Elsewhere, Turns
  <2>4. QED
    BY <2>2, <2>3
<1>3. CASE row[on[p]].status # "QUEUED"
  <2>1. row' = row /\ pc'[p] \notin Handling
    BY <1>0, <1>3 DEF Claim, Return, Goto, TypeOK, Handling
  <2>2. Keeps(p, j)
    BY <1>1, <2>1 DEF Keeps, Holds, Handling
  <2>3. QED
    BY <1>1, <2>1, <2>2, StaysPut DEF Turns
<1>4. QED
  BY <1>2, <1>3

\* An executor writes its result, puts the job back or gives it up.
LEMMA EndTurn ==
  ASSUME Inductive, SpentInv, NEW p \in Worker, NEW s, NEW j \in Job,
         \/ Complete(p, s)
         \/ Requeue(p) /\ s = "QUEUED"
         \/ Fail(p) /\ s = "FAILED"
  PROVE  Turns(j)
<1>0. TypeOK /\ WorkerInv(p) /\ NoJob \notin Job
  BY ConstantsAssumption DEF Inductive
<1>1. pc[p] \in Handling /\ on[p] \in Job /\ Holds(p, on[p])
  BY <1>0, Places DEF Complete, Requeue, Fail, Results, TypeOK, Holds
<1>2. Others(p) /\ outer'[p] = outer[p] /\ pc'[p] \notin Handling
  BY <1>0 DEF Complete, Requeue, Fail, Stay, Return, Goto, Others, TypeOK, Handling
<1>3. FromRunning(on[p], s)
  BY DEF Complete, Requeue, Fail
<1>4. CASE row[on[p]].status = "RUNNING"
  <2>1. Write(on[p], WithStatus(row[on[p]], s))
    BY <1>3, <1>4 DEF FromRunning, SetStatus, WithStatus
  <2>2. CASE j = on[p]
    <3>1. row'[j] = WithStatus(row[j], s) /\ Hands(j) # {}
      BY <1>0, <1>1, <2>1, <2>2 DEF Write, TypeOK, Hands
    <3>2. \/ s \in {"COMPLETED", "NEEDS_INPUT", "NEEDS_REVIEW"}
          \/ row[j].attempts < MaxAttempts /\ s = "QUEUED"
          \/ row[j].attempts >= MaxAttempts /\ s = "FAILED"
      BY <1>0, <2>2 DEF Complete, Results, Requeue, Fail, WorkerInv, SpentInv
    <3>3. QED
      BY <1>4, <2>2, <3>1, <3>2 DEF Through, Turns
  <2>3. CASE j # on[p]
    <3>1. Keeps(p, j)
      BY <1>2, <2>3 DEF Keeps, Holds
    <3>2. QED
      BY <1>0, <1>1, <1>2, <2>1, <2>3, <3>1, NotWritten DEF Write, TypeOK, Elsewhere, Turns
  <2>4. QED
    BY <2>2, <2>3
<1>5. CASE row[on[p]].status # "RUNNING"
  <2>1. row' = row
    BY <1>3, <1>5 DEF FromRunning
  <2>2. Keeps(p, j)
    BY <1>2, <1>5 DEF Keeps, Holds
  <2>3. QED
    BY <1>2, <2>1, <2>2, StaysPut DEF Turns
<1>6. QED
  BY <1>4, <1>5

\* An invocation that ends, or whose call throws, lets go of its job or keeps it.
LEMMA FaultTurn ==
  ASSUME Inductive, NEW p \in Worker, Vanish(p) \/ CallFails(p), NEW j \in Job
  PROVE  Turns(j)
<1>0. TypeOK /\ NoJob \notin Job
  BY ConstantsAssumption DEF Inductive
<1>1. Others(p) /\ row' = row
  BY <1>0 DEF Vanish, CallFails, CallThrows, Goto, Others, TypeOK
<1>2. Holds(p, j)' => Holds(p, j)
  BY <1>0 DEF Vanish, CallFails, CallThrows, Goto, TypeOK, Holds, Handling
<1>3. CASE row[j].status = "RUNNING" /\ Holds(p, j) /\ ~Holds(p, j)'
  <2>1. \A q \in Worker \ {p} : ~Holds(q, j)
    BY <1>3 DEF Inductive, OneExecutor
  <2>2. \A q \in Worker : ~Holds(q, j)'
    BY <1>1, <1>3, <2>1 DEF Others, Holds
  <2>3. Hands(j) # {} /\ Hands(j)' = {}
    BY <1>3, <2>2 DEF Hands
  <2>4. QED
    BY <1>1, <1>3, <2>3 DEF LetGo, Turns
<1>4. CASE ~(row[j].status = "RUNNING" /\ Holds(p, j) /\ ~Holds(p, j)')
  BY <1>1, <1>2, <1>4, StaysPut DEF Keeps, Turns
<1>5. QED
  BY <1>3, <1>4

LEMMA WorldTurn ==
  ASSUME Inductive, NEW k \in Job, Cancel(k) \/ TurnStale(k), NEW j \in Job
  PROVE  Turns(j)
<1>0. TypeOK
  BY DEF Inductive
<1>1. Hands(j)' = Hands(j)
  BY DEF Cancel, TurnStale, worker, Hands, Holds
<1>2. CASE Cancel(k) /\ j = k
  BY <1>0, <1>2 DEF Cancel, SetStatus, Write, TypeOK, WithStatus, Cancelled, Turns
<1>3. CASE ~(Cancel(k) /\ j = k)
  <2>1. row'[j] = row[j]
    BY <1>0, <1>3 DEF Cancel, SetStatus, Write, TurnStale, TypeOK
  <2>2. QED
    BY <1>1, <2>1 DEF Stays, Turns
<1>4. QED
  BY <1>2, <1>3

LEMMA StepTurns ==
  ASSUME Inductive, SpentInv, [Next]_vars, NEW j \in Job
  PROVE  Turns(j)
<1>1. CASE UNCHANGED vars
  BY <1>1 DEF vars, worker, Stays, Hands, Holds, Turns
<1>2. ASSUME NEW p \in Worker, Works(p)
      PROVE  Turns(j)
  BY <1>2, LooksTurn, ResetTurn, CreateTurn, ClaimTurn, EndTurn
  DEF Works, Enqueues, Looks, Turns
<1>3. CASE Next
  BY <1>2, <1>3, LooksTurn, StartTurn, RetryTurn, FaultTurn, WorldTurn
  DEF Next, Looks, Turns
<1>4. QED
  BY <1>1, <1>3

\* The decision to give a job up is made in ReadFailed, and the invocation keeps to it.
LEMMA GivesUp ==
  ASSUME Inductive, [Next]_vars, NEW p \in Worker, pc'[p] = "fail"
  PROVE  /\ on'[p] = on[p]
         /\ \/ pc[p] = "fail"
            \/ row' = row /\ row[on[p]].attempts >= MaxAttempts
<1>0. TypeOK
  BY DEF Inductive
<1>1. ASSUME NEW q \in Worker, Looks(q) \/ Vanish(q) \/ CallFails(q)
      PROVE  \/ pc'[p] = pc[p] /\ on'[p] = on[p]
             \/ row' = row /\ on'[p] = on[p] /\ row[on[p]].attempts >= MaxAttempts
  <2>1. CASE q = p /\ ReadFailed(p)
    <3>1. pc[p] = "thrown" /\ on[p] \in Job
      BY <1>0, <2>1, Places DEF ReadFailed, TypeOK
    <3>2. row[on[p]].attempts \in Nat /\ MaxAttempts \in Nat
      BY <1>0, <3>1, ConstantsAssumption DEF TypeOK, Row
    <3>3. CASE row[on[p]].status = "RUNNING" /\ row[on[p]].attempts >= MaxAttempts
      BY <1>0, <2>1, <3>2, <3>3 DEF ReadFailed, Stay, Goto, TypeOK
    <3>4. CASE row[on[p]].status = "RUNNING" /\ row[on[p]].attempts < MaxAttempts
      BY <1>0, <2>1, <3>2, <3>4 DEF ReadFailed, Stay, Goto, TypeOK
    <3>5. CASE row[on[p]].status # "RUNNING"
      BY <1>0, <2>1, <3>5 DEF ReadFailed, Return, Goto, TypeOK
    <3>6. QED
      BY <3>2, <3>3, <3>4, <3>5
  <2>2. CASE q = p /\ ~ReadFailed(p)
    BY <1>0, <1>1, <2>2
    DEF Looks, Enqueue, FindStale, FindJob, Enqueued, NoIdLeft, CallFails, CallThrows,
        ReadClaimed, RunSource, SkipSource, SourceSettled, SourceTimeout, Resume, Throw, Vanish,
        Stay, Return, Goto, TypeOK
  <2>3. CASE q # p
    BY <1>0, <1>1, <2>3
    DEF Looks, Enqueue, FindStale, FindJob, Enqueued, NoIdLeft, CallFails, CallThrows,
        ReadClaimed, RunSource, SkipSource, SourceSettled, SourceTimeout, Resume, Throw, Vanish,
        ReadFailed, Stay, Return, Goto, TypeOK
  <2>4. QED
    BY <2>1, <2>2, <2>3
<1>2. ASSUME NEW q \in Worker,
             \/ ResetStale(q) \/ CreateJob(q) \/ Claim(q) \/ Requeue(q) \/ Fail(q)
             \/ \E s \in NonTerminal \cup Terminal : Complete(q, s)
             \/ \E t \in Prep : StartPrep(q, t)
             \/ \E j \in Job : RetryPrep(q, j)
      PROVE  pc'[p] = pc[p] /\ on'[p] = on[p]
  BY <1>0, <1>2
  DEF ResetStale, CreateJob, Enqueued, Claim, Requeue, Fail, Complete, StartPrep, RetryPrep,
      Stay, Return, Goto, TypeOK
<1>3. ASSUME NEW j \in Job, Cancel(j) \/ TurnStale(j)
      PROVE  pc' = pc /\ on' = on
  BY <1>3 DEF Cancel, TurnStale, worker
<1>4. CASE Next
  <2>1. \/ pc'[p] = pc[p] /\ on'[p] = on[p]
        \/ row' = row /\ on'[p] = on[p] /\ row[on[p]].attempts >= MaxAttempts
    BY <1>1, <1>2, <1>3, <1>4 DEF Next, Works, Enqueues, Looks
  <2>2. QED
    BY <2>1
<1>5. CASE UNCHANGED vars
  BY <1>5 DEF vars, worker
<1>6. QED
  BY <1>4, <1>5

LEMMA TurnKeepsAttempts ==
  ASSUME TypeOK, NEW j \in Job, Turns(j), row[j].status \in Live, Hands(j) # {}
  PROVE  row'[j].attempts = row[j].attempts
<1>1. row[j] \in Row
  BY DEF TypeOK
<1>2. Stays(j) \/ LetGo(j) \/ Cancelled(j) \/ Through(j)
  BY DEF Turns, Live, MadeAnew, TakenUp, WonBack, QueuedAgain
<1>3. CASE Stays(j) \/ LetGo(j)
  BY <1>3 DEF Stays, LetGo
<1>4. CASE Cancelled(j) \/ Through(j)
  <2>1. \E s \in NonTerminal \cup Terminal : row'[j] = WithStatus(row[j], s)
    BY <1>4 DEF Cancelled, Through, NonTerminal, Terminal, Active, Executing
  <2>2. QED
    BY <1>1, <2>1, WithStatusFields
<1>5. QED
  BY <1>2, <1>3, <1>4

LEMMA SpentStep ==
  ASSUME Inductive, SpentInv, [Next]_vars
  PROVE  SpentInv'
<1>1. SUFFICES ASSUME NEW p \in Worker, pc'[p] = "fail"
               PROVE  row'[on'[p]].attempts >= MaxAttempts
  BY DEF SpentInv
<1>2. on'[p] = on[p]
  BY <1>1, GivesUp
<1>3. CASE pc[p] = "fail"
  <2>1. on[p] \in Job /\ Holds(p, on[p])
    BY <1>3, Places DEF Inductive, TypeOK, Holds
  <2>2. row[on[p]].status \in Live /\ Hands(on[p]) # {}
    BY <2>1 DEF Inductive, HeldLive, Hands
  <2>3. row'[on[p]].attempts = row[on[p]].attempts
    BY <2>1, <2>2, StepTurns, TurnKeepsAttempts DEF Inductive
  <2>4. QED
    BY <1>2, <1>3, <2>3 DEF SpentInv
<1>4. CASE row' = row /\ row[on[p]].attempts >= MaxAttempts
  BY <1>2, <1>4
<1>5. QED
  BY <1>1, <1>3, <1>4, GivesUp

\* What a lease shows of a row: r, in the hands of the invocations hands.
Shown(r, hands) ==
  Lease!State(LeaseStatus(r.status), r.attempts, IF r.status = "RUNNING" THEN hands ELSE {})

LEMMA ShownStatus ==
  /\ LeaseStatus("NONE") = "none" /\ LeaseStatus("QUEUED") = "waiting"
  /\ LeaseStatus("RUNNING") = "taken" /\ LeaseStatus("NEEDS_INPUT") = "parked"
  /\ LeaseStatus("NEEDS_REVIEW") = "parked" /\ LeaseStatus("COMPLETED") = "done"
  /\ LeaseStatus("FAILED") = "failed" /\ LeaseStatus("CANCELLED") = "cancelled"
  BY DEF LeaseStatus

LEMMA ShownFields ==
  ASSUME NEW r \in Row, NEW hands
  PROVE  /\ Shown(r, hands).status = LeaseStatus(r.status)
         /\ Shown(r, hands).takes = r.attempts
         /\ Shown(r, hands).by = IF r.status = "RUNNING" THEN hands ELSE {}
  BY DEF Shown, Lease!State

LEMMA Shows ==
  ASSUME NEW j \in Job
  PROVE  /\ Leased(j) = Shown(row[j], Hands(j))
         /\ Leased(j)' = Shown(row'[j], Hands(j)')
  BY DEF Leased, Shown, Lease!State

\* A status that nobody holds.
LEMMA ShownFree ==
  ASSUME NEW r \in Row, NEW s \in NonTerminal \cup Terminal, s # "RUNNING", NEW hands
  PROVE  Shown(WithStatus(r, s), hands) = Lease!State(LeaseStatus(s), r.attempts, {})
  BY WithStatusFields DEF Shown

LEMMA ShownNew ==
  ASSUME NEW t \in Target, NEW hands
  PROVE  Shown(NewRow(t), hands) = Lease!State("waiting", 0, {})
  BY NewRowTyped, ShownStatus DEF Shown

LEMMA TurnMoves ==
  ASSUME TypeOK, NEW j \in Job, Turns(j)
  PROVE  Leased(j)' = Leased(j) \/ Lease!Moves(Leased(j), Leased(j)')
<1> DEFINE f == Leased(j)
<1> DEFINE g == Leased(j)'
<1>0. row[j] \in Row
  BY DEF TypeOK
<1>1. /\ f = Shown(row[j], Hands(j)) /\ g = Shown(row'[j], Hands(j)')
      /\ f.status = LeaseStatus(row[j].status) /\ f.takes = row[j].attempts
      /\ f.by = IF row[j].status = "RUNNING" THEN Hands(j) ELSE {}
  BY <1>0, Shows, ShownFields
<1> HIDE DEF f, g
<1>2. ASSUME row[j].status = "RUNNING"
      PROVE  f.status = "taken" /\ f.by = Hands(j)
  BY <1>1, <1>2, ShownStatus
<1>3. CASE Stays(j)
  BY <1>1, <1>3 DEF Stays, Shown, f, g
<1>4. CASE MadeAnew(j)
  <2>1. f.status = "none"
    BY <1>1, <1>4, ShownStatus DEF MadeAnew
  <2>2. g = Lease!State("waiting", 0, {})
    BY <1>1, <1>4, ShownNew DEF MadeAnew
  <2>3. QED
    BY <2>1, <2>2 DEF Lease!Submitted, Lease!Moves, f, g
<1>5. CASE TakenUp(j)
  <2>1. f.status = "waiting"
    BY <1>1, <1>5, ShownStatus DEF TakenUp
  <2>2. PICK p \in Worker : Hands(j)' = {p}
    BY <1>5 DEF TakenUp
  <2>3. g = Lease!State("taken", f.takes + 1, {p})
    BY <1>0, <1>1, <1>5, <2>2, ClaimedFields, ShownStatus DEF TakenUp, Shown
  <2>4. QED
    BY <2>1, <2>3 DEF Lease!Taken, Lease!Moves, f, g
<1>6. CASE LetGo(j)
  <2>1. g = Lease!State("taken", f.takes, {})
    BY <1>1, <1>6, ShownStatus DEF LetGo, Shown
  <2>2. Lease!Had(f)
    BY <1>2, <1>6 DEF LetGo, Lease!Had
  <2>3. QED
    BY <2>1, <2>2 DEF Lease!Lost, Lease!Moves, f, g
<1>7. CASE WonBack(j)
  <2>1. g = Lease!State("waiting", f.takes, {})
    BY <1>0, <1>1, <1>7, ShownFree, ShownStatus
    DEF WonBack, NonTerminal, Active, Executing
  <2>2. f.status = "taken" /\ f.by = {}
    BY <1>2, <1>7 DEF WonBack
  <2>3. QED
    BY <2>1, <2>2 DEF Lease!Recovered, Lease!Moves, f, g
<1>8. CASE Cancelled(j)
  <2>1. g = Lease!State("cancelled", f.takes, {})
    BY <1>0, <1>1, <1>8, ShownFree, ShownStatus DEF Cancelled, Terminal
  <2>2. f.status \in {"waiting", "taken", "parked"}
    BY <1>1, <1>8, ShownStatus DEF Cancelled, NonTerminal, Active, Executing
  <2>3. QED
    BY <2>1, <2>2 DEF Lease!Withdrawn, Lease!Moves, f, g
<1>9. CASE QueuedAgain(j)
  <2>1. g = Lease!State("waiting", 0, {})
    BY <1>1, <1>9, ShownNew DEF QueuedAgain
  <2>2. f.status \in {"parked", "failed"}
    BY <1>1, <1>9, ShownStatus DEF QueuedAgain
  <2>3. QED
    BY <2>1, <2>2 DEF Lease!Retried, Lease!Moves, f, g
<1>10. CASE Through(j)
  <2>1. Lease!Had(f)
    BY <1>2, <1>10 DEF Through, Lease!Had
  <2>2. ASSUME NEW s \in {"COMPLETED", "NEEDS_INPUT", "NEEDS_REVIEW"},
               row'[j] = WithStatus(row[j], s)
        PROVE  Lease!Settled(f, g)
    <3>1. g = Lease!State(LeaseStatus(s), f.takes, {})
      BY <1>0, <1>1, <2>2, ShownFree DEF NonTerminal, Terminal, Active, Executing
    <3>2. LeaseStatus(s) \in {"done", "parked"}
      BY ShownStatus
    <3>3. QED
      BY <2>1, <3>1, <3>2 DEF Lease!Settled
  <2>3. ASSUME row[j].attempts < MaxAttempts, row'[j] = WithStatus(row[j], "QUEUED")
        PROVE  Lease!Returned(f, g)
    <3>1. g = Lease!State("waiting", f.takes, {})
      BY <1>0, <1>1, <2>3, ShownFree, ShownStatus DEF NonTerminal, Active, Executing
    <3>2. QED
      BY <1>1, <2>1, <2>3, <3>1 DEF Lease!Returned
  <2>4. ASSUME row[j].attempts >= MaxAttempts, row'[j] = WithStatus(row[j], "FAILED")
        PROVE  Lease!Failed(f, g)
    <3>1. g = Lease!State("failed", f.takes, {})
      BY <1>0, <1>1, <2>4, ShownFree, ShownStatus DEF Terminal
    <3>2. QED
      BY <1>1, <2>1, <2>4, <3>1 DEF Lease!Failed
  <2>5. QED
    BY <1>10, <2>2, <2>3, <2>4 DEF Through, Lease!Moves, f, g
<1>11. QED
  BY <1>3, <1>4, <1>5, <1>6, <1>7, <1>8, <1>9, <1>10 DEF Turns

LEMMA StepLeases ==
  ASSUME Inductive, SpentInv, [Next]_vars
  PROVE  [Lease!Next]_(Lease!vars)
<1>1. \A j \in Job : Leased(j)' = Leased(j) \/ Lease!Moves(Leased(j), Leased(j)')
  BY StepTurns, TurnMoves DEF Inductive
<1>2. QED
  BY <1>1 DEF Lease!Next

\* What the users of the queue see of any number of invocations that claim, await, vanish
\* and recover is what leases do: a job is ended by the one invocation that has it, and
\* failed only with its attempts spent, if its type has a handler (processQueuedJob, enqueue).
THEOREM InvocationsImplementLease == Spec => ImplementsLease
<1>1. Init => Lease!Init /\ SpentInv
  BY ShownStatus DEF Init, NoRow, Lease!Init, Lease!State, Leased, SpentInv
<1>2. Inductive /\ SpentInv /\ [Next]_vars => SpentInv'
  BY SpentStep
<1>3. Inductive /\ SpentInv /\ [Next]_vars => [Lease!Next]_(Lease!vars)
  BY StepLeases
<1>4. Spec => []SpentInv
  BY <1>1, <1>2, InductiveHolds, PTL DEF Spec
<1>5. QED
  BY <1>1, <1>3, <1>4, InductiveHolds, PTL DEF Spec, ImplementsLease, Lease!Spec
=============================================================================
