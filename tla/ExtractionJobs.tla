---------------------------- MODULE ExtractionJobs ----------------------------
(***************************************************************************)
(* The extraction queue (LocalJobQueue): jobs are rows of the database, and   *)
(* the serverless invocation that enqueues one also processes it.            *)
(*                                                                         *)
(* A source job reads one file with one engine.  A preparation drafts a BOQ   *)
(* from its sources; its handler enqueues a source job, processes it in the    *)
(* same invocation, or waits for the invocation that does.  An invocation can  *)
(* vanish at any point and leave its rows as they are.                       *)
(***************************************************************************)
EXTENDS Naturals

CONSTANTS
  Job,          \* ids of extraction jobs
  Source,       \* a file and an engine that reads it
  Prep,         \* operation hashes of autonomous preparations
  SourceOf,     \* the source each preparation reads first
  Worker,       \* invocations at work at the same time
  MaxAttempts,  \* maximumAttempts of a job
  MaxFaults,    \* bound on the invocations and enqueues that fail
  NoJob, NoTarget

Target == Source \cup Prep

ASSUME ConstantsAssumption ==
  /\ Source \cap Prep = {}
  /\ SourceOf \in [Prep -> Source]
  /\ MaxAttempts \in Nat \ {0} /\ MaxFaults \in Nat
  /\ Worker # {} /\ NoJob \notin Job /\ NoTarget \notin Target

VARIABLES
  row,      \* ExtractionJob by id
  stale,    \* running jobs whose updatedAt is older than the cutoff
  pc,       \* where each invocation is
  on,       \* the job it handles
  want,     \* the target it enqueues
  outer,    \* the preparation whose handler it is in while on a source job
  faults    \* invocations and enqueues that failed

worker == <<pc, on, want, outer>>
vars == <<row, stale, worker, faults>>

Executing == {"QUEUED", "RUNNING"}                 \* isSourceEngineExecuting
Active == Executing \cup {"NEEDS_INPUT"}            \* QUEUE_ACTIVE_EXECUTION_STATUSES
NonTerminal == Active \cup {"NEEDS_REVIEW"}         \* QUEUE_NON_TERMINAL_STATUSES
Terminal == {"COMPLETED", "FAILED", "CANCELLED"}
Row == [status: {"NONE"} \cup NonTerminal \cup Terminal,
        target: Target \cup {NoTarget}, attempts: Nat]
NoRow == [status |-> "NONE", target |-> NoTarget, attempts |-> 0]
Claimed(r) == [status |-> "RUNNING", target |-> r.target, attempts |-> r.attempts + 1]
NewRow(t) == [status |-> "QUEUED", target |-> t, attempts |-> 0]

Enqueuing == {"find", "reset", "create"}
Handling == {"read", "run", "sourced", "blocked", "thrown", "requeue", "fail"}
PC == {"idle", "claim", "wait"} \cup Enqueuing \cup Handling

\* p has claimed j and not finished with it.
Holds(p, j) == (pc[p] \in Handling /\ on[p] = j) \/ outer[p] = j

TypeOK ==
  /\ row \in [Job -> Row]
  /\ stale \subseteq Job
  /\ pc \in [Worker -> PC]
  /\ on \in [Worker -> Job \cup {NoJob}]
  /\ want \in [Worker -> Source \cup {NoTarget}]
  /\ outer \in [Worker -> Job \cup {NoJob}]
  /\ faults \in 0..MaxFaults
  /\ \A p \in Worker : pc[p] \in Handling \cup {"claim", "wait", "reset"} => on[p] \in Job
  /\ \A p \in Worker : pc[p] \in Enqueuing => want[p] \in Source
  /\ \A j \in Job : row[j].status # "NONE" => row[j].target \in Target

Of(t) == {j \in Job : row[j].target = t}
Goto(p, at) == pc' = [pc EXCEPT ![p] = at]

\* The row of j is written, and with it its updatedAt.
Write(j, new) ==
  /\ row' = [row EXCEPT ![j] = new]
  /\ stale' = stale \ {j}

SetStatus(j, s) == Write(j, [row[j] EXCEPT !.status = s])

\* A conditional update: from RUNNING or not at all.
FromRunning(j, s) ==
  IF row[j].status = "RUNNING" THEN SetStatus(j, s) ELSE UNCHANGED <<row, stale>>

-----------------------------------------------------------------------------
(* enqueue                                                                 *)

\* A request, or the TAYQAN order that needs the source, enqueues it.
Enqueue(p, s) ==
  /\ pc[p] = "idle"
  /\ Goto(p, "find")
  /\ want' = [want EXCEPT ![p] = s]
  /\ UNCHANGED <<row, stale, on, outer, faults>>

StaleOf(s) == {j \in Of(s) : row[j].status = "RUNNING" /\ j \in stale}

FindStale(p) ==
  /\ pc[p] = "find"
  /\ \/ \E j \in StaleOf(want[p]) : on' = [on EXCEPT ![p] = j] /\ Goto(p, "reset")
     \/ StaleOf(want[p]) = {} /\ Goto(p, "create") /\ UNCHANGED on
  /\ UNCHANGED <<row, stale, want, outer, faults>>

\* WRONG ResetStale: trusts the read that found the job stale.
ResetFound(p) ==
  /\ pc[p] = "reset"
  /\ FromRunning(on[p], "QUEUED")
  /\ Goto(p, "create")
  /\ UNCHANGED <<on, want, outer, faults>>

\* resetExtractionJobToQueued checks again that the job is stale.
ResetStale(p) ==
  /\ pc[p] = "reset"
  /\ IF on[p] \in stale THEN FromRunning(on[p], "QUEUED") ELSE UNCHANGED <<row, stale>>
  /\ Goto(p, "create")
  /\ UNCHANGED <<on, want, outer, faults>>

\* What enqueue returns: a queued job is processed next, another one is left to its
\* invocation, and awaited if a preparation needs it.
Enqueued(p, j, s) ==
  /\ on' = [on EXCEPT ![p] = IF s = "QUEUED" \/ outer[p] # NoJob THEN j ELSE NoJob]
  /\ Goto(p, IF s = "QUEUED" THEN "claim" ELSE IF outer[p] # NoJob THEN "wait" ELSE "idle")
  /\ want' = [want EXCEPT ![p] = NoTarget]
  /\ UNCHANGED <<outer, faults>>

ActiveOf(t) == {j \in Of(t) : row[j].status \in Active}

\* WRONG FindJob: processes only the jobs it creates.
FindJobAndLeaveIt(p) ==
  /\ pc[p] = "create"
  /\ \E j \in ActiveOf(want[p]) : Enqueued(p, j, "RUNNING")
  /\ UNCHANGED <<row, stale>>

\* findOrCreateQueuedExtractionJob, one serializable transaction.
FindJob(p) ==
  /\ pc[p] = "create"
  /\ \E j \in ActiveOf(want[p]) : Enqueued(p, j, row[j].status)
  /\ UNCHANGED <<row, stale>>

\* WRONG CreateJob: only a running job stops a new one.
CreateUnlessRunning(p) ==
  /\ pc[p] = "create"
  /\ \A j \in Of(want[p]) : row[j].status # "RUNNING"
  /\ \E j \in Job : row[j].status = "NONE" /\ Write(j, NewRow(want[p])) /\ Enqueued(p, j, "QUEUED")

CreateJob(p) ==
  /\ pc[p] = "create"
  /\ ActiveOf(want[p]) = {}
  /\ \E j \in Job : row[j].status = "NONE" /\ Write(j, NewRow(want[p])) /\ Enqueued(p, j, "QUEUED")

\* A call throws: out of the invocation, or into the preparation's handler that made it.
CallThrows(p) ==
  /\ on' = [on EXCEPT ![p] = outer[p]]
  /\ outer' = [outer EXCEPT ![p] = NoJob]
  /\ want' = [want EXCEPT ![p] = NoTarget]
  /\ Goto(p, IF outer[p] = NoJob THEN "idle" ELSE "thrown")
  /\ UNCHANGED <<row, stale>>

\* The file is archived or gone, the transaction fails five times, or any query outside
\* a handler throws; what the call has written stays, a source job it claimed too.
CallFails(p) ==
  /\ pc[p] \notin {"idle", "run", "sourced", "blocked"}
  /\ faults < MaxFaults /\ faults' = faults + 1
  /\ CallThrows(p)

\* The bound on the jobs that are ever created.
NoIdLeft(p) ==
  /\ pc[p] = "create"
  /\ ActiveOf(want[p]) = {} /\ \A j \in Job : row[j].status # "NONE"
  /\ CallThrows(p)
  /\ UNCHANGED faults

-----------------------------------------------------------------------------
(* Starting and retrying a preparation, which do not go through enqueue.     *)

\* start: findOrCreateAutonomousPreparationJob, whatever the status of the job it
\* finds; a queued one is processed.
StartPrep(p, t) ==
  /\ pc[p] = "idle"
  /\ \E j \in Job :
       /\ \/ j \in Of(t) /\ row[j].status = "QUEUED" /\ UNCHANGED <<row, stale>>
          \/ Of(t) = {} /\ row[j].status = "NONE" /\ Write(j, NewRow(t))
       /\ on' = [on EXCEPT ![p] = j]
  /\ Goto(p, "claim")
  /\ UNCHANGED <<want, outer, faults>>

RetryPrep(p, j) ==
  /\ pc[p] = "idle"
  /\ row[j].target \in Prep
  /\ row[j].status \in {"FAILED", "NEEDS_INPUT", "NEEDS_REVIEW"}
  /\ Write(j, NewRow(row[j].target))
  /\ on' = [on EXCEPT ![p] = j]
  /\ Goto(p, "claim")
  /\ UNCHANGED <<want, outer, faults>>

-----------------------------------------------------------------------------
(* processQueuedJob                                                        *)

\* It returns: to its caller, or to the preparation that awaits the job.
Return(p) ==
  /\ Goto(p, IF outer[p] = NoJob THEN "idle" ELSE "wait")
  /\ on' = [on EXCEPT ![p] = IF outer[p] = NoJob THEN NoJob ELSE @]
  /\ UNCHANGED <<want, outer, faults>>

Stay(p, at) == Goto(p, at) /\ UNCHANGED <<on, want, outer, faults>>

\* WRONG Claim: reads the status, then updates by id.
ClaimUnfinished(p) ==
  /\ pc[p] = "claim"
  /\ IF row[on[p]].status \in Executing
       THEN /\ Write(on[p], Claimed(row[on[p]]))
            /\ Stay(p, "read")
       ELSE Return(p) /\ UNCHANGED <<row, stale>>

Claim(p) ==
  /\ pc[p] = "claim"
  /\ IF row[on[p]].status = "QUEUED"
       THEN /\ Write(on[p], Claimed(row[on[p]]))
            /\ Stay(p, "read")
       ELSE Return(p) /\ UNCHANGED <<row, stale>>

\* The claim's second query, which finds nothing if the job was cancelled.
ReadClaimed(p) ==
  /\ pc[p] = "read"
  /\ IF row[on[p]].status = "RUNNING" THEN Stay(p, "run") ELSE Return(p)
  /\ UNCHANGED <<row, stale>>

\* A preparation's handler checkpoints, and runs the engine of its source first.
RunSource(p) ==
  LET t == row[on[p]].target IN
  /\ pc[p] = "run" /\ t \in Prep
  /\ row[on[p]].status = "RUNNING"
  /\ outer' = [outer EXCEPT ![p] = on[p]]
  /\ on' = [on EXCEPT ![p] = NoJob]
  /\ want' = [want EXCEPT ![p] = SourceOf[t]]
  /\ Goto(p, "find")
  /\ UNCHANGED <<row, stale, faults>>

\* Its source was read before, or is missing or of no use.
SkipSource(p) ==
  /\ pc[p] = "run" /\ row[on[p]].target \in Prep
  /\ \E at \in {"sourced", "blocked"} : Stay(p, at)
  /\ UNCHANGED <<row, stale>>

\* WRONG Resume: loses the preparation.
ResumeNothing(p, at) ==
  /\ outer' = [outer EXCEPT ![p] = NoJob]
  /\ on' = [on EXCEPT ![p] = NoJob]
  /\ Goto(p, at)
  /\ UNCHANGED <<row, stale, want, faults>>

\* The preparation's handler goes on after its source.
Resume(p, at) ==
  /\ on' = [on EXCEPT ![p] = outer[p]]
  /\ outer' = [outer EXCEPT ![p] = NoJob]
  /\ Goto(p, at)
  /\ UNCHANGED <<row, stale, want, faults>>

\* waitForSourceEngineResult; any engine that failed leaves an exception.
SourceSettled(p) ==
  /\ pc[p] = "wait"
  /\ row[on[p]].status \notin Executing
  /\ \/ row[on[p]].status # "FAILED" /\ Resume(p, "sourced")
     \/ row[on[p]].status # "COMPLETED" /\ Resume(p, "blocked")

SourceTimeout(p) ==
  /\ pc[p] = "wait"
  /\ row[on[p]].status \in Executing
  /\ Resume(p, "thrown")

Results(p) ==
  CASE pc[p] = "run" /\ row[on[p]].target \in Source -> {"COMPLETED", "NEEDS_REVIEW"}
    [] pc[p] = "sourced" -> {"COMPLETED", "NEEDS_REVIEW"}
    [] pc[p] = "blocked" -> {"NEEDS_INPUT"}
    [] OTHER -> {}

\* WRONG Complete: the result is written by id.
CompleteById(p, s) ==
  /\ s \in Results(p)
  /\ SetStatus(on[p], s)
  /\ Return(p)

Complete(p, s) ==
  /\ s \in Results(p)
  /\ FromRunning(on[p], s)
  /\ Return(p)

\* The handler throws, also when it finds the job cancelled, or its result is not written.
Throw(p) ==
  /\ pc[p] \in {"run", "sourced", "blocked"}
  /\ Stay(p, "thrown")
  /\ UNCHANGED <<row, stale>>

\* WRONG ReadFailed: retries for as long as the handler throws.
ReadFailedAlwaysRetry(p) ==
  /\ pc[p] = "thrown"
  /\ IF row[on[p]].status # "RUNNING" THEN Return(p) ELSE Stay(p, "requeue")
  /\ UNCHANGED <<row, stale>>

\* WRONG ReadFailed: counts the attempt that failed twice.
ReadFailedTooSoon(p) ==
  /\ pc[p] = "thrown"
  /\ IF row[on[p]].status # "RUNNING" THEN Return(p)
     ELSE Stay(p, IF row[on[p]].attempts + 1 < MaxAttempts THEN "requeue" ELSE "fail")
  /\ UNCHANGED <<row, stale>>

ReadFailed(p) ==
  /\ pc[p] = "thrown"
  /\ IF row[on[p]].status # "RUNNING" THEN Return(p)
     ELSE Stay(p, IF row[on[p]].attempts < MaxAttempts THEN "requeue" ELSE "fail")
  /\ UNCHANGED <<row, stale>>

Requeue(p) ==
  /\ pc[p] = "requeue"
  /\ FromRunning(on[p], "QUEUED")
  /\ IF row[on[p]].status = "RUNNING" THEN Stay(p, "claim") ELSE Return(p)

Fail(p) ==
  /\ pc[p] = "fail"
  /\ FromRunning(on[p], "FAILED")
  /\ Return(p)

-----------------------------------------------------------------------------
(* Users, time and failures.                                               *)

Cancel(j) ==
  /\ row[j].status \in NonTerminal
  /\ SetStatus(j, "CANCELLED")
  /\ UNCHANGED <<worker, faults>>

\* The invocation is ended by the platform.
Vanish(p) ==
  /\ pc[p] # "idle" /\ faults < MaxFaults
  /\ Goto(p, "idle")
  /\ on' = [on EXCEPT ![p] = NoJob]
  /\ want' = [want EXCEPT ![p] = NoTarget]
  /\ outer' = [outer EXCEPT ![p] = NoJob]
  /\ faults' = faults + 1
  /\ UNCHANGED <<row, stale>>

\* STALE_RUNNING_CUTOFF_MS passes without a write.  It is twice the longest an
\* invocation may take, so the one that claimed the job is gone.
TurnStale(j) ==
  /\ row[j].status = "RUNNING"
  /\ \A p \in Worker : ~Holds(p, j)
  /\ j \notin stale
  /\ stale' = stale \cup {j}
  /\ UNCHANGED <<row, worker, faults>>

-----------------------------------------------------------------------------

Init ==
  /\ row = [j \in Job |-> NoRow]
  /\ stale = {}
  /\ pc = [p \in Worker |-> "idle"]
  /\ on = [p \in Worker |-> NoJob]
  /\ want = [p \in Worker |-> NoTarget]
  /\ outer = [p \in Worker |-> NoJob]
  /\ faults = 0

Enqueues(p) == FindStale(p) \/ ResetStale(p) \/ FindJob(p) \/ CreateJob(p) \/ NoIdLeft(p)

Works(p) ==
  \/ Enqueues(p)
  \/ Claim(p) \/ ReadClaimed(p)
  \/ RunSource(p) \/ SkipSource(p) \/ SourceSettled(p) \/ SourceTimeout(p)
  \/ \E s \in NonTerminal \cup Terminal : Complete(p, s)
  \/ Throw(p) \/ ReadFailed(p) \/ Requeue(p) \/ Fail(p)

Next ==
  \/ \E p \in Worker :
       \/ \E s \in Source : Enqueue(p, s)
       \/ \E t \in Prep : StartPrep(p, t)
       \/ \E j \in Job : RetryPrep(p, j)
       \/ Works(p)
       \/ CallFails(p) \/ Vanish(p)
  \/ \E j \in Job : Cancel(j) \/ TurnStale(j)

Spec == Init /\ [][Next]_vars

Pending(t) == \E j \in Of(t) : row[j].status \in Executing

\* An invocation goes on, time passes, and whoever waits for a source or a
\* preparation that is not done asks for it again.
FairSpec ==
  /\ Spec
  /\ \A p \in Worker : WF_vars(Works(p))
  /\ \A j \in Job : WF_vars(TurnStale(j))
  /\ \A s \in Source : SF_vars(\E p \in Worker : Pending(s) /\ Enqueue(p, s))
  /\ \A t \in Prep : SF_vars(\E p \in Worker : StartPrep(p, t))
  /\ \A j \in Job : SF_vars(\E p \in Worker : RetryPrep(p, j))

-----------------------------------------------------------------------------

\* A job is never executed by two invocations at once: whoever finds it queued, or
\* finds it stale and resets it, and whatever they do in between (processQueuedJob,
\* recoverStaleRunningExtractionJobForTarget).
OneExecutor ==
  \A p, q \in Worker, j \in Job : Holds(p, j) /\ Holds(q, j) => p = q

\* A target has at most one job that is queued, running or waiting for input, also
\* when preparations that ended are queued again (findOrCreateQueuedExtractionJob).
OneActivePerTarget ==
  \A t \in Target : \A i, j \in ActiveOf(t) : i = j

\* maximumAttempts bounds how often a handler is run, except that each invocation
\* that was lost may cost one more: a reset queues the job whatever its attempts.
AttemptsBounded ==
  \A j \in Job : row[j].attempts <= MaxAttempts + faults

\* A job that is completed or cancelled stays so, and a failed one unless it is a
\* preparation that is retried: no late result, retry or recovery overwrites it
\* (the conditional updates of extraction-job-repository).
EndedStays ==
  [][\A j \in Job : row[j].status \in Terminal =>
       \/ row'[j].status = row[j].status
       \/ row[j].status = "FAILED" /\ row[j].target \in Prep /\ row'[j].status = "QUEUED"]_vars

\* A source that someone still waits for is read, given up or cancelled in the end,
\* though invocations are lost with its job (recovery in enqueue).
SourceSettles ==
  \A s \in Source : Pending(s) ~> ~Pending(s)

\* A preparation that was started does not stay running for ever: recovery is said
\* to occur in enqueue, and the job to be safely resumed.
PreparationSettles ==
  \A t \in Prep : Pending(t) ~> ~Pending(t)

-----------------------------------------------------------------------------
(* The queue's users see leases: what an invocation reads, when it vanishes and who  *)
(* recovers what it left does not show.                                       *)

Hands(j) == {p \in Worker : Holds(p, j)}

LeaseStatus(s) ==
  CASE s = "NONE" -> "none"
    [] s = "QUEUED" -> "waiting"
    [] s = "RUNNING" -> "taken"
    [] s \in {"NEEDS_INPUT", "NEEDS_REVIEW"} -> "parked"
    [] s = "COMPLETED" -> "done"
    [] s = "FAILED" -> "failed"
    [] s = "CANCELLED" -> "cancelled"

Leased(j) ==
  [status |-> LeaseStatus(row[j].status), takes |-> row[j].attempts,
   by |-> IF row[j].status = "RUNNING" THEN Hands(j) ELSE {}]

Lease == INSTANCE JobLease WITH MaxTakes <- MaxAttempts, job <- [j \in Job |-> Leased(j)]

\* Every behaviour of the invocations is one of the leases: only the invocation that has
\* a job ends it, others put it back only when that one is gone, and it is FAILED only
\* with its attempts spent (processQueuedJob, resetExtractionJobToQueued).  It speaks of
\* job types with a handler, which every type the services enqueue has.
ImplementsLease == Lease!Spec
=============================================================================
