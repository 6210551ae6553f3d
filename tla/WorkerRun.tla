------------------------------ MODULE WorkerRun ------------------------------
(***************************************************************************)
(* Durable BOQ review runs: rows of a table that drain invocations claim    *)
(* under a lease, review, link, plan and complete, or hand back for a      *)
(* retry.  Invocations crash, stall past their lease, and run at the same   *)
(* time; only the database rows are shared.                                *)
(*                                                                         *)
(* Every statement that writes a run locks its row first, so a transaction  *)
(* is one step, except where the code reads the row without locking it and  *)
(* writes it later by id alone (completeWorkerRun, settleFailedAttempt).    *)
(***************************************************************************)
EXTENDS Naturals, Sequences, FiniteSets

CONSTANTS
  Run,          \* idempotency keys: the unique index makes each one run
  Runner,       \* drain invocations
  Name,         \* runner identities
  NameOf,       \* the identity each invocation was given
  MaxAttempts,  \* WorkerRun.maximumAttempts
  MaxVersion,   \* bound: versions of the BOQ under review
  Mode,         \* the planner modes in use
  Nobody, NoOrigin, NoRun

Deterministic == "DETERMINISTIC_ONLY"
Bounded == "BOUNDED_AI"

ASSUME ConstantsAssumption ==
  /\ MaxAttempts \in Nat \ {0} /\ MaxVersion \in Nat \ {0}
  /\ NameOf \in [Runner -> Name] /\ Nobody \notin Name
  /\ Mode \subseteq {Deterministic, Bounded} /\ NoRun \notin Run
  /\ IsFiniteSet(Runner)
  /\ NoOrigin \notin [version: 1..MaxVersion, mode: Mode]

VARIABLES
  boqVersion,   \* BOQ.version of the BOQ under review
  origin,       \* what a run was enqueued with; never updated
  run,          \* the mutable columns of WorkerRun
  journal,      \* WorkerRunEvent by sequenceNumber
  assignment,   \* the BOQ version of WorkerAssignment run.id, 0 for none
  plan,         \* a WorkerAIPlan exists
  pc, held,     \* where each invocation is, and the run it claimed
  attemptSeen   \* the attempts it read when it settles a failure

rows == <<origin, run, journal, assignment, plan>>
vars == <<boqVersion, rows, pc, held, attemptSeen>>

Event == {"RUN_ENQUEUED", "LEASE_ACQUIRED", "DETERMINISTIC_REVIEW_LINKED",
          "AI_PLANNER_SKIPPED", "AI_PLAN_RECORDED", "RETRY_SCHEDULED",
          "RUN_COMPLETED", "RUN_FAILED"}

Terminal == {"COMPLETED", "FAILED"}
Status == {"NONE", "QUEUED", "RUNNING"} \cup Terminal

\* expired: leaseExpiresAt <= now; available: availableAt <= now;
\* linked: resultAssignmentId is set (it can only be the run's own id).
Row == [status: Status, attempts: 0..MaxAttempts, owner: Name \cup {Nobody},
        expired: BOOLEAN, available: BOOLEAN, linked: BOOLEAN]

PC == {"idle", "review", "link", "plan", "planning", "complete", "completing",
       "settle", "settling"}

TypeOK ==
  /\ boqVersion \in 1..MaxVersion
  /\ origin \in [Run -> [version: 1..MaxVersion, mode: Mode] \cup {NoOrigin}]
  /\ run \in [Run -> Row]
  /\ journal \in [Run -> Seq(Event)]
  /\ assignment \in [Run -> 0..MaxVersion]
  /\ plan \in [Run -> BOOLEAN]
  /\ pc \in [Runner -> PC]
  /\ held \in [Runner -> Run \cup {NoRun}]
  /\ attemptSeen \in [Runner -> 0..MaxAttempts]

-----------------------------------------------------------------------------

\* appendRunEvent and appendRunEventOnce, on one run's journal.
Logged(j, e) == Append(j, e)
Occurs(j, e) == \E i \in DOMAIN j : j[i] = e
\* WRONG LoggedOnce: logs the repeat too.
LoggedAgain(j, e) == Logged(j, e)

LoggedOnce(j, e) == IF Occurs(j, e) THEN j ELSE Logged(j, e)

Unleased(row, s) == [row EXCEPT !.status = s, !.owner = Nobody, !.expired = FALSE]

\* The lease predicate: RUNNING, owned by this invocation's identity, not expired.
HoldsLease(p) ==
  LET row == run[held[p]] IN
  row.status = "RUNNING" /\ row.owner = NameOf[p] /\ ~row.expired

Goto(p, at) == pc' = [pc EXCEPT ![p] = at]

\* The invocation is through with the run; its drain loop claims another.
Release(p) ==
  /\ Goto(p, "idle")
  /\ held' = [held EXCEPT ![p] = NoRun]
  /\ attemptSeen' = [attemptSeen EXCEPT ![p] = 0]

-----------------------------------------------------------------------------
(* The world around the rows: editors of the BOQ, and time.                *)

EditBoq ==
  /\ boqVersion < MaxVersion
  /\ boqVersion' = boqVersion + 1
  /\ UNCHANGED <<rows, pc, held, attemptSeen>>

LeaseExpires(r) ==
  /\ run[r].status = "RUNNING" /\ ~run[r].expired
  /\ run' = [run EXCEPT ![r].expired = TRUE]
  /\ UNCHANGED <<boqVersion, origin, journal, assignment, plan, pc, held, attemptSeen>>

BackoffPasses(r) ==
  /\ run[r].status = "QUEUED" /\ ~run[r].available
  /\ run' = [run EXCEPT ![r].available = TRUE]
  /\ UNCHANGED <<boqVersion, origin, journal, assignment, plan, pc, held, attemptSeen>>

\* enqueueWorkerReview's transaction, with the BOQ version v read before it.  A
\* request whose key has a run already, found by the first query or by the
\* unique index, changes nothing.
Enqueue(r, v, m) ==
  /\ origin[r] = NoOrigin
  /\ origin' = [origin EXCEPT ![r] = [version |-> v, mode |-> m]]
  /\ run' = [run EXCEPT ![r].status = "QUEUED"]
  /\ journal' = [journal EXCEPT ![r] = Logged(@, "RUN_ENQUEUED")]
  /\ UNCHANGED <<boqVersion, assignment, plan, pc, held, attemptSeen>>

-----------------------------------------------------------------------------
(* A drain invocation.                                                     *)

\* WRONG Exhausted: one attempt too late.
ExhaustedBeyond ==
  {r \in Run : /\ run[r].status = "RUNNING" /\ run[r].expired
               /\ run[r].attempts > MaxAttempts}

\* WRONG Exhausted: gives up whatever run has lost its lease.
ExhaustedByOneLease == {r \in Run : run[r].status = "RUNNING" /\ run[r].expired}

Exhausted ==
  {r \in Run : /\ run[r].status = "RUNNING" /\ run[r].expired
               /\ run[r].attempts >= MaxAttempts}

\* WRONG Claimable: forgets the limit.
ClaimableForever ==
  {r \in Run : \/ run[r].status = "QUEUED" /\ run[r].available
               \/ run[r].status = "RUNNING" /\ run[r].expired}

Claimable ==
  {r \in Run : /\ \/ run[r].status = "QUEUED" /\ run[r].available
                  \/ run[r].status = "RUNNING" /\ run[r].expired
               /\ run[r].attempts < MaxAttempts}

Leased(row, name) ==
  [row EXCEPT !.status = "RUNNING", !.attempts = @ + 1, !.owner = name,
              !.expired = FALSE]

\* claimNextWorkerRun: reapExpiredExhaustedRuns fails some exhausted runs (SKIP
\* LOCKED passes over rows other transactions hold), then at most one run is
\* claimed.  The claim's order by availableAt is left open.
ClaimNext(p) ==
  /\ pc[p] = "idle"
  /\ \E reaped \in SUBSET Exhausted, claimed \in {{}} \cup {{r} : r \in Claimable} :
       /\ reaped \cup claimed # {}
       /\ run' = [r \in Run |->
            IF r \in reaped THEN Unleased(run[r], "FAILED")
            ELSE IF r \in claimed THEN Leased(run[r], NameOf[p]) ELSE run[r]]
       /\ journal' = [r \in Run |->
            IF r \in reaped THEN Logged(journal[r], "RUN_FAILED")
            ELSE IF r \in claimed THEN Logged(journal[r], "LEASE_ACQUIRED")
            ELSE journal[r]]
       /\ IF claimed = {} THEN UNCHANGED <<pc, held>>
          ELSE /\ Goto(p, "review")
               /\ \E r \in claimed : held' = [held EXCEPT ![p] = r]
  /\ UNCHANGED <<boqVersion, origin, assignment, plan, attemptSeen>>

\* reviewExistingBOQ, the assignment exists: returned without a lease check.
ReviewFound(p) ==
  /\ pc[p] = "review"
  /\ assignment[held[p]] # 0
  /\ Goto(p, "link")
  /\ UNCHANGED <<boqVersion, rows, held, attemptSeen>>

\* WRONG ReviewCreate: reviews the BOQ as it is by now.
ReviewCreateCurrent(p) ==
  LET r == held[p] IN
  /\ pc[p] = "review"
  /\ assignment[r] = 0
  /\ HoldsLease(p)
  /\ assignment' = [assignment EXCEPT ![r] = boqVersion]
  /\ Goto(p, "link")
  /\ UNCHANGED <<boqVersion, origin, run, journal, plan, held, attemptSeen>>

\* reviewExistingBOQ, its transaction: of the version enqueued or not at all.
ReviewCreate(p) ==
  LET r == held[p] IN
  /\ pc[p] = "review"
  /\ assignment[r] = 0
  /\ HoldsLease(p)
  /\ boqVersion = origin[r].version
  /\ assignment' = [assignment EXCEPT ![r] = boqVersion]
  /\ Goto(p, "link")
  /\ UNCHANGED <<boqVersion, origin, run, journal, plan, held, attemptSeen>>

\* linkDeterministicAssignment.
Link(p) ==
  LET r == held[p]
      linkedOnce == LoggedOnce(journal[r], "DETERMINISTIC_REVIEW_LINKED") IN
  /\ pc[p] = "link"
  /\ HoldsLease(p)
  /\ run' = [run EXCEPT ![r].linked = TRUE]
  /\ journal' = [journal EXCEPT ![r] =
       IF origin[r].mode = Deterministic
       THEN LoggedOnce(linkedOnce, "AI_PLANNER_SKIPPED") ELSE linkedOnce]
  /\ Goto(p, IF origin[r].mode = Bounded THEN "plan" ELSE "complete")
  /\ UNCHANGED <<boqVersion, origin, assignment, plan, held, attemptSeen>>

\* persistAIPlan, a plan exists: returned without a lease check.
PlanFound(p) ==
  /\ pc[p] = "plan"
  /\ plan[held[p]]
  /\ Goto(p, "complete")
  /\ UNCHANGED <<boqVersion, rows, held, attemptSeen>>

\* persistAIPlan: heartbeatWorkerRun renews a lease that has not expired (the
\* renewed lease is one that has not expired), then the planner is called.
Heartbeat(p) ==
  /\ pc[p] = "plan"
  /\ ~plan[held[p]]
  /\ HoldsLease(p)
  /\ Goto(p, "planning")
  /\ UNCHANGED <<boqVersion, rows, held, attemptSeen>>

\* persistAIPlan's transaction, once the planner has answered.
PersistPlan(p) ==
  LET r == held[p] IN
  /\ pc[p] = "planning"
  /\ HoldsLease(p)
  /\ plan' = [plan EXCEPT ![r] = TRUE]
  /\ journal' = [journal EXCEPT ![r] =
       IF plan[r] THEN @ ELSE LoggedOnce(@, "AI_PLAN_RECORDED")]
  /\ Goto(p, "complete")
  /\ UNCHANGED <<boqVersion, origin, run, assignment, held, attemptSeen>>

\* completeWorkerRun reads the row...
CompleteCheck(p) ==
  /\ pc[p] = "complete"
  /\ HoldsLease(p)
  /\ Goto(p, "completing")
  /\ UNCHANGED <<boqVersion, rows, held, attemptSeen>>

\* WRONG CompleteWrite: no trigger looks at the status the row has by now.
CompleteWriteAnyStatus(p) ==
  LET r == held[p] IN
  /\ pc[p] = "completing"
  /\ origin[r].mode = Bounded => plan[r]
  /\ run' = [run EXCEPT ![r] = [Unleased(@, "COMPLETED") EXCEPT !.linked = TRUE]]
  /\ journal' = [journal EXCEPT ![r] = Logged(@, "RUN_COMPLETED")]
  /\ Release(p)
  /\ UNCHANGED <<boqVersion, origin, assignment, plan>>

\* ...and writes it by id.  The row's trigger allows COMPLETED after RUNNING
\* only, and a planner run only with a plan.
CompleteWrite(p) ==
  LET r == held[p] IN
  /\ pc[p] = "completing"
  /\ run[r].status = "RUNNING"
  /\ origin[r].mode = Bounded => plan[r]
  /\ run' = [run EXCEPT ![r] = [Unleased(@, "COMPLETED") EXCEPT !.linked = TRUE]]
  /\ journal' = [journal EXCEPT ![r] = Logged(@, "RUN_COMPLETED")]
  /\ Release(p)
  /\ UNCHANGED <<boqVersion, origin, assignment, plan>>

\* Anything thrown on the way: a lost lease, a BOQ changed since the run was
\* enqueued, a requester or planner that is unavailable, a rejected write.
Fail(p) ==
  /\ pc[p] \in {"review", "link", "plan", "planning", "complete", "completing"}
  /\ Goto(p, "settle")
  /\ UNCHANGED <<boqVersion, rows, held, attemptSeen>>

\* settleFailedAttempt reads the row...
SettleCheck(p) ==
  /\ pc[p] = "settle"
  /\ HoldsLease(p)
  /\ Goto(p, "settling")
  /\ attemptSeen' = [attemptSeen EXCEPT ![p] = run[held[p]].attempts]
  /\ UNCHANGED <<boqVersion, rows, held>>

SettleLost(p) ==
  /\ pc[p] = "settle"
  /\ ~HoldsLease(p)
  /\ Release(p)
  /\ UNCHANGED <<boqVersion, rows>>

\* WRONG SettleRetry: no trigger looks at the status the row has by now.
SettleRetryAnyStatus(p) ==
  LET r == held[p] IN
  /\ pc[p] = "settling"
  /\ attemptSeen[p] < MaxAttempts
  /\ run' = [run EXCEPT ![r] = [Unleased(@, "QUEUED") EXCEPT !.available = FALSE]]
  /\ journal' = [journal EXCEPT ![r] = Logged(@, "RETRY_SCHEDULED")]
  /\ Release(p)
  /\ UNCHANGED <<boqVersion, origin, assignment, plan>>

\* WRONG SettleRetry: one retry too many.
SettleRetryBeyond(p) ==
  LET r == held[p] IN
  /\ pc[p] = "settling"
  /\ attemptSeen[p] <= MaxAttempts
  /\ run[r].status \in {"QUEUED", "RUNNING"}
  /\ run' = [run EXCEPT ![r] = [Unleased(@, "QUEUED") EXCEPT !.available = FALSE]]
  /\ journal' = [journal EXCEPT ![r] = Logged(@, "RETRY_SCHEDULED")]
  /\ Release(p)
  /\ UNCHANGED <<boqVersion, origin, assignment, plan>>

\* ...and writes it by id: back to the queue while the attempts it read allow
\* it (the trigger lets a RUNNING or QUEUED run be QUEUED)...
SettleRetry(p) ==
  LET r == held[p] IN
  /\ pc[p] = "settling"
  /\ attemptSeen[p] < MaxAttempts
  /\ run[r].status \in {"QUEUED", "RUNNING"}
  /\ run' = [run EXCEPT ![r] = [Unleased(@, "QUEUED") EXCEPT !.available = FALSE]]
  /\ journal' = [journal EXCEPT ![r] = Logged(@, "RETRY_SCHEDULED")]
  /\ Release(p)
  /\ UNCHANGED <<boqVersion, origin, assignment, plan>>

\* ...or failed for good (the trigger wants a RUNNING run).
SettleFailed(p) ==
  LET r == held[p] IN
  /\ pc[p] = "settling"
  /\ attemptSeen[p] >= MaxAttempts
  /\ run[r].status = "RUNNING"
  /\ run' = [run EXCEPT ![r] = Unleased(@, "FAILED")]
  /\ journal' = [journal EXCEPT ![r] = Logged(@, "RUN_FAILED")]
  /\ Release(p)
  /\ UNCHANGED <<boqVersion, origin, assignment, plan>>

\* The invocation dies, or the settling write is rejected by the trigger.
Crash(p) ==
  /\ pc[p] # "idle"
  /\ Release(p)
  /\ UNCHANGED <<boqVersion, rows>>

-----------------------------------------------------------------------------

NewRow == [status |-> "NONE", attempts |-> 0, owner |-> Nobody, expired |-> FALSE,
           available |-> TRUE, linked |-> FALSE]

Init ==
  /\ boqVersion = 1
  /\ origin = [r \in Run |-> NoOrigin]
  /\ run = [r \in Run |-> NewRow]
  /\ journal = [r \in Run |-> <<>>]
  /\ assignment = [r \in Run |-> 0]
  /\ plan = [r \in Run |-> FALSE]
  /\ pc = [p \in Runner |-> "idle"]
  /\ held = [p \in Runner |-> NoRun]
  /\ attemptSeen = [p \in Runner |-> 0]

\* What an invocation that neither crashes nor stalls does next.
Proceed(p) ==
  \/ ReviewFound(p) \/ ReviewCreate(p) \/ Link(p)
  \/ PlanFound(p) \/ Heartbeat(p) \/ PersistPlan(p)
  \/ CompleteCheck(p) \/ CompleteWrite(p)
  \/ Fail(p) \/ SettleCheck(p) \/ SettleLost(p) \/ SettleRetry(p) \/ SettleFailed(p)
  \/ Crash(p)

Next ==
  \/ EditBoq
  \/ \E r \in Run : \/ LeaseExpires(r) \/ BackoffPasses(r)
                    \/ \E v \in 1..boqVersion, m \in Mode : Enqueue(r, v, m)
  \/ \E p \in Runner : ClaimNext(p) \/ Proceed(p)

Spec == Init /\ [][Next]_vars

\* Time passes, an invocation ends (at the latest by dying with its process), and
\* the scheduler the README asks for keeps draining the queue.
FairSpec ==
  /\ Spec
  /\ \A r \in Run : WF_vars(LeaseExpires(r)) /\ WF_vars(BackoffPasses(r))
  /\ \A p \in Runner : WF_vars(ClaimNext(p)) /\ WF_vars(Proceed(p))

-----------------------------------------------------------------------------
(* Properties.                                                             *)

Count(j, e) == Cardinality({i \in DOMAIN j : j[i] = e})

TerminalEvent(s) == IF s = "COMPLETED" THEN "RUN_COMPLETED" ELSE "RUN_FAILED"

\* The journal tells the run's story whoever wrote the row last: it starts with
\* the enqueue, has one lease per attempt counted and no more retries than
\* attempts, and holds a terminal event exactly when the run is terminal, the
\* one of its outcome, once, at the end (appendRunEvent in every transaction).
JournalTellsRun ==
  \A r \in Run : LET j == journal[r] IN
    /\ run[r].status # "NONE" => j[1] = "RUN_ENQUEUED" /\ Count(j, "RUN_ENQUEUED") = 1
    /\ Count(j, "LEASE_ACQUIRED") = run[r].attempts
    /\ Count(j, "RETRY_SCHEDULED") <= run[r].attempts
    /\ \A i \in DOMAIN j : j[i] \in {"RUN_COMPLETED", "RUN_FAILED"} => i = Len(j)
    /\ run[r].status \in Terminal => j[Len(j)] = TerminalEvent(run[r].status)
    /\ run[r].status \notin Terminal =>
         ~Occurs(j, "RUN_COMPLETED") /\ ~Occurs(j, "RUN_FAILED")

\* Work that reclaiming repeats is recorded once: however many invocations held
\* the run, one link and one plan are journalled, and a plan only with its
\* event (appendRunEventOnce, persistAIPlan's second look).
WorkRecordedOnce ==
  \A r \in Run :
    /\ \A e \in {"DETERMINISTIC_REVIEW_LINKED", "AI_PLANNER_SKIPPED",
                 "AI_PLAN_RECORDED"} : Count(journal[r], e) <= 1
    /\ plan[r] = Occurs(journal[r], "AI_PLAN_RECORDED")

\* A completed run delivers what was asked when it was enqueued: a review of the
\* BOQ version of that time, linked, and the plan its mode calls for, even
\* when several invocations did the parts and the BOQ has moved on.
CompletedDelivers ==
  \A r \in Run : run[r].status = "COMPLETED" =>
    /\ assignment[r] = origin[r].version
    /\ run[r].linked /\ Occurs(journal[r], "DETERMINISTIC_REVIEW_LINKED")
    /\ IF origin[r].mode = Bounded THEN plan[r]
       ELSE ~plan[r] /\ Occurs(journal[r], "AI_PLANNER_SKIPPED")

\* Nothing an invocation does late touches a run that has ended, nor the review
\* and plan made for it.
EndedRunsFrozen ==
  [][\A r \in Run : run[r].status \in Terminal =>
       /\ run'[r] = run[r] /\ journal'[r] = journal[r]
       /\ assignment'[r] = assignment[r] /\ plan'[r] = plan[r]]_vars

\* The inductive invariant behind the properties above.

\* A run has rows of any kind only once it was enqueued.
RowsEnqueued ==
  \A r \in Run :
    /\ (run[r].status = "NONE") = (origin[r] = NoOrigin)
    /\ origin[r] = NoOrigin => journal[r] = <<>> /\ assignment[r] = 0 /\ ~plan[r]
    /\ assignment[r] # 0 => assignment[r] = origin[r].version
    /\ plan[r] => origin[r].mode = Bounded

\* An invocation at work holds a run that was enqueued, and what it has come to
\* presupposes was done, by itself or by an earlier one.
StagesDone ==
  \A p \in Runner : LET r == held[p] IN
    /\ (pc[p] = "idle") = (r = NoRun)
    /\ pc[p] # "idle" => origin[r] # NoOrigin
    /\ pc[p] \in {"link", "plan", "planning", "complete", "completing"} =>
         assignment[r] # 0
    /\ pc[p] \in {"plan", "planning"} => origin[r].mode = Bounded
    /\ pc[p] \in {"plan", "planning", "complete", "completing"} =>
         /\ Occurs(journal[r], "DETERMINISTIC_REVIEW_LINKED")
         /\ origin[r].mode = Deterministic => Occurs(journal[r], "AI_PLANNER_SKIPPED")

\* Every attempt of a run has at most one invocation at it or one retry after it.
AttemptsSpent ==
  \A r \in Run : Count(journal[r], "RETRY_SCHEDULED")
                  + Cardinality({p \in Runner : held[p] = r}) <= run[r].attempts

Inductive == /\ TypeOK /\ RowsEnqueued /\ StagesDone /\ AttemptsSpent
             /\ JournalTellsRun /\ WorkRecordedOnce /\ CompletedDelivers

\* "bounds retries": a run is retried fewer times than it may be attempted, however late
\* its settlements are written and whichever invocations share a name.  (That it
\* also fails terminally is what two invocations can prevent, below.)
RetriesBounded ==
  \A r \in Run : Count(journal[r], "RETRY_SCHEDULED") < MaxAttempts

\* What keeps it so: once its last attempt is claimed, a run is handed back only by
\* invocations that had read its attempts before, one for each attempt but the last.
LateRetries(r) ==
  {p \in Runner : held[p] = r /\ pc[p] = "settling" /\ attemptSeen[p] < MaxAttempts}

RetriesAhead ==
  \A r \in Run : run[r].attempts = MaxAttempts =>
    Count(journal[r], "RETRY_SCHEDULED") + Cardinality(LateRetries(r)) < MaxAttempts

\* "bounds retries and fails terminally": a run that was enqueued ends.
EveryRunEnds ==
  \A r \in Run : run[r].status = "QUEUED" ~> run[r].status \in Terminal

-----------------------------------------------------------------------------
(* The invocations keep the promise of the queue: whichever of them, alive,     *)
(* stalled or dead, did the parts, a run ends as one try at a time would end it. *)

\* An invocation that settles read no more attempts than its run has by now.
SeenAttempts ==
  \A p \in Runner : pc[p] = "settling" => attemptSeen[p] <= run[held[p]].attempts

Review(request) == [version |-> request.version, planned |-> request.mode = Bounded]

Fate(r) ==
  [asked |-> origin[r], tries |-> run[r].attempts,
   ended |-> CASE run[r].status = "COMPLETED" -> "answered"
               [] run[r].status = "FAILED" -> "given up"
               [] OTHER -> "no",
   answer |-> IF run[r].status = "COMPLETED"
              THEN [version |-> assignment[r], planned |-> plan[r]] ELSE NoOrigin]

Promise == INSTANCE ReviewPromise WITH
  Request <- [version: 1..MaxVersion, mode: Mode], AnswerTo <- Review,
  MaxTries <- MaxAttempts, NotAsked <- NoOrigin, NoAnswer <- NoOrigin,
  fate <- [r \in Run |-> Fate(r)]

\* Every behaviour of the invocations is one of the promise: a run is failed only with
\* every attempt spent, and completed only with the review of the version and the
\* mode it was enqueued with (claimNextWorkerRun, settleFailedAttempt, completeWorkerRun).
KeepsPromise == Promise!Spec
=============================================================================
