-------------------------- MODULE WorkerPromiseProofs --------------------------
(* The invocations of WorkerRun implement ReviewPromise, for every value of    *)
(* the constants.                                                            *)
EXTENDS WorkerRunProofs

-----------------------------------------------------------------------------
(* What a step does to one run's row.                                      *)

\* The row keeps what the promise sees of it.
SameFate(r) ==
  /\ origin'[r] = origin[r] /\ run'[r].attempts = run[r].attempts
  /\ \/ run'[r].status = run[r].status
     \/ {run[r].status, run'[r].status} \cap Terminal = {}
  /\ run'[r].status \in Terminal => assignment'[r] = assignment[r] /\ plan'[r] = plan[r]

\* The row is enqueued, leased, completed or failed, and the rest of it stays.
Enqueued(r) ==
  /\ origin[r] = NoOrigin /\ origin'[r] \in [version: 1..MaxVersion, mode: Mode]
  /\ run[r].status = "NONE" /\ run'[r].status = "QUEUED"
  /\ run'[r].attempts = run[r].attempts

Taken(r) ==
  /\ origin'[r] = origin[r] /\ run[r].status \in {"QUEUED", "RUNNING"}
  /\ run'[r].status = "RUNNING" /\ run[r].attempts < MaxAttempts
  /\ run'[r].attempts = run[r].attempts + 1

Completed(r) ==
  /\ origin'[r] = origin[r] /\ run[r].status = "RUNNING"
  /\ run'[r].status = "COMPLETED" /\ run[r].attempts > 0
  /\ run'[r].attempts = run[r].attempts

Failed(r) ==
  /\ origin'[r] = origin[r] /\ run[r].status = "RUNNING"
  /\ run'[r].status = "FAILED" /\ run[r].attempts = MaxAttempts
  /\ run'[r].attempts = run[r].attempts

Turns(r) == SameFate(r) \/ Enqueued(r) \/ Taken(r) \/ Completed(r) \/ Failed(r)

LEMMA SameRunTurns ==
  ASSUME NEW r \in Run, SameRun(r)
  PROVE  SameFate(r)
  BY DEF SameRun, SameFate

LEMMA WorldTurns ==
  ASSUME Parts, World, NEW r \in Run
  PROVE  Turns(r)
<1>0. TypeOK /\ RunInv(r) /\ run \in [Run -> Row]
  BY DEF Parts, TypeOK
<1>1. CASE EditBoq
  BY <1>1 DEF EditBoq, rows, SameRun, SameFate, Turns
<1>2. ASSUME NEW s \in Run, LeaseExpires(s) \/ BackoffPasses(s) PROVE SameFate(r)
  <2>1. \/ run'[r] = run[r] \/ run'[r] = [run[r] EXCEPT !.expired = TRUE]
        \/ run'[r] = [run[r] EXCEPT !.available = TRUE]
    BY <1>0, <1>2 DEF LeaseExpires, BackoffPasses
  <2>2. run'[r].attempts = run[r].attempts /\ run'[r].status = run[r].status
    BY <1>0, <2>1 DEF Row
  <2>3. QED
    BY <1>2, <2>2 DEF LeaseExpires, BackoffPasses, SameFate
<1>3. ASSUME NEW s \in Run, NEW v \in 1..boqVersion, NEW m \in Mode, Enqueue(s, v, m)
      PROVE  Turns(r)
  <2>1. CASE r # s
    <3>1. SameRun(r)
      BY <1>0, <1>3, <2>1 DEF Enqueue, TypeOK, SameRun
    <3>2. QED
      BY <3>1, SameRunTurns DEF Turns
  <2>2. CASE r = s
    <3>1. run'[r] = [run[r] EXCEPT !.status = "QUEUED"] /\ origin[r] = NoOrigin
      BY <1>0, <1>3, <2>2 DEF Enqueue
    <3>2. run[r].status = "NONE"
      BY <1>0, <3>1 DEF RunInv
    <3>3. origin'[r] = [version |-> v, mode |-> m]
      BY <1>0, <1>3, <2>2 DEF Enqueue, TypeOK
    <3>4. v \in 1..MaxVersion
      BY <1>0, ConstantsAssumption DEF TypeOK
    <3>5. run'[r].attempts = run[r].attempts /\ run'[r].status = "QUEUED"
      BY <1>0, <3>1 DEF Row
    <3>6. QED
      BY <3>1, <3>2, <3>3, <3>4, <3>5 DEF Enqueued, Turns
  <2>3. QED
    BY <2>1, <2>2
<1>4. QED
  BY <1>1, <1>2, <1>3 DEF World, Turns

LEMMA ClaimTurns ==
  ASSUME Parts, NEW p \in Runner, ClaimNext(p), NEW r \in Run
  PROVE  Turns(r)
<1>0. run[r] \in Row /\ MaxAttempts \in Nat
  BY ConstantsAssumption DEF Parts, TypeOK
<1>1. UNCHANGED <<origin, assignment, plan>>
  BY DEF ClaimNext
<1>2. \/ r \in Exhausted /\ run'[r] = Unleased(run[r], "FAILED")
      \/ r \in Claimable /\ run'[r] = Leased(run[r], NameOf[p])
      \/ run'[r] = run[r]
  BY DEF ClaimNext
<1>3. CASE r \in Exhausted /\ run'[r] = Unleased(run[r], "FAILED")
  <2>1. run[r].status = "RUNNING" /\ run[r].attempts = MaxAttempts
    BY <1>0, <1>3 DEF Exhausted, Row
  <2>2. run'[r].status = "FAILED" /\ run'[r].attempts = run[r].attempts
    BY <1>0, <1>3 DEF Unleased, Row
  <2>3. QED
    BY <1>1, <2>1, <2>2 DEF Failed, Turns
<1>4. CASE r \in Claimable /\ run'[r] = Leased(run[r], NameOf[p])
  <2>1. run[r].status \in {"QUEUED", "RUNNING"} /\ run[r].attempts < MaxAttempts
    BY <1>4 DEF Claimable
  <2>2. run'[r].status = "RUNNING" /\ run'[r].attempts = run[r].attempts + 1
    BY <1>0, <1>4 DEF Leased, Row
  <2>3. QED
    BY <1>1, <2>1, <2>2 DEF Taken, Turns
<1>5. CASE run'[r] = run[r]
  BY <1>1, <1>5 DEF SameFate, Turns
<1>6. QED
  BY <1>2, <1>3, <1>4, <1>5

LEMMA ProceedTurns ==
  ASSUME Parts, SeenAttempts, NEW p \in Runner, Proceed(p), NEW r \in Run
  PROVE  Turns(r)
<1>0. TypeOK /\ run[r] \in Row /\ MaxAttempts \in Nat
  BY ConstantsAssumption DEF Parts, TypeOK
<1>1. CASE \/ ReviewFound(p) \/ PlanFound(p) \/ Heartbeat(p) \/ CompleteCheck(p)
           \/ Fail(p) \/ SettleCheck(p) \/ SettleLost(p) \/ Crash(p)
  <2>1. SameRun(r)
    BY <1>1 DEF ReviewFound, PlanFound, Heartbeat, CompleteCheck, Fail, SettleCheck,
                SettleLost, Crash, rows, SameRun
  <2>2. QED
    BY <2>1, SameRunTurns DEF Turns
<1>2. CASE /\ held[p] # r
           /\ \/ ReviewCreate(p) \/ Link(p) \/ PersistPlan(p)
              \/ CompleteWrite(p) \/ SettleRetry(p) \/ SettleFailed(p)
  <2>1. SameRun(r)
    BY <1>0, <1>2 DEF ReviewCreate, Link, PersistPlan, CompleteWrite, SettleRetry,
                      SettleFailed, TypeOK, SameRun
  <2>2. QED
    BY <2>1, SameRunTurns DEF Turns
<1>3. CASE held[p] = r /\ (ReviewCreate(p) \/ Link(p) \/ PersistPlan(p))
  <2>1. run[r].status = "RUNNING" /\ origin' = origin
    BY <1>3 DEF ReviewCreate, Link, PersistPlan, HoldsLease
  <2>2. run'[r] = run[r] \/ run'[r] = [run[r] EXCEPT !.linked = TRUE]
    BY <1>0, <1>3 DEF ReviewCreate, Link, PersistPlan, TypeOK
  <2>3. run'[r].attempts = run[r].attempts /\ run'[r].status = "RUNNING"
    BY <1>0, <2>1, <2>2 DEF Row
  <2>4. QED
    BY <2>1, <2>3 DEF SameFate, Terminal, Turns
<1>4. CASE held[p] = r /\ CompleteWrite(p)
  <2>1. run[r].status = "RUNNING" /\ origin' = origin
    BY <1>4 DEF CompleteWrite
  <2>2. run'[r] = [Unleased(run[r], "COMPLETED") EXCEPT !.linked = TRUE]
    BY <1>0, <1>4 DEF CompleteWrite, TypeOK
  <2>3. run'[r].attempts = run[r].attempts /\ run'[r].status = "COMPLETED"
    BY <1>0, <2>2 DEF Unleased, Row
  <2>4. run[r].attempts > 0
    BY <1>4, RetriesLeft
  <2>5. QED
    BY <2>1, <2>3, <2>4 DEF Completed, Turns
<1>5. CASE held[p] = r /\ SettleRetry(p)
  <2>1. run[r].status \in {"QUEUED", "RUNNING"} /\ origin' = origin
    BY <1>5 DEF SettleRetry
  <2>2. run'[r] = [Unleased(run[r], "QUEUED") EXCEPT !.available = FALSE]
    BY <1>0, <1>5 DEF SettleRetry, TypeOK
  <2>3. run'[r].attempts = run[r].attempts /\ run'[r].status = "QUEUED"
    BY <1>0, <2>2 DEF Unleased, Row
  <2>4. QED
    BY <2>1, <2>3 DEF SameFate, Terminal, Turns
<1>6. CASE held[p] = r /\ SettleFailed(p)
  <2>1. run[r].status = "RUNNING" /\ origin' = origin
    BY <1>6 DEF SettleFailed
  <2>2. run'[r] = Unleased(run[r], "FAILED")
    BY <1>0, <1>6 DEF SettleFailed, TypeOK
  <2>3. run'[r].attempts = run[r].attempts /\ run'[r].status = "FAILED"
    BY <1>0, <2>2 DEF Unleased, Row
  <2>4. attemptSeen[p] <= run[r].attempts /\ attemptSeen[p] >= MaxAttempts
        /\ attemptSeen[p] \in 0..MaxAttempts
    BY <1>0, <1>6 DEF SettleFailed, SeenAttempts, TypeOK
  <2>5. run[r].attempts = MaxAttempts
    BY <1>0, <2>4 DEF Row
  <2>6. QED
    BY <2>1, <2>3, <2>5 DEF Failed, Turns
<1>7. QED
  BY <1>1, <1>2, <1>3, <1>4, <1>5, <1>6 DEF Proceed

LEMMA StepTurns ==
  ASSUME Parts, SeenAttempts, Next
  PROVE  \A r \in Run : Turns(r)
<1>1. World \/ (\E p \in Runner : ClaimNext(p)) \/ (\E p \in Runner : Proceed(p))
  BY DEF Next, World
<1>2. QED
  BY <1>1, WorldTurns, ClaimTurns, ProceedTurns

-----------------------------------------------------------------------------
(* What an invocation read of the attempts stays a lower bound.             *)

LEMMA SeenStep ==
  ASSUME Parts, SeenAttempts, [Next]_vars
  PROVE  SeenAttempts'
<1>0. TypeOK /\ \A r \in Run : run[r] \in Row /\ run[r].attempts \in Nat
  BY ConstantsAssumption DEF Parts, TypeOK, Row
<1>1. \A r \in Run : run'[r].attempts >= run[r].attempts
  <2>1. CASE Next
    BY <1>0, <2>1, StepTurns DEF Turns, SameFate, Enqueued, Taken, Completed, Failed
  <2>2. CASE UNCHANGED vars
    BY <1>0, <2>2 DEF vars, rows
  <2>3. QED
    BY <2>1, <2>2
<1>2. ASSUME NEW p \in Runner, pc'[p] = "settling"
      PROVE  attemptSeen'[p] <= run'[held'[p]].attempts
  <2>1. CASE pc[p] = "settling" /\ held'[p] = held[p] /\ attemptSeen'[p] = attemptSeen[p]
    <3>1. held[p] \in Run
      BY <2>1, HoldsRun
    <3>2. attemptSeen[p] \in Nat /\ attemptSeen[p] <= run[held[p]].attempts
      BY <1>0, <2>1, ConstantsAssumption DEF SeenAttempts, TypeOK
    <3>3. run'[held[p]].attempts \in Nat
      <4>1. TypeOK'
        BY PartsStep DEF Parts
      <4>2. QED
        BY <3>1, <4>1, ConstantsAssumption DEF TypeOK, Row
    <3>4. QED
      BY <1>0, <1>1, <2>1, <3>1, <3>2, <3>3
  <2>2. CASE SettleCheck(p)
    <3>1. held[p] \in Run
      BY <2>2, HoldsRun DEF SettleCheck
    <3>2. run' = run /\ held' = held /\ attemptSeen'[p] = run[held[p]].attempts
      BY <1>0, <2>2 DEF SettleCheck, rows, TypeOK
    <3>3. QED
      BY <1>0, <3>1, <3>2
  <2>3. QED
    <3>1. CASE Next
      <4>1. CASE World
        BY <1>2, <2>1, <4>1 DEF World, EditBoq, LeaseExpires, BackoffPasses, Enqueue
      <4>2. ASSUME NEW q \in Runner, ClaimNext(q)
            PROVE  pc[p] = "settling" /\ held'[p] = held[p] /\ attemptSeen'[p] = attemptSeen[p]
        BY <1>0, <1>2, <4>2 DEF ClaimNext, Goto, TypeOK
      <4>3. ASSUME NEW q \in Runner, Proceed(q), ~SettleCheck(p)
            PROVE  pc[p] = "settling" /\ held'[p] = held[p] /\ attemptSeen'[p] = attemptSeen[p]
        BY <1>0, <1>2, <4>3 DEF Proceed, ReviewFound, ReviewCreate, Link, PlanFound,
           Heartbeat, PersistPlan, CompleteCheck, CompleteWrite, Fail, SettleCheck,
           SettleLost, SettleRetry, SettleFailed, Crash, Goto, Release, TypeOK
      <4>4. QED
        BY <2>1, <2>2, <3>1, <4>1, <4>2, <4>3 DEF Next, World
    <3>2. CASE UNCHANGED vars
      BY <1>2, <2>1, <3>2 DEF vars
    <3>3. QED
      BY <3>1, <3>2
<1>3. QED
  BY <1>2 DEF SeenAttempts

-----------------------------------------------------------------------------
(* The mapping.                                                            *)

\* A run that nobody asked for has had no attempt.
LEMMA UnaskedFate ==
  ASSUME Parts, NEW r \in Run, origin[r] = NoOrigin
  PROVE  Fate(r) = Promise!Unasked
<1>1. RunInv(r) /\ run[r] \in Row
  BY DEF Parts, TypeOK
<1>2. run[r].status = "NONE" /\ journal[r] = <<>>
  BY <1>1 DEF RunInv
<1>3. Count(journal[r], "LEASE_ACQUIRED") = run[r].attempts
  BY <1>1 DEF RunInv, Story
<1>4. journal[r] \in Seq(Event) /\ ~Occurs(journal[r], "LEASE_ACQUIRED")
  BY <1>2 DEF Parts, TypeOK, Occurs
<1>5. run[r].attempts = 0
  BY <1>3, <1>4, CountFacts
<1>6. QED
  BY <1>2, <1>5 DEF Fate, Promise!Unasked, Promise!Fate

LEMMA TurnMoves ==
  ASSUME Parts, Parts', NEW r \in Run, Turns(r)
  PROVE  Fate(r)' = Fate(r) \/ Promise!Moves(Fate(r), Fate(r)')
<1>0. /\ RunInv(r) /\ run[r] \in Row /\ run'[r] \in Row /\ run[r].attempts \in Nat
      /\ origin[r] \in [version: 1..MaxVersion, mode: Mode] \cup {NoOrigin}
  BY ConstantsAssumption DEF Parts, TypeOK, Row
<1>1. CASE SameFate(r)
  <2>1. CASE run'[r].status = run[r].status
    BY <1>1, <2>1 DEF SameFate, Fate, Terminal
  <2>2. CASE {run[r].status, run'[r].status} \cap Terminal = {}
    BY <1>1, <2>2 DEF SameFate, Fate, Terminal
  <2>3. QED
    BY <1>1, <2>1, <2>2 DEF SameFate
<1>2. CASE Enqueued(r)
  <2>1. Fate(r) = Promise!Unasked
    BY <1>2, UnaskedFate DEF Enqueued
  <2>2. Fate(r)' = Promise!Fate(origin'[r], run'[r].attempts, "no", NoOrigin)
    BY <1>2 DEF Enqueued, Fate, Promise!Fate
  <2>3. run'[r].attempts = 0
    BY <1>2, <2>1 DEF Enqueued, Fate, Promise!Unasked, Promise!Fate
  <2>4. QED
    BY <1>2, <2>1, <2>2, <2>3 DEF Enqueued, Promise!Asked, Promise!Moves
<1>3. ASSUME run[r].status \in {"QUEUED", "RUNNING"}
      PROVE  /\ Promise!Waiting(Fate(r)) /\ Fate(r).tries = run[r].attempts
             /\ Fate(r).asked = origin[r]
  <2>1. origin[r] # NoOrigin
    BY <1>0, <1>3 DEF RunInv
  <2>2. QED
    BY <1>3, <2>1 DEF Promise!Waiting, Fate
<1>4. CASE Taken(r)
  <2>1. Fate(r)' = Promise!Fate(origin[r], run[r].attempts + 1, "no", NoOrigin)
    BY <1>4 DEF Taken, Fate, Promise!Fate
  <2>2. QED
    BY <1>3, <1>4, <2>1 DEF Taken, Promise!Tried, Promise!Moves
<1>5. CASE Completed(r)
  <2>1. Delivered(r)' /\ origin'[r] = origin[r]
    BY <1>5 DEF Completed, Parts, RunInv
  <2>2. plan'[r] \in BOOLEAN /\ (origin[r].mode = Bounded <=> plan'[r])
    BY <2>1 DEF Delivered, Parts, TypeOK
  <2>3. [version |-> assignment'[r], planned |-> plan'[r]] = Review(origin[r])
    BY <2>1, <2>2 DEF Delivered, Review
  <2>4. Fate(r)' = Promise!Fate(origin'[r], run'[r].attempts, "answered",
                                [version |-> assignment'[r], planned |-> plan'[r]])
    BY <1>5 DEF Completed, Fate, Promise!Fate
  <2>5. Fate(r)' = Promise!Fate(origin[r], run[r].attempts, "answered", Review(origin[r]))
    BY <1>5, <2>3, <2>4 DEF Completed
  <2>6. QED
    BY <1>3, <1>5, <2>5 DEF Completed, Promise!Answered, Promise!Moves
<1>6. CASE Failed(r)
  <2>1. Fate(r)' = Promise!Fate(origin[r], run[r].attempts, "given up", NoOrigin)
    BY <1>6 DEF Failed, Fate, Promise!Fate
  <2>2. QED
    BY <1>3, <1>6, <2>1 DEF Failed, Promise!GivenUp, Promise!Moves
<1>7. QED
  BY <1>1, <1>2, <1>4, <1>5, <1>6 DEF Turns

LEMMA StepMoves ==
  ASSUME Parts, SeenAttempts, [Next]_vars
  PROVE  [Promise!Next]_(Promise!vars)
<1>1. CASE Next
  <2>1. \A r \in Run : Fate(r)' = Fate(r) \/ Promise!Moves(Fate(r), Fate(r)')
    BY <1>1, PartsStep, StepTurns, TurnMoves
  <2>2. QED
    BY <2>1 DEF Promise!Next
<1>2. CASE UNCHANGED vars
  BY <1>2 DEF vars, rows, Promise!vars, Fate
<1>3. QED
  BY <1>1, <1>2

\* The promise of the review queue is kept by any number of invocations that stall, die
\* and write late: a run is given up only with its attempts spent, and answered only
\* with what was asked (claimNextWorkerRun, settleFailedAttempt, completeWorkerRun).
THEOREM InvocationsKeepPromise == Spec => KeepsPromise
<1>1. Init => Promise!Init /\ SeenAttempts
  BY DEF Init, NewRow, Promise!Init, Promise!Unasked, Promise!Fate, Fate,
         SeenAttempts
<1>2. Inductive /\ SeenAttempts /\ [Next]_vars => SeenAttempts'
  BY SeenStep, InductiveParts
<1>3. Inductive /\ SeenAttempts /\ [Next]_vars => [Promise!Next]_(Promise!vars)
  BY StepMoves, InductiveParts
<1>4. Spec => []SeenAttempts
  BY <1>1, <1>2, InductiveHolds, PTL DEF Spec
<1>5. QED
  BY <1>1, <1>3, <1>4, InductiveHolds, PTL DEF Spec, KeepsPromise, Promise!Spec
=============================================================================
