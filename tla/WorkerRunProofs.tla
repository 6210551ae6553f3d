---------------------------- MODULE WorkerRunProofs ----------------------------
(* Proofs about WorkerRun, for every value of its constants.                *)
EXTENDS WorkerRun, FiniteSetTheorems, SequenceTheorems, TLAPS

-----------------------------------------------------------------------------
(* Journals.                                                               *)

\* What appending an event does to what the properties count in a journal.
LEMMA LoggedFacts ==
  ASSUME NEW j \in Seq(Event), NEW e \in Event
  PROVE  /\ Logged(j, e) \in Seq(Event)
         /\ Len(j) \in Nat /\ DOMAIN j = 1..Len(j)
         /\ Len(Logged(j, e)) = Len(j) + 1
         /\ DOMAIN Logged(j, e) = 1..(Len(j) + 1)
         /\ Logged(j, e)[Len(j) + 1] = e
         /\ \A i \in 1..Len(j) : Logged(j, e)[i] = j[i]
  BY DEF Logged

\* The events of the longer journal are those of the shorter one and the new one.
LEMMA LoggedOccurs ==
  ASSUME NEW j \in Seq(Event), NEW e \in Event, NEW f
  PROVE  Occurs(Logged(j, e), f) <=> Occurs(j, f) \/ f = e
<1> DEFINE k == Logged(j, e)
           n == Len(j)
<1>0. /\ n \in Nat /\ DOMAIN j = 1..n /\ DOMAIN k = 1..(n + 1)
      /\ k[n + 1] = e /\ \A i \in 1..n : k[i] = j[i]
  BY LoggedFacts
<1> HIDE DEF k, n
<1>1. (\E i \in 1..n : j[i] = f) => \E i \in 1..(n + 1) : k[i] = f
  BY <1>0
<1>2. f = e => \E i \in 1..(n + 1) : k[i] = f
  BY <1>0
<1>3. ASSUME NEW i \in 1..(n + 1), k[i] = f, f # e
      PROVE  \E h \in 1..n : j[h] = f
  <2>1. i \in 1..n
    BY <1>0, <1>3
  <2>2. QED
    BY <1>0, <1>3, <2>1
<1>4. (\E i \in 1..(n + 1) : k[i] = f) <=> (\E i \in 1..n : j[i] = f) \/ f = e
  BY <1>1, <1>2, <1>3
<1>5. QED
  BY <1>0, <1>4 DEF Occurs, k

LEMMA CountFacts ==
  ASSUME NEW j \in Seq(Event), NEW e
  PROVE  /\ IsFiniteSet({i \in DOMAIN j : j[i] = e})
         /\ Count(j, e) \in Nat
         /\ Count(j, e) = 0 <=> ~Occurs(j, e)
<1> DEFINE S == {i \in DOMAIN j : j[i] = e}
<1>1. IsFiniteSet(S)
  <2>1. DOMAIN j = 1..Len(j) /\ Len(j) \in Nat
    OBVIOUS
  <2>2. IsFiniteSet(1..Len(j))
    BY <2>1, FS_Interval
  <2>3. QED
    BY <2>1, <2>2, FS_Subset
<1>2. Cardinality(S) \in Nat /\ (Cardinality(S) = 0 <=> S = {})
  BY <1>1, FS_CardinalityType, FS_EmptySet
<1>3. S = {} <=> ~Occurs(j, e)
  BY DEF Occurs
<1>4. QED
  BY <1>1, <1>2, <1>3 DEF Count

LEMMA LoggedCount ==
  ASSUME NEW j \in Seq(Event), NEW e \in Event, NEW f
  PROVE  Count(Logged(j, e), f) = IF f = e THEN Count(j, f) + 1 ELSE Count(j, f)
<1> DEFINE k == Logged(j, e)
           n == Len(j)
           S == {i \in DOMAIN j : j[i] = f}
           T == {i \in DOMAIN k : k[i] = f}
<1>0. /\ n \in Nat /\ DOMAIN j = 1..n /\ DOMAIN k = 1..(n + 1)
      /\ k[n + 1] = e /\ \A i \in 1..n : k[i] = j[i]
  BY LoggedFacts
<1>f. IsFiniteSet(S)
  BY CountFacts
<1>c. Count(k, f) = Cardinality(T) /\ Count(j, f) = Cardinality(S)
  BY DEF Count
<1> HIDE DEF k, n
<1>1. CASE f = e
  <2>1. T = S \cup {n + 1} /\ n + 1 \notin S
    BY <1>0, <1>1
  <2>2. Cardinality(S \cup {n + 1}) = Cardinality(S) + 1
    BY <1>f, <2>1, FS_AddElement
  <2>3. QED
    BY <1>1, <1>c, <2>1, <2>2 DEF k
<1>2. CASE f # e
  <2>1. T = S
    BY <1>0, <1>2
  <2>2. QED
    BY <1>2, <1>c, <2>1 DEF k
<1>3. QED
  BY <1>1, <1>2

\* LoggedOnce leaves what it finds and adds what is missing, never a second time.
LEMMA LoggedOnceFacts ==
  ASSUME NEW j \in Seq(Event), NEW e \in Event
  PROVE  /\ LoggedOnce(j, e) \in Seq(Event)
         /\ \A f : Occurs(LoggedOnce(j, e), f) <=> Occurs(j, f) \/ f = e
         /\ Count(j, e) <= 1 => Count(LoggedOnce(j, e), e) <= 1
         /\ \A f : f # e => Count(LoggedOnce(j, e), f) = Count(j, f)
<1>1. CASE Occurs(j, e)
  BY <1>1 DEF LoggedOnce
<1>2. CASE ~Occurs(j, e)
  <2>1. LoggedOnce(j, e) = Logged(j, e)
    BY <1>2 DEF LoggedOnce
  <2>2. Count(j, e) = 0
    BY <1>2, CountFacts
  <2>3. /\ Logged(j, e) \in Seq(Event)
        /\ \A f : Occurs(Logged(j, e), f) <=> Occurs(j, f) \/ f = e
    BY LoggedFacts, LoggedOccurs
  <2>4. \A f : Count(Logged(j, e), f) = IF f = e THEN Count(j, f) + 1 ELSE Count(j, f)
    BY LoggedCount
  <2>5. QED
    BY <2>1, <2>2, <2>3, <2>4
<1>3. QED
  BY <1>1, <1>2

\* What JournalTellsRun says of one run, of status s and n attempts.
Story(s, n, j) ==
  /\ s # "NONE" => j[1] = "RUN_ENQUEUED" /\ Count(j, "RUN_ENQUEUED") = 1
  /\ Count(j, "LEASE_ACQUIRED") = n
  /\ Count(j, "RETRY_SCHEDULED") <= n
  /\ \A i \in DOMAIN j : j[i] \in {"RUN_COMPLETED", "RUN_FAILED"} => i = Len(j)
  /\ s \in Terminal => j[Len(j)] = TerminalEvent(s)
  /\ s \notin Terminal => ~Occurs(j, "RUN_COMPLETED") /\ ~Occurs(j, "RUN_FAILED")

Ends == {"RUN_COMPLETED", "RUN_FAILED"}

\* A run that has not ended goes on to status t with one more event.
LEMMA StoryGoesOn ==
  ASSUME NEW j \in Seq(Event), NEW e \in Event, e # "RUN_ENQUEUED",
         NEW s \in {"QUEUED", "RUNNING"}, NEW t \in {"QUEUED", "RUNNING"} \cup Terminal,
         NEW n \in Nat, Story(s, n, j),
         IF t \in Terminal THEN e = TerminalEvent(t) ELSE e \notin Ends,
         e = "RETRY_SCHEDULED" => Count(j, "RETRY_SCHEDULED") < n
  PROVE  Story(t, IF e = "LEASE_ACQUIRED" THEN n + 1 ELSE n, Logged(j, e))
<1> DEFINE k == Logged(j, e)
           l == Len(j)
           m == IF e = "LEASE_ACQUIRED" THEN n + 1 ELSE n
<1>0. s # "NONE" /\ s \notin Terminal
  BY DEF Terminal
<1>j. /\ l \in Nat /\ DOMAIN j = 1..l /\ DOMAIN k = 1..(l + 1) /\ Len(k) = l + 1
      /\ k[l + 1] = e /\ \A i \in 1..l : k[i] = j[i]
  BY LoggedFacts
<1>o. \A f : Occurs(k, f) <=> Occurs(j, f) \/ f = e
  BY LoggedOccurs
<1>c. \A f : Count(k, f) = IF f = e THEN Count(j, f) + 1 ELSE Count(j, f)
  BY LoggedCount
<1>n. \A f : Count(j, f) \in Nat /\ (Count(j, f) = 0 <=> ~Occurs(j, f))
  BY CountFacts
<1> HIDE DEF k, l
<1>1. 1 \in 1..l
  <2>1. Occurs(j, "RUN_ENQUEUED")
    BY <1>0, <1>n DEF Story
  <2>2. PICK i \in 1..l : j[i] = "RUN_ENQUEUED"
    BY <1>j, <2>1 DEF Occurs
  <2>3. QED
    BY <1>j
<1>2. k[1] = "RUN_ENQUEUED" /\ Count(k, "RUN_ENQUEUED") = 1
  BY <1>0, <1>1, <1>j, <1>c DEF Story
<1>3. Count(k, "LEASE_ACQUIRED") = m
  BY <1>c DEF Story
<1>4. Count(k, "RETRY_SCHEDULED") <= m
  BY <1>c, <1>n DEF Story
<1>5. ASSUME NEW i \in DOMAIN k, k[i] \in Ends
      PROVE  i = Len(k)
  <2> SUFFICES ASSUME i # l + 1 PROVE FALSE
    BY <1>j
  <2>1. i \in 1..l /\ j[i] = k[i]
    BY <1>j, <1>5
  <2>2. Occurs(j, k[i])
    BY <1>j, <2>1 DEF Occurs
  <2>3. QED
    BY <1>0, <1>5, <2>2 DEF Story, Ends
<1>6. t \in Terminal => k[Len(k)] = TerminalEvent(t)
  BY <1>j
<1>7. t \notin Terminal => ~Occurs(k, "RUN_COMPLETED") /\ ~Occurs(k, "RUN_FAILED")
  BY <1>0, <1>o DEF Story, Ends
<1>8. QED
  BY <1>2, <1>3, <1>4, <1>5, <1>6, <1>7 DEF Story, Ends, k

\* The journalling of work that may be repeated does not change the story.
LEMMA StoryOnce ==
  ASSUME NEW j \in Seq(Event), NEW s \in {"QUEUED", "RUNNING"}, NEW n \in Nat, Story(s, n, j),
         NEW e \in {"DETERMINISTIC_REVIEW_LINKED", "AI_PLANNER_SKIPPED", "AI_PLAN_RECORDED"}
  PROVE  Story(s, n, LoggedOnce(j, e))
<1>1. CASE Occurs(j, e)
  BY <1>1 DEF LoggedOnce
<1>2. CASE ~Occurs(j, e)
  <2>1. e \in Event /\ e # "RUN_ENQUEUED" /\ e \notin Ends /\ s \notin Terminal
        /\ e # "LEASE_ACQUIRED" /\ e # "RETRY_SCHEDULED"
    BY DEF Event, Ends, Terminal
  <2>2. Story(s, IF e = "LEASE_ACQUIRED" THEN n + 1 ELSE n, Logged(j, e))
    BY <2>1, StoryGoesOn
  <2>3. QED
    BY <1>2, <2>1, <2>2 DEF LoggedOnce
<1>3. QED
  BY <1>1, <1>2

-----------------------------------------------------------------------------
(* The inductive invariant, run by run and invocation by invocation.       *)

Holders(r) == {p \in Runner : held[p] = r}

Repeated == {"DETERMINISTIC_REVIEW_LINKED", "AI_PLANNER_SKIPPED", "AI_PLAN_RECORDED"}

Delivered(r) ==
  /\ assignment[r] = origin[r].version
  /\ run[r].linked /\ Occurs(journal[r], "DETERMINISTIC_REVIEW_LINKED")
  /\ IF origin[r].mode = Bounded THEN plan[r]
     ELSE ~plan[r] /\ Occurs(journal[r], "AI_PLANNER_SKIPPED")

RunInv(r) ==
  /\ (run[r].status = "NONE") = (origin[r] = NoOrigin)
  /\ origin[r] = NoOrigin => journal[r] = <<>> /\ assignment[r] = 0 /\ ~plan[r]
  /\ assignment[r] # 0 => assignment[r] = origin[r].version
  /\ plan[r] => origin[r].mode = Bounded
  /\ Count(journal[r], "RETRY_SCHEDULED") + Cardinality(Holders(r)) <= run[r].attempts
  /\ Story(run[r].status, run[r].attempts, journal[r])
  /\ \A e \in Repeated : Count(journal[r], e) <= 1
  /\ plan[r] = Occurs(journal[r], "AI_PLAN_RECORDED")
  /\ run[r].status = "COMPLETED" => Delivered(r)

StageInv(p) ==
  LET r == held[p] IN
  /\ (pc[p] = "idle") = (r = NoRun)
  /\ pc[p] # "idle" => origin[r] # NoOrigin
  /\ pc[p] \in {"link", "plan", "planning", "complete", "completing"} =>
       assignment[r] # 0
  /\ pc[p] \in {"plan", "planning"} => origin[r].mode = Bounded
  /\ pc[p] \in {"plan", "planning", "complete", "completing"} =>
       /\ Occurs(journal[r], "DETERMINISTIC_REVIEW_LINKED")
       /\ origin[r].mode = Deterministic => Occurs(journal[r], "AI_PLANNER_SKIPPED")

Parts == TypeOK /\ (\A r \in Run : RunInv(r)) /\ (\A p \in Runner : StageInv(p))

LEMMA InductiveParts == Inductive <=> Parts
  BY DEF Inductive, Parts, RunInv, StageInv, RowsEnqueued, StagesDone, AttemptsSpent,
         JournalTellsRun, WorkRecordedOnce, CompletedDelivers, Story, Holders, Repeated,
         Delivered

LEMMA HoldersFinite ==
  ASSUME NEW r
  PROVE  IsFiniteSet(Holders(r)) /\ Cardinality(Holders(r)) \in Nat
<1>1. IsFiniteSet(Holders(r))
  BY ConstantsAssumption, FS_Subset DEF Holders
<1>2. QED
  BY <1>1, FS_CardinalityType

LEMMA HoldersShrink ==
  ASSUME NEW r, Holders(r)' \subseteq Holders(r)
  PROVE  Cardinality(Holders(r)') <= Cardinality(Holders(r))
  BY HoldersFinite, FS_Subset

\* An invocation that lets go of its run is one holder less.
LEMMA HoldersRelease ==
  ASSUME held \in [Runner -> Run \cup {NoRun}], NEW p \in Runner,
         NEW r \in Run, held[p] = r, Release(p)
  PROVE  /\ Cardinality(Holders(r)') = Cardinality(Holders(r)) - 1
         /\ \A s \in Run : Holders(s)' \subseteq Holders(s)
<1>0. NoRun \notin Run
  BY ConstantsAssumption
<1>1. held' = [held EXCEPT ![p] = NoRun]
  BY DEF Release
<1>2. \A s \in Run : {q \in Runner : held'[q] = s} = {q \in Runner : held[q] = s} \ {p}
  BY <1>0, <1>1
<1>3. Holders(r)' = Holders(r) \ {p} /\ p \in Holders(r)
  BY <1>2 DEF Holders
<1>4. \A s \in Run : Holders(s)' \subseteq Holders(s)
  BY <1>2 DEF Holders
<1>5. Cardinality(Holders(r) \ {p}) = Cardinality(Holders(r)) - 1
  BY <1>3, HoldersFinite, FS_RemoveElement
<1>6. QED
  BY <1>3, <1>4, <1>5

\* An invocation that takes a run is at most one holder more.
LEMMA HoldersClaim ==
  ASSUME held \in [Runner -> Run \cup {NoRun}], NEW p \in Runner, held[p] = NoRun,
         NEW r \in Run, held' = [held EXCEPT ![p] = r]
  PROVE  /\ Cardinality(Holders(r)') <= Cardinality(Holders(r)) + 1
         /\ \A s \in Run : s # r => Holders(s)' = Holders(s)
<1>0. NoRun \notin Run
  BY ConstantsAssumption
<1>1. {q \in Runner : held'[q] = r} = {q \in Runner : held[q] = r} \cup {p}
  OBVIOUS
<1>2. \A s \in Run : s # r =>
        {q \in Runner : held'[q] = s} = {q \in Runner : held[q] = s}
  BY <1>0
<1>3. Holders(r)' = Holders(r) \cup {p}
  BY <1>1 DEF Holders
<1>4. Cardinality(Holders(r) \cup {p}) <= Cardinality(Holders(r)) + 1
  <2>1. IsFiniteSet(Holders(r)) /\ Cardinality(Holders(r)) \in Nat
    BY HoldersFinite
  <2>2. Cardinality(Holders(r) \cup {p}) =
          IF p \in Holders(r) THEN Cardinality(Holders(r)) ELSE Cardinality(Holders(r)) + 1
    BY <2>1, FS_AddElement
  <2> HIDE DEF Holders
  <2>3. QED
    BY <2>1, <2>2
<1>5. QED
  BY <1>2, <1>3, <1>4 DEF Holders

\* A run whose rows stay, but for its lease and its availability.
LEMMA RunKept ==
  ASSUME TypeOK, NEW r \in Run, RunInv(r),
         origin'[r] = origin[r], journal'[r] = journal[r],
         assignment'[r] = assignment[r], plan'[r] = plan[r],
         run'[r].status = run[r].status, run'[r].attempts = run[r].attempts,
         run'[r].linked = run[r].linked, Holders(r)' \subseteq Holders(r)
  PROVE  RunInv(r)'
<1>1. Cardinality(Holders(r)') <= Cardinality(Holders(r))
  BY HoldersShrink
<1>2. Cardinality(Holders(r)') \in Nat /\ Cardinality(Holders(r)) \in Nat
  <2>1. IsFiniteSet(Holders(r)')
    BY HoldersFinite, FS_Subset
  <2>2. QED
    BY <2>1, HoldersFinite, FS_CardinalityType
<1>3. Count(journal[r], "RETRY_SCHEDULED") \in Nat /\ run[r].attempts \in Nat
  <2>1. journal[r] \in Seq(Event) /\ run[r].attempts \in Nat
    BY ConstantsAssumption DEF TypeOK, Row
  <2>2. QED
    BY <2>1, CountFacts
<1>4. Count(journal[r], "RETRY_SCHEDULED") + Cardinality(Holders(r)') <= run[r].attempts
  BY <1>1, <1>2, <1>3 DEF RunInv
<1>5. QED
  BY <1>4 DEF RunInv, Delivered

\* A run that has not ended takes a step of its own, journalled by an event.
LEMMA RunMoves ==
  ASSUME TypeOK, NEW r \in Run, RunInv(r), NEW e \in Event,
         run[r].status \in {"QUEUED", "RUNNING"},
         run'[r].status \in {"QUEUED", "RUNNING"} \cup Terminal,
         e \notin Repeated \cup {"RUN_ENQUEUED"},
         IF run'[r].status \in Terminal THEN e = TerminalEvent(run'[r].status)
                                        ELSE e \notin Ends,
         origin'[r] = origin[r], assignment'[r] = assignment[r], plan'[r] = plan[r],
         journal'[r] = Logged(journal[r], e),
         run'[r].attempts =
           IF e = "LEASE_ACQUIRED" THEN run[r].attempts + 1 ELSE run[r].attempts,
         e = "RETRY_SCHEDULED" => Count(journal[r], "RETRY_SCHEDULED") < run[r].attempts,
         Count(journal'[r], "RETRY_SCHEDULED") + Cardinality(Holders(r)')
           <= run'[r].attempts,
         run'[r].status = "COMPLETED" => Delivered(r)'
  PROVE  RunInv(r)'
<1>1. journal[r] \in Seq(Event) /\ run[r].attempts \in Nat
  BY ConstantsAssumption DEF TypeOK, Row
<1>2. Story(run'[r].status, run'[r].attempts, journal'[r])
  BY <1>1, StoryGoesOn DEF RunInv
<1>3. \A f \in Repeated : Count(journal'[r], f) = Count(journal[r], f)
  BY <1>1, LoggedCount
<1>4. Occurs(journal'[r], "AI_PLAN_RECORDED") = Occurs(journal[r], "AI_PLAN_RECORDED")
  <2>1. e # "AI_PLAN_RECORDED"
    BY DEF Repeated
  <2>2. Occurs(journal'[r], "AI_PLAN_RECORDED") <=>
          Occurs(journal[r], "AI_PLAN_RECORDED") \/ "AI_PLAN_RECORDED" = e
    BY <1>1, LoggedOccurs
  <2>3. QED
    BY <2>1, <2>2 DEF Occurs
<1>5. run[r].status # "NONE" /\ run'[r].status # "NONE"
  BY DEF Terminal
<1>6. QED
  BY <1>2, <1>3, <1>4, <1>5 DEF RunInv

\* What the stages rest on is never taken back.
Grew(r) ==
  /\ origin[r] # NoOrigin => origin'[r] = origin[r]
  /\ assignment[r] # 0 => assignment'[r] # 0
  /\ \A f : Occurs(journal[r], f) => Occurs(journal'[r], f)

LEMMA StageKept ==
  ASSUME TypeOK, NEW p \in Runner, StageInv(p), \A r \in Run : Grew(r),
         pc'[p] = pc[p], held'[p] = held[p]
  PROVE  StageInv(p)'
<1>1. CASE pc[p] = "idle"
  BY <1>1 DEF StageInv
<1>2. CASE pc[p] # "idle"
  <2>1. held[p] \in Run
    BY <1>2 DEF StageInv, TypeOK
  <2>2. Grew(held[p])
    BY <2>1
  <2>3. QED
    BY <1>2, <2>2 DEF StageInv, Grew
<1>3. QED
  BY <1>1, <1>2

-----------------------------------------------------------------------------
(* Types.                                                                  *)

LEMMA InitParts == Init => Parts
<1> SUFFICES ASSUME Init PROVE Parts
  OBVIOUS
<1>1. TypeOK
  BY ConstantsAssumption, EmptySeq DEF Init, TypeOK, NewRow, Row, Status, PC
<1>2. ASSUME NEW r \in Run PROVE RunInv(r)
  <2>1. Holders(r) = {}
    BY ConstantsAssumption DEF Holders, Init
  <2>2. Cardinality(Holders(r)) = 0
    BY <2>1, FS_EmptySet
  <2>3. journal[r] = <<>> /\ journal[r] \in Seq(Event) /\ DOMAIN journal[r] = {}
    BY EmptySeq DEF Init
  <2>4. \A e : Count(journal[r], e) = 0 /\ ~Occurs(journal[r], e)
    <3> SUFFICES ASSUME NEW e PROVE Count(journal[r], e) = 0 /\ ~Occurs(journal[r], e)
      OBVIOUS
    <3>1. ~Occurs(journal[r], e)
      BY <2>3 DEF Occurs
    <3>2. QED
      BY <2>3, <3>1, CountFacts
  <2>5. run[r] = NewRow /\ origin[r] = NoOrigin /\ assignment[r] = 0 /\ plan[r] = FALSE
    BY DEF Init
  <2>6. Story("NONE", 0, journal[r])
    BY <2>3, <2>4 DEF Story, Terminal
  <2>7. run[r].status = "NONE" /\ run[r].attempts = 0
    BY <2>5 DEF NewRow
  <2>8. plan[r] = Occurs(journal[r], "AI_PLAN_RECORDED")
    BY <2>4, <2>5 DEF Occurs
  <2>9. \A e : Count(journal[r], e) <= 1
    BY <2>4
  <2>10. (run[r].status = "NONE") = (origin[r] = NoOrigin)
    BY <2>5, <2>7
  <2>11. Count(journal[r], "RETRY_SCHEDULED") + Cardinality(Holders(r)) <= run[r].attempts
    BY <2>2, <2>4, <2>7
  <2>12. QED
    BY <2>3, <2>5, <2>6, <2>7, <2>8, <2>9, <2>10, <2>11 DEF RunInv
<1>3. ASSUME NEW p \in Runner PROVE StageInv(p)
  BY DEF Init, StageInv
<1>4. QED
  BY <1>1, <1>2, <1>3 DEF Parts

\* Every invocation at work holds a run with a row.
LEMMA HoldsRun ==
  ASSUME Parts, NEW p \in Runner, pc[p] # "idle"
  PROVE  /\ held[p] \in Run /\ origin[held[p]] # NoOrigin
         /\ origin[held[p]] \in [version: 1..MaxVersion, mode: Mode]
  BY DEF Parts, StageInv, TypeOK

LEMMA ReleaseType ==
  ASSUME TypeOK, NEW p \in Runner, Release(p)
  PROVE  /\ pc' \in [Runner -> PC] /\ held' \in [Runner -> Run \cup {NoRun}]
         /\ attemptSeen' \in [Runner -> 0..MaxAttempts]
  BY ConstantsAssumption DEF TypeOK, Release, Goto, PC

\* The types of the columns a settling or completing write sets.
LEMMA UnleasedType ==
  ASSUME NEW row \in Row, NEW s \in Status
  PROVE  /\ Unleased(row, s) \in Row
         /\ [Unleased(row, s) EXCEPT !.linked = TRUE] \in Row
         /\ [Unleased(row, s) EXCEPT !.available = FALSE] \in Row
  BY DEF Unleased, Row

LEMMA ClaimType ==
  ASSUME TypeOK, NEW p \in Runner, ClaimNext(p)
  PROVE  TypeOK'
<1>1. PICK reaped \in SUBSET Exhausted, claimed \in {{}} \cup {{r} : r \in Claimable} :
        /\ run' = [r \in Run |->
             IF r \in reaped THEN Unleased(run[r], "FAILED")
             ELSE IF r \in claimed THEN Leased(run[r], NameOf[p]) ELSE run[r]]
        /\ journal' = [r \in Run |->
             IF r \in reaped THEN Logged(journal[r], "RUN_FAILED")
             ELSE IF r \in claimed THEN Logged(journal[r], "LEASE_ACQUIRED")
             ELSE journal[r]]
        /\ IF claimed = {} THEN UNCHANGED <<pc, held>>
           ELSE /\ Goto(p, "review")
                /\ \E r \in claimed : held' = [held EXCEPT ![p] = r]
  BY DEF ClaimNext
<1>2. claimed \subseteq Claimable
  BY <1>1
<1>3. ASSUME NEW r \in Run PROVE run'[r] \in Row
  <2>1. run[r] \in Row
    BY DEF TypeOK
  <2>2. Unleased(run[r], "FAILED") \in Row
    BY <2>1, UnleasedType DEF Status, Terminal
  <2>3. r \in Claimable => Leased(run[r], NameOf[p]) \in Row
    <3>1. NameOf[p] \in Name
      BY ConstantsAssumption
    <3>2. r \in Claimable => run[r].attempts + 1 \in 0..MaxAttempts
      BY <2>1, ConstantsAssumption DEF Claimable, Row
    <3>3. QED
      BY <2>1, <3>1, <3>2 DEF Leased, Row, Status
  <2>4. QED
    BY <1>1, <1>2, <2>1, <2>2, <2>3
<1>4. ASSUME NEW r \in Run PROVE journal'[r] \in Seq(Event)
  <2>1. \A e \in Event : Logged(journal[r], e) \in Seq(Event)
    BY LoggedFacts DEF TypeOK
  <2>2. QED
    BY <1>1, <2>1 DEF TypeOK, Event
<1>5. run' \in [Run -> Row] /\ journal' \in [Run -> Seq(Event)]
  BY <1>1, <1>3, <1>4
<1>6. pc' \in [Runner -> PC] /\ held' \in [Runner -> Run \cup {NoRun}]
  BY <1>1, <1>2 DEF TypeOK, Goto, PC, Claimable
<1>7. QED
  BY <1>5, <1>6 DEF TypeOK, ClaimNext

LEMMA ProceedType ==
  ASSUME Parts, NEW p \in Runner, Proceed(p)
  PROVE  TypeOK'
<1> DEFINE r == held[p]
<1>0. TypeOK
  BY DEF Parts
<1>h. pc[p] # "idle" => r \in Run
  BY HoldsRun
<1>l. ASSUME NEW s \in Run, NEW e \in Event
      PROVE  Logged(journal[s], e) \in Seq(Event) /\ LoggedOnce(journal[s], e) \in Seq(Event)
  BY <1>0, LoggedFacts, LoggedOnceFacts DEF TypeOK
<1>1. CASE ReviewFound(p) \/ PlanFound(p) \/ Heartbeat(p) \/ CompleteCheck(p) \/ Fail(p)
  BY <1>0, <1>1 DEF TypeOK, rows, PC, Goto, ReviewFound, PlanFound, Heartbeat,
                    CompleteCheck, Fail
<1>2. CASE ReviewCreate(p)
  <2>1. assignment' \in [Run -> 0..MaxVersion]
    <3>1. boqVersion \in 0..MaxVersion
      BY <1>0, ConstantsAssumption DEF TypeOK
    <3>2. QED
      BY <1>0, <1>2, <3>1 DEF TypeOK, ReviewCreate
  <2>2. QED
    BY <1>0, <1>2, <2>1 DEF TypeOK, PC, Goto, ReviewCreate
<1>3. CASE Link(p)
  <2>1. r \in Run
    BY <1>h, <1>3 DEF Link
  <2>2. LoggedOnce(journal[r], "DETERMINISTIC_REVIEW_LINKED") \in Seq(Event)
    BY <1>l, <2>1 DEF Event
  <2>3. LoggedOnce(LoggedOnce(journal[r], "DETERMINISTIC_REVIEW_LINKED"),
                   "AI_PLANNER_SKIPPED") \in Seq(Event)
    BY <2>2, LoggedOnceFacts DEF Event
  <2>4. journal' \in [Run -> Seq(Event)]
    BY <1>0, <1>3, <2>2, <2>3 DEF TypeOK, Link
  <2>5. run' \in [Run -> Row]
    BY <1>0, <1>3, <2>1 DEF TypeOK, Link, Row
  <2>6. QED
    BY <1>0, <1>3, <2>4, <2>5 DEF TypeOK, Link, Goto, PC
<1>4. CASE PersistPlan(p)
  <2>1. r \in Run
    BY <1>h, <1>4 DEF PersistPlan
  <2>2. LoggedOnce(journal[r], "AI_PLAN_RECORDED") \in Seq(Event)
    BY <1>l, <2>1 DEF Event
  <2>3. journal' \in [Run -> Seq(Event)]
    BY <1>0, <1>4, <2>2 DEF TypeOK, PersistPlan
  <2>4. QED
    BY <1>0, <1>4, <2>3 DEF TypeOK, PersistPlan, Goto, PC
<1>5. CASE CompleteWrite(p)
  <2>1. r \in Run
    BY <1>h, <1>5 DEF CompleteWrite
  <2>2. [Unleased(run[r], "COMPLETED") EXCEPT !.linked = TRUE] \in Row
    BY <1>0, <2>1, UnleasedType DEF TypeOK, Status, Terminal
  <2>3. run' \in [Run -> Row]
    BY <1>0, <1>5, <2>2 DEF TypeOK, CompleteWrite
  <2>4. journal' \in [Run -> Seq(Event)]
    BY <1>0, <1>5, <1>l, <2>1 DEF TypeOK, CompleteWrite, Event
  <2>5. QED
    BY <1>0, <1>5, <2>3, <2>4, ReleaseType DEF TypeOK, CompleteWrite
<1>6. CASE SettleCheck(p)
  <2>1. run[r].attempts \in 0..MaxAttempts
    BY <1>0, <1>6, <1>h DEF TypeOK, Row, SettleCheck
  <2>2. QED
    BY <1>0, <1>6, <2>1 DEF TypeOK, rows, SettleCheck, Goto, PC
<1>7. CASE SettleLost(p) \/ Crash(p)
  BY <1>0, <1>7, ReleaseType DEF TypeOK, rows, SettleLost, Crash
<1>8. CASE SettleRetry(p)
  <2>1. r \in Run
    BY <1>h, <1>8 DEF SettleRetry
  <2>2. [Unleased(run[r], "QUEUED") EXCEPT !.available = FALSE] \in Row
    BY <1>0, <2>1, UnleasedType DEF TypeOK, Status
  <2>3. run' \in [Run -> Row]
    BY <1>0, <1>8, <2>2 DEF TypeOK, SettleRetry
  <2>4. journal' \in [Run -> Seq(Event)]
    BY <1>0, <1>8, <1>l, <2>1 DEF TypeOK, SettleRetry, Event
  <2>5. QED
    BY <1>0, <1>8, <2>3, <2>4, ReleaseType DEF TypeOK, SettleRetry
<1>9. CASE SettleFailed(p)
  <2>1. r \in Run
    BY <1>h, <1>9 DEF SettleFailed
  <2>2. Unleased(run[r], "FAILED") \in Row
    BY <1>0, <2>1, UnleasedType DEF TypeOK, Status, Terminal
  <2>3. run' \in [Run -> Row]
    BY <1>0, <1>9, <2>2 DEF TypeOK, SettleFailed
  <2>4. journal' \in [Run -> Seq(Event)]
    BY <1>0, <1>9, <1>l, <2>1 DEF TypeOK, SettleFailed, Event
  <2>5. QED
    BY <1>0, <1>9, <2>3, <2>4, ReleaseType DEF TypeOK, SettleFailed
<1>10. QED
  BY <1>1, <1>2, <1>3, <1>4, <1>5, <1>6, <1>7, <1>8, <1>9 DEF Proceed

\* The world's steps: an edit of the BOQ, time, a request.
World ==
  \/ EditBoq
  \/ \E r \in Run : \/ LeaseExpires(r) \/ BackoffPasses(r)
                    \/ \E v \in 1..boqVersion, m \in Mode : Enqueue(r, v, m)

LEMMA WorldType ==
  ASSUME TypeOK, World
  PROVE  TypeOK'
<1>1. CASE EditBoq
  BY <1>1, ConstantsAssumption DEF EditBoq, TypeOK, rows
<1>2. ASSUME NEW r \in Run, LeaseExpires(r) \/ BackoffPasses(r)
      PROVE  TypeOK'
  <2>1. run' \in [Run -> Row]
    <3>1. [run[r] EXCEPT !.expired = TRUE] \in Row /\ [run[r] EXCEPT !.available = TRUE] \in Row
      BY DEF TypeOK, Row
    <3>2. QED
      BY <1>2, <3>1 DEF LeaseExpires, BackoffPasses, TypeOK
  <2>2. QED
    BY <1>2, <2>1 DEF LeaseExpires, BackoffPasses, TypeOK
<1>3. ASSUME NEW r \in Run, NEW v \in 1..boqVersion, NEW m \in Mode, Enqueue(r, v, m)
      PROVE  TypeOK'
  <2>1. run' \in [Run -> Row]
    BY <1>3 DEF Enqueue, TypeOK, Row, Status
  <2>2. Logged(journal[r], "RUN_ENQUEUED") \in Seq(Event)
    BY LoggedFacts DEF TypeOK, Event
  <2>3. journal' \in [Run -> Seq(Event)]
    BY <1>3, <2>2 DEF Enqueue, TypeOK
  <2>4. origin' \in [Run -> [version: 1..MaxVersion, mode: Mode] \cup {NoOrigin}]
    BY <1>3, ConstantsAssumption DEF Enqueue, TypeOK
  <2>5. QED
    BY <1>3, <2>1, <2>3, <2>4 DEF Enqueue, TypeOK
<1>4. QED
  BY <1>1, <1>2, <1>3 DEF World

LEMMA TypeStep ==
  ASSUME Parts, Next
  PROVE  TypeOK'
<1>1. World \/ (\E p \in Runner : ClaimNext(p)) \/ (\E p \in Runner : Proceed(p))
  BY DEF Next, World
<1>2. QED
  BY <1>1, WorldType, ClaimType, ProceedType DEF Parts

-----------------------------------------------------------------------------
(* Each step keeps the invariant.                                          *)

\* The row of run r and what hangs on it stay as they are.
SameRun(r) ==
  /\ origin'[r] = origin[r] /\ run'[r] = run[r] /\ journal'[r] = journal[r]
  /\ assignment'[r] = assignment[r] /\ plan'[r] = plan[r]

\* A step of invocation p that writes no row but its own run's, and which the other
\* invocations do not notice: what is left to show is its run and its stage.
LEMMA OwnStep ==
  ASSUME Parts, NEW p \in Runner, TypeOK',
         \A q \in Runner \ {p} : pc'[q] = pc[q] /\ held'[q] = held[q],
         \A r \in Run : Holders(r)' \subseteq Holders(r),
         \A r \in Run : SameRun(r) \/ (r = held[p] /\ Grew(r) /\ RunInv(r)'),
         StageInv(p)'
  PROVE  Parts'
<1>1. ASSUME NEW r \in Run PROVE RunInv(r)'
  <2>1. CASE SameRun(r)
    BY <2>1, RunKept DEF Parts, SameRun
  <2>2. CASE ~SameRun(r)
    BY <2>2
  <2>3. QED
    BY <2>1, <2>2
<1>2. \A r \in Run : Grew(r)
  <2> SUFFICES ASSUME NEW r \in Run PROVE Grew(r)
    OBVIOUS
  <2>1. CASE SameRun(r)
    BY <2>1 DEF SameRun, Grew
  <2>2. QED
    BY <2>1
<1>3. ASSUME NEW q \in Runner PROVE StageInv(q)'
  <2>1. CASE q = p
    BY <2>1
  <2>2. CASE q # p
    BY <1>2, <2>2, StageKept DEF Parts
  <2>3. QED
    BY <2>1, <2>2
<1>4. QED
  BY <1>1, <1>3 DEF Parts

\* Steps that write no row and keep their run.
LEMMA QuietStep ==
  ASSUME Parts, NEW p \in Runner, TypeOK', UNCHANGED <<rows, held>>,
         \A q \in Runner \ {p} : pc'[q] = pc[q], StageInv(p)'
  PROVE  Parts'
<1>1. \A r \in Run : SameRun(r)
  BY DEF SameRun, rows
<1>2. \A r \in Run : Holders(r)' \subseteq Holders(r)
  BY DEF Holders
<1>3. \A q \in Runner \ {p} : pc'[q] = pc[q] /\ held'[q] = held[q]
  OBVIOUS
<1>4. QED
  BY <1>1, <1>2, <1>3, OwnStep

LEMMA LookStep ==
  ASSUME Parts, TypeOK', NEW p \in Runner,
         \/ ReviewFound(p) \/ PlanFound(p) \/ Heartbeat(p) \/ CompleteCheck(p)
         \/ Fail(p) \/ SettleCheck(p)
  PROVE  Parts'
<1>1. UNCHANGED <<rows, held>> /\ \A q \in Runner \ {p} : pc'[q] = pc[q]
  BY DEF Parts, TypeOK, ReviewFound, PlanFound, Heartbeat, CompleteCheck, Fail, SettleCheck,
         Goto
<1>2. StageInv(p)
  BY DEF Parts
<1>3. pc'[p] # "idle" /\ pc[p] # "idle"
  BY DEF Parts, TypeOK, ReviewFound, PlanFound, Heartbeat, CompleteCheck, Fail, SettleCheck,
         Goto
<1>4. CASE ReviewFound(p)
  <2>1. pc'[p] = "link" /\ assignment[held[p]] # 0
    BY <1>4 DEF Parts, TypeOK, ReviewFound, Goto
  <2>2. StageInv(p)'
    BY <1>1, <1>2, <1>3, <2>1 DEF StageInv, rows
  <2>3. QED
    BY <1>1, <2>2, QuietStep
<1>5. CASE PlanFound(p) \/ Heartbeat(p) \/ CompleteCheck(p)
  <2>1. pc'[p] \in {"complete", "planning", "completing"} /\ pc[p] \in {"plan", "complete"}
        /\ (pc'[p] = "planning" => pc[p] = "plan")
    BY <1>5 DEF Parts, TypeOK, PlanFound, Heartbeat, CompleteCheck, Goto
  <2>2. StageInv(p)'
    BY <1>1, <1>2, <1>3, <2>1 DEF StageInv, rows
  <2>3. QED
    BY <1>1, <2>2, QuietStep
<1>6. CASE Fail(p) \/ SettleCheck(p)
  <2>1. pc'[p] \in {"settle", "settling"}
    BY <1>6 DEF Parts, TypeOK, Fail, SettleCheck, Goto
  <2>2. StageInv(p)'
    BY <1>1, <1>2, <1>3, <2>1 DEF StageInv, rows
  <2>3. QED
    BY <1>1, <2>2, QuietStep
<1>7. QED
  BY <1>4, <1>5, <1>6

\* What every step that lets go of a run leaves.
LEMMA Released ==
  ASSUME Parts, NEW p \in Runner, pc[p] # "idle", Release(p)
  PROVE  /\ held[p] \in Run
         /\ \A q \in Runner \ {p} : pc'[q] = pc[q] /\ held'[q] = held[q]
         /\ \A r \in Run : Holders(r)' \subseteq Holders(r)
         /\ StageInv(p)'
<1>1. held[p] \in Run
  BY HoldsRun
<1>2. TypeOK
  BY DEF Parts
<1>3. pc'[p] = "idle" /\ held'[p] = NoRun
  BY <1>2 DEF TypeOK, Release, Goto
<1>4. \A q \in Runner \ {p} : pc'[q] = pc[q] /\ held'[q] = held[q]
  BY <1>2 DEF TypeOK, Release, Goto
<1>5. \A r \in Run : Holders(r)' \subseteq Holders(r)
  BY <1>1, <1>2, HoldersRelease DEF TypeOK
<1>6. StageInv(p)'
  BY <1>3 DEF StageInv
<1>7. QED
  BY <1>1, <1>4, <1>5, <1>6

LEMMA LetGoStep ==
  ASSUME Parts, TypeOK', NEW p \in Runner, SettleLost(p) \/ Crash(p)
  PROVE  Parts'
<1>1. pc[p] # "idle" /\ Release(p) /\ UNCHANGED rows
  BY DEF SettleLost, Crash
<1>2. \A r \in Run : SameRun(r)
  BY <1>1 DEF SameRun, rows
<1>3. QED
  BY <1>1, <1>2, Released, OwnStep

\* A run that is being worked on or waits has more attempts counted than retries, as
\* long as somebody holds it.
LEMMA RetriesLeft ==
  ASSUME Parts, NEW p \in Runner, NEW r \in Run, held[p] = r
  PROVE  /\ Count(journal[r], "RETRY_SCHEDULED") \in Nat /\ run[r].attempts \in Nat
         /\ Cardinality(Holders(r)) \in Nat \ {0}
         /\ Count(journal[r], "RETRY_SCHEDULED") + Cardinality(Holders(r)) <= run[r].attempts
<1>1. journal[r] \in Seq(Event) /\ run[r].attempts \in Nat
  BY ConstantsAssumption DEF Parts, TypeOK, Row
<1>2. Count(journal[r], "RETRY_SCHEDULED") \in Nat
  BY <1>1, CountFacts
<1>3. Holders(r) # {}
  BY DEF Holders
<1>4. Cardinality(Holders(r)) \in Nat \ {0}
  BY <1>3, HoldersFinite, FS_EmptySet
<1>5. RunInv(r)
  BY DEF Parts
<1>6. QED
  BY <1>1, <1>2, <1>4, <1>5 DEF RunInv

\* The facts about a run and its holder that the writing steps start from.
LEMMA AtWork ==
  ASSUME Parts, NEW p \in Runner, NEW r \in Run, held[p] = r, pc[p] # "idle"
  PROVE  /\ TypeOK /\ RunInv(r) /\ StageInv(p)
         /\ journal[r] \in Seq(Event) /\ run[r] \in Row /\ run[r].attempts \in Nat
         /\ origin[r] # NoOrigin /\ origin[r].mode \in Mode
  BY ConstantsAssumption, HoldsRun DEF Parts, TypeOK, Row

\* The three writes that end an invocation's work on its run.
LEMMA EndStep ==
  ASSUME Parts, TypeOK', NEW p \in Runner, NEW r \in Run, held[p] = r, NEW e \in Event,
         pc[p] # "idle", Release(p),
         run[r].status \in {"QUEUED", "RUNNING"},
         run'[r].status \in {"QUEUED"} \cup Terminal,
         IF run'[r].status \in Terminal THEN e = TerminalEvent(run'[r].status)
                                        ELSE e = "RETRY_SCHEDULED",
         run'[r].attempts = run[r].attempts, journal'[r] = Logged(journal[r], e),
         \A s \in Run : s # r => run'[s] = run[s] /\ journal'[s] = journal[s],
         UNCHANGED <<origin, assignment, plan>>,
         run'[r].status = "COMPLETED" => Delivered(r)'
  PROVE  Parts'
<1>0. /\ TypeOK /\ RunInv(r)
      /\ journal[r] \in Seq(Event) /\ run[r].attempts \in Nat
  BY AtWork
<1>1. /\ Count(journal[r], "RETRY_SCHEDULED") \in Nat
      /\ Cardinality(Holders(r)) \in Nat \ {0}
      /\ Count(journal[r], "RETRY_SCHEDULED") + Cardinality(Holders(r)) <= run[r].attempts
  BY RetriesLeft
<1>2. Cardinality(Holders(r)') = Cardinality(Holders(r)) - 1
  BY <1>0, HoldersRelease DEF TypeOK
<1>3. Count(journal'[r], "RETRY_SCHEDULED") <= Count(journal[r], "RETRY_SCHEDULED") + 1
  <2>1. Count(Logged(journal[r], e), "RETRY_SCHEDULED") =
          IF "RETRY_SCHEDULED" = e THEN Count(journal[r], "RETRY_SCHEDULED") + 1
          ELSE Count(journal[r], "RETRY_SCHEDULED")
    BY <1>0, LoggedCount
  <2>2. QED
    BY <1>1, <2>1
<1>4. Count(journal'[r], "RETRY_SCHEDULED") \in Nat
  BY <1>0, LoggedFacts, CountFacts
<1>5. Count(journal'[r], "RETRY_SCHEDULED") + Cardinality(Holders(r)') <= run'[r].attempts
  BY <1>0, <1>1, <1>2, <1>3, <1>4
<1>6. Count(journal[r], "RETRY_SCHEDULED") < run[r].attempts
  BY <1>0, <1>1
<1>7. e \notin Repeated \cup {"RUN_ENQUEUED", "LEASE_ACQUIRED"}
  BY DEF TerminalEvent, Repeated, Terminal
<1>8. IF run'[r].status \in Terminal THEN e = TerminalEvent(run'[r].status) ELSE e \notin Ends
  BY DEF Ends
<1>9. RunInv(r)'
  BY <1>0, <1>5, <1>6, <1>7, <1>8, RunMoves
<1>10. Grew(r)
  BY <1>0, LoggedOccurs DEF Grew
<1>11. \A s \in Run : SameRun(s) \/ (s = r /\ Grew(s) /\ RunInv(s)')
  BY <1>9, <1>10 DEF SameRun
<1>12. QED
  BY <1>11, Released, OwnStep

LEMMA WriteStep ==
  ASSUME Parts, TypeOK', NEW p \in Runner, NEW r \in Run, held[p] = r,
         CompleteWrite(p) \/ SettleRetry(p) \/ SettleFailed(p)
  PROVE  Parts'
<1>0. pc[p] # "idle" /\ Release(p) /\ UNCHANGED <<origin, assignment, plan>>
  BY DEF CompleteWrite, SettleRetry, SettleFailed
<1>1. /\ TypeOK /\ RunInv(r) /\ StageInv(p) /\ run[r] \in Row
      /\ origin[r] # NoOrigin /\ origin[r].mode \in Mode
  BY <1>0, AtWork
<1>2. \A s \in Run : s # r => run'[s] = run[s] /\ journal'[s] = journal[s]
  BY <1>1 DEF CompleteWrite, SettleRetry, SettleFailed, TypeOK
<1>3. CASE CompleteWrite(p)
  <2>1. /\ pc[p] = "completing" /\ run[r].status = "RUNNING"
        /\ origin[r].mode = Bounded => plan[r]
        /\ run'[r] = [Unleased(run[r], "COMPLETED") EXCEPT !.linked = TRUE]
        /\ journal'[r] = Logged(journal[r], "RUN_COMPLETED")
    BY <1>1, <1>3 DEF CompleteWrite, TypeOK
  <2>2. run'[r].status = "COMPLETED" /\ run'[r].attempts = run[r].attempts /\ run'[r].linked
    BY <1>1, <2>1 DEF Unleased, Row
  <2>3. /\ assignment[r] = origin[r].version
        /\ Occurs(journal[r], "DETERMINISTIC_REVIEW_LINKED")
        /\ origin[r].mode = Deterministic => Occurs(journal[r], "AI_PLANNER_SKIPPED")
    BY <1>1, <2>1 DEF StageInv, RunInv
  <2>4. origin[r].mode # Bounded => ~plan[r] /\ origin[r].mode = Deterministic
    BY <1>1, ConstantsAssumption DEF RunInv
  <2>5. \A f : Occurs(journal[r], f) => Occurs(journal'[r], f)
    BY <1>1, <2>1, LoggedOccurs DEF TypeOK, Event
  <2>6. Delivered(r)'
    BY <1>0, <2>1, <2>2, <2>3, <2>4, <2>5 DEF Delivered
  <2>7. TerminalEvent("COMPLETED") = "RUN_COMPLETED" /\ "RUN_COMPLETED" \in Event
        /\ "COMPLETED" \in Terminal
    BY DEF TerminalEvent, Event, Terminal
  <2>8. /\ run[r].status \in {"QUEUED", "RUNNING"}
        /\ run'[r].status \in {"QUEUED"} \cup Terminal
        /\ IF run'[r].status \in Terminal THEN "RUN_COMPLETED" = TerminalEvent(run'[r].status)
                                          ELSE "RUN_COMPLETED" = "RETRY_SCHEDULED"
        /\ run'[r].status = "COMPLETED" => Delivered(r)'
    BY <2>1, <2>2, <2>6, <2>7
  <2>9. QED
    BY <1>0, <1>2, <2>1, <2>2, <2>7, <2>8, EndStep
<1>4. CASE SettleRetry(p)
  <2>1. /\ run[r].status \in {"QUEUED", "RUNNING"}
        /\ run'[r] = [Unleased(run[r], "QUEUED") EXCEPT !.available = FALSE]
        /\ journal'[r] = Logged(journal[r], "RETRY_SCHEDULED")
    BY <1>1, <1>4 DEF SettleRetry, TypeOK
  <2>2. run'[r].status = "QUEUED" /\ run'[r].attempts = run[r].attempts
    BY <1>1, <2>1 DEF Unleased, Row
  <2>3. "RETRY_SCHEDULED" \in Event /\ "QUEUED" \notin Terminal
    BY DEF Event, Terminal
  <2>4. /\ run'[r].status \in {"QUEUED"} \cup Terminal
        /\ IF run'[r].status \in Terminal THEN "RETRY_SCHEDULED" = TerminalEvent(run'[r].status)
                                          ELSE "RETRY_SCHEDULED" = "RETRY_SCHEDULED"
        /\ run'[r].status = "COMPLETED" => Delivered(r)'
    BY <2>2, <2>3
  <2>5. QED
    BY <1>0, <1>2, <2>1, <2>2, <2>3, <2>4, EndStep
<1>5. CASE SettleFailed(p)
  <2>1. /\ run[r].status = "RUNNING"
        /\ run'[r] = Unleased(run[r], "FAILED")
        /\ journal'[r] = Logged(journal[r], "RUN_FAILED")
    BY <1>1, <1>5 DEF SettleFailed, TypeOK
  <2>2. run'[r].status = "FAILED" /\ run'[r].attempts = run[r].attempts
    BY <1>1, <2>1 DEF Unleased, Row
  <2>3. TerminalEvent("FAILED") = "RUN_FAILED" /\ "RUN_FAILED" \in Event
        /\ "FAILED" \in Terminal
    BY DEF TerminalEvent, Event, Terminal
  <2>4. QED
    BY <1>0, <1>1, <1>2, <2>1, <2>2, <2>3, EndStep
<1>6. QED
  BY <1>3, <1>4, <1>5

\* The run gets its review, of the version it was enqueued with.
LEMMA ReviewCreateStep ==
  ASSUME Parts, TypeOK', NEW p \in Runner, NEW r \in Run, held[p] = r, ReviewCreate(p)
  PROVE  Parts'
<1>1. TypeOK /\ RunInv(r) /\ StageInv(p) /\ origin[r] # NoOrigin
  BY AtWork DEF ReviewCreate
<1>2. /\ pc[p] = "review" /\ run[r].status = "RUNNING" /\ assignment[r] = 0
      /\ boqVersion = origin[r].version /\ boqVersion # 0
      /\ UNCHANGED <<origin, run, journal, plan, held>>
      /\ assignment' = [assignment EXCEPT ![r] = boqVersion] /\ pc' = [pc EXCEPT ![p] = "link"]
  BY <1>1, ConstantsAssumption DEF ReviewCreate, HoldsLease, Goto, TypeOK
<1>3. assignment'[r] = origin[r].version /\ assignment'[r] # 0 /\ held'[p] = r
      /\ pc'[p] = "link"
  BY <1>1, <1>2 DEF TypeOK
<1>4. \A s \in Run : Holders(s)' = Holders(s)
  BY <1>2 DEF Holders
<1>5. RunInv(r)'
  BY <1>1, <1>2, <1>3, <1>4 DEF RunInv
<1>6. Grew(r)
  BY <1>2, <1>3 DEF Grew
<1>7. \A s \in Run : SameRun(s) \/ (s = r /\ Grew(s) /\ RunInv(s)')
  BY <1>1, <1>2, <1>5, <1>6 DEF SameRun, TypeOK
<1>8. StageInv(p)'
  BY <1>1, <1>2, <1>3 DEF StageInv
<1>9. \A q \in Runner \ {p} : pc'[q] = pc[q] /\ held'[q] = held[q]
  BY <1>1, <1>2 DEF TypeOK
<1>10. QED
  BY <1>4, <1>7, <1>8, <1>9, OwnStep

\* Work journalled once: the story stays, and nothing repeated is journalled twice.
LEMMA OnceKept ==
  ASSUME NEW j \in Seq(Event), NEW s \in {"QUEUED", "RUNNING"}, NEW n \in Nat, Story(s, n, j),
         \A f \in Repeated : Count(j, f) <= 1, NEW e \in Repeated
  PROVE  /\ LoggedOnce(j, e) \in Seq(Event) /\ Story(s, n, LoggedOnce(j, e))
         /\ \A f \in Repeated : Count(LoggedOnce(j, e), f) <= 1
         /\ \A f : Occurs(LoggedOnce(j, e), f) <=> Occurs(j, f) \/ f = e
         /\ Count(LoggedOnce(j, e), "RETRY_SCHEDULED") = Count(j, "RETRY_SCHEDULED")
<1>1. e \in Event /\ e # "RETRY_SCHEDULED"
  BY DEF Repeated, Event
<1>2. /\ LoggedOnce(j, e) \in Seq(Event)
      /\ \A f : Occurs(LoggedOnce(j, e), f) <=> Occurs(j, f) \/ f = e
      /\ Count(j, e) <= 1 => Count(LoggedOnce(j, e), e) <= 1
      /\ \A f : f # e => Count(LoggedOnce(j, e), f) = Count(j, f)
  BY <1>1, LoggedOnceFacts
<1>3. Story(s, n, LoggedOnce(j, e))
  BY StoryOnce DEF Repeated
<1>4. \A f \in Repeated : Count(LoggedOnce(j, e), f) <= 1
  BY <1>2
<1>5. QED
  BY <1>1, <1>2, <1>3, <1>4

\* A running run gets work recorded in its journal.
LEMMA RunRecords ==
  ASSUME TypeOK, NEW r \in Run, RunInv(r), run[r].status = "RUNNING",
         run'[r].status = "RUNNING", run'[r].attempts = run[r].attempts,
         origin'[r] = origin[r], assignment'[r] = assignment[r], Holders(r)' = Holders(r),
         Story("RUNNING", run[r].attempts, journal'[r]),
         \A f \in Repeated : Count(journal'[r], f) <= 1,
         Count(journal'[r], "RETRY_SCHEDULED") = Count(journal[r], "RETRY_SCHEDULED"),
         plan'[r] = Occurs(journal'[r], "AI_PLAN_RECORDED"),
         plan'[r] => origin[r].mode = Bounded
  PROVE  RunInv(r)'
  BY DEF RunInv

LEMMA LinkStep ==
  ASSUME Parts, TypeOK', NEW p \in Runner, NEW r \in Run, held[p] = r, Link(p)
  PROVE  Parts'
<1> DEFINE j == journal[r]
           j1 == LoggedOnce(j, "DETERMINISTIC_REVIEW_LINKED")
           j2 == LoggedOnce(j1, "AI_PLANNER_SKIPPED")
           n == run[r].attempts
<1>1. /\ TypeOK /\ RunInv(r) /\ StageInv(p) /\ origin[r] # NoOrigin /\ n \in Nat
      /\ j \in Seq(Event) /\ run[r] \in Row
  BY AtWork DEF Link
<1>2. /\ pc[p] = "link" /\ run[r].status = "RUNNING"
      /\ run' = [run EXCEPT ![r].linked = TRUE]
      /\ journal' = [journal EXCEPT ![r] = IF origin[r].mode = Deterministic THEN j2 ELSE j1]
      /\ pc' = [pc EXCEPT ![p] = IF origin[r].mode = Bounded THEN "plan" ELSE "complete"]
      /\ UNCHANGED <<origin, assignment, plan, held>>
  BY <1>1 DEF Link, HoldsLease, Goto
<1>3. /\ run'[r].status = "RUNNING" /\ run'[r].attempts = n
      /\ journal'[r] = IF origin[r].mode = Deterministic THEN j2 ELSE j1
      /\ pc'[p] = IF origin[r].mode = Bounded THEN "plan" ELSE "complete"
      /\ \A s \in Run : s # r => run'[s] = run[s] /\ journal'[s] = journal[s]
      /\ \A q \in Runner \ {p} : pc'[q] = pc[q] /\ held'[q] = held[q]
      /\ held'[p] = r
  BY <1>1, <1>2 DEF TypeOK, Row
<1>4. Story("RUNNING", n, j) /\ \A f \in Repeated : Count(j, f) <= 1
  BY <1>1, <1>2 DEF RunInv
<1>5. /\ "DETERMINISTIC_REVIEW_LINKED" \in Repeated /\ "AI_PLANNER_SKIPPED" \in Repeated
      /\ "RUNNING" \in {"QUEUED", "RUNNING"}
  BY DEF Repeated
<1>6. /\ j1 \in Seq(Event) /\ Story("RUNNING", n, j1)
      /\ \A f \in Repeated : Count(j1, f) <= 1
      /\ \A f : Occurs(j1, f) <=> Occurs(j, f) \/ f = "DETERMINISTIC_REVIEW_LINKED"
      /\ Count(j1, "RETRY_SCHEDULED") = Count(j, "RETRY_SCHEDULED")
  BY <1>1, <1>4, <1>5, OnceKept
<1> HIDE DEF j1
<1>7. /\ Story("RUNNING", n, j2)
      /\ \A f \in Repeated : Count(j2, f) <= 1
      /\ \A f : Occurs(j2, f) <=> Occurs(j1, f) \/ f = "AI_PLANNER_SKIPPED"
      /\ Count(j2, "RETRY_SCHEDULED") = Count(j1, "RETRY_SCHEDULED")
  BY <1>1, <1>5, <1>6, OnceKept
<1> HIDE DEF j2
<1>8. /\ Occurs(journal'[r], "AI_PLAN_RECORDED") <=> Occurs(j, "AI_PLAN_RECORDED")
      /\ Occurs(journal'[r], "DETERMINISTIC_REVIEW_LINKED")
      /\ origin[r].mode = Deterministic => Occurs(journal'[r], "AI_PLANNER_SKIPPED")
      /\ \A f : Occurs(j, f) => Occurs(journal'[r], f)
  BY <1>3, <1>6, <1>7
<1>9. plan'[r] = Occurs(journal'[r], "AI_PLAN_RECORDED")
  <2>1. plan'[r] = Occurs(j, "AI_PLAN_RECORDED")
    BY <1>1, <1>2 DEF RunInv
  <2>2. QED
    BY <2>1, <1>8 DEF Occurs
<1>10. plan'[r] => origin[r].mode = Bounded
  BY <1>1, <1>2 DEF RunInv
<1>11. \A s \in Run : Holders(s)' = Holders(s)
  BY <1>2 DEF Holders
<1>12. RunInv(r)'
  <2>1. /\ Story("RUNNING", n, journal'[r])
        /\ \A f \in Repeated : Count(journal'[r], f) <= 1
        /\ Count(journal'[r], "RETRY_SCHEDULED") = Count(j, "RETRY_SCHEDULED")
    BY <1>3, <1>6, <1>7
  <2>2. QED
    BY <1>1, <1>2, <1>3, <1>9, <1>10, <1>11, <2>1, RunRecords
<1>13. Grew(r)
  BY <1>2, <1>8 DEF Grew
<1>14. \A s \in Run : SameRun(s) \/ (s = r /\ Grew(s) /\ RunInv(s)')
  BY <1>2, <1>3, <1>12, <1>13 DEF SameRun
<1>15. StageInv(p)'
  <2>1. assignment[r] # 0
    BY <1>1, <1>2 DEF StageInv
  <2>2. r # NoRun
    BY ConstantsAssumption
  <2>3. QED
    BY <1>1, <1>2, <1>3, <1>8, <2>1, <2>2 DEF StageInv
<1>16. QED
  BY <1>3, <1>11, <1>14, <1>15, OwnStep

LEMMA PersistPlanStep ==
  ASSUME Parts, TypeOK', NEW p \in Runner, NEW r \in Run, held[p] = r, PersistPlan(p)
  PROVE  Parts'
<1> DEFINE j == journal[r]
           j1 == LoggedOnce(j, "AI_PLAN_RECORDED")
           n == run[r].attempts
<1>1. /\ TypeOK /\ RunInv(r) /\ StageInv(p) /\ origin[r] # NoOrigin /\ n \in Nat
      /\ j \in Seq(Event)
  BY AtWork DEF PersistPlan
<1>2. /\ pc[p] = "planning" /\ run[r].status = "RUNNING"
      /\ plan' = [plan EXCEPT ![r] = TRUE]
      /\ journal' = [journal EXCEPT ![r] = IF plan[r] THEN j ELSE j1]
      /\ pc' = [pc EXCEPT ![p] = "complete"]
      /\ UNCHANGED <<origin, run, assignment, held>>
  BY <1>1 DEF PersistPlan, HoldsLease, Goto, TypeOK
<1>3. /\ plan'[r] = TRUE
      /\ journal'[r] = IF plan[r] THEN j ELSE j1
      /\ pc'[p] = "complete"
      /\ \A s \in Run : s # r => plan'[s] = plan[s] /\ journal'[s] = journal[s]
      /\ \A q \in Runner \ {p} : pc'[q] = pc[q] /\ held'[q] = held[q]
      /\ held'[p] = r
  BY <1>1, <1>2 DEF TypeOK
<1>4. Story("RUNNING", n, j) /\ (\A f \in Repeated : Count(j, f) <= 1)
  BY <1>1, <1>2 DEF RunInv
<1>5. "AI_PLAN_RECORDED" \in Repeated /\ "RUNNING" \in {"QUEUED", "RUNNING"}
  BY DEF Repeated
<1>6. /\ Story("RUNNING", n, j1)
      /\ \A f \in Repeated : Count(j1, f) <= 1
      /\ \A f : Occurs(j1, f) <=> Occurs(j, f) \/ f = "AI_PLAN_RECORDED"
      /\ Count(j1, "RETRY_SCHEDULED") = Count(j, "RETRY_SCHEDULED")
  BY <1>1, <1>4, <1>5, OnceKept
<1>7. plan[r] => Occurs(j, "AI_PLAN_RECORDED")
  BY <1>1 DEF RunInv
<1> HIDE DEF j1
<1>8. Occurs(journal'[r], "AI_PLAN_RECORDED") /\ \A f : Occurs(j, f) => Occurs(journal'[r], f)
  BY <1>3, <1>6, <1>7
<1>9. plan'[r] = Occurs(journal'[r], "AI_PLAN_RECORDED")
  BY <1>3, <1>8 DEF Occurs
<1>10. origin[r].mode = Bounded
  BY <1>1, <1>2 DEF StageInv
<1>11. \A s \in Run : Holders(s)' = Holders(s)
  BY <1>2 DEF Holders
<1>12. RunInv(r)'
  <2>1. /\ Story("RUNNING", n, journal'[r])
        /\ \A f \in Repeated : Count(journal'[r], f) <= 1
        /\ Count(journal'[r], "RETRY_SCHEDULED") = Count(j, "RETRY_SCHEDULED")
    BY <1>3, <1>4, <1>6
  <2>2. QED
    BY <1>1, <1>2, <1>3, <1>9, <1>10, <1>11, <2>1, RunRecords
<1>13. Grew(r)
  BY <1>2, <1>8 DEF Grew
<1>14. \A s \in Run : SameRun(s) \/ (s = r /\ Grew(s) /\ RunInv(s)')
  BY <1>2, <1>3, <1>12, <1>13 DEF SameRun
<1>15. StageInv(p)'
  <2>1. /\ assignment[r] # 0 /\ Occurs(j, "DETERMINISTIC_REVIEW_LINKED")
        /\ origin[r].mode = Deterministic => Occurs(j, "AI_PLANNER_SKIPPED")
    BY <1>1, <1>2 DEF StageInv
  <2>2. r # NoRun
    BY ConstantsAssumption
  <2>3. QED
    BY <1>1, <1>2, <1>3, <1>8, <2>1, <2>2 DEF StageInv
<1>16. QED
  BY <1>3, <1>11, <1>14, <1>15, OwnStep

LEMMA ProceedStep ==
  ASSUME Parts, TypeOK', NEW p \in Runner, Proceed(p)
  PROVE  Parts'
<1>1. pc[p] # "idle"
  BY DEF Proceed, ReviewFound, ReviewCreate, Link, PlanFound, Heartbeat, PersistPlan,
         CompleteCheck, CompleteWrite, Fail, SettleCheck, SettleLost, SettleRetry,
         SettleFailed, Crash
<1>2. held[p] \in Run
  BY <1>1, HoldsRun
<1>3. CASE \/ ReviewFound(p) \/ PlanFound(p) \/ Heartbeat(p) \/ CompleteCheck(p)
           \/ Fail(p) \/ SettleCheck(p)
  BY <1>3, LookStep
<1>4. CASE SettleLost(p) \/ Crash(p)
  BY <1>4, LetGoStep
<1>5. CASE CompleteWrite(p) \/ SettleRetry(p) \/ SettleFailed(p)
  BY <1>2, <1>5, WriteStep
<1>6. CASE ReviewCreate(p)
  BY <1>2, <1>6, ReviewCreateStep
<1>7. CASE Link(p)
  BY <1>2, <1>7, LinkStep
<1>8. CASE PersistPlan(p)
  BY <1>2, <1>8, PersistPlanStep
<1>9. QED
  BY <1>3, <1>4, <1>5, <1>6, <1>7, <1>8 DEF Proceed

\* A reaped run, which nobody new holds, is failed.
LEMMA RunReaped ==
  ASSUME TypeOK, NEW r \in Run, RunInv(r), run[r].status = "RUNNING",
         run'[r] = Unleased(run[r], "FAILED"), journal'[r] = Logged(journal[r], "RUN_FAILED"),
         UNCHANGED <<origin, assignment, plan>>, Holders(r)' \subseteq Holders(r)
  PROVE  RunInv(r)'
<1>1. journal[r] \in Seq(Event) /\ run[r] \in Row /\ run[r].attempts \in Nat
  BY ConstantsAssumption DEF TypeOK, Row
<1>2. run'[r].status = "FAILED" /\ run'[r].attempts = run[r].attempts
  BY <1>1 DEF Unleased, Row
<1>3. /\ "RUN_FAILED" \in Event /\ "RUN_FAILED" = TerminalEvent("FAILED")
      /\ "FAILED" \in Terminal /\ "RUN_FAILED" \notin Repeated \cup {"RUN_ENQUEUED"}
  BY DEF Event, TerminalEvent, Terminal, Repeated
<1>4. Count(journal'[r], "RETRY_SCHEDULED") = Count(journal[r], "RETRY_SCHEDULED")
  BY <1>1, <1>3, LoggedCount
<1>5. /\ Cardinality(Holders(r)') <= Cardinality(Holders(r))
      /\ Cardinality(Holders(r)') \in Nat /\ Cardinality(Holders(r)) \in Nat
      /\ Count(journal[r], "RETRY_SCHEDULED") \in Nat
  <2>1. IsFiniteSet(Holders(r)')
    BY HoldersFinite, FS_Subset
  <2>2. QED
    BY <1>1, <2>1, HoldersFinite, HoldersShrink, FS_CardinalityType, CountFacts
<1>6. Count(journal[r], "RETRY_SCHEDULED") + Cardinality(Holders(r)) <= run[r].attempts
  BY DEF RunInv
<1>7. Count(journal'[r], "RETRY_SCHEDULED") + Cardinality(Holders(r)') <= run'[r].attempts
  BY <1>1, <1>2, <1>4, <1>5, <1>6
<1>8. /\ run[r].status \in {"QUEUED", "RUNNING"}
      /\ run'[r].status \in {"QUEUED", "RUNNING"} \cup Terminal
      /\ IF run'[r].status \in Terminal THEN "RUN_FAILED" = TerminalEvent(run'[r].status)
                                        ELSE "RUN_FAILED" \notin Ends
      /\ run'[r].attempts = IF "RUN_FAILED" = "LEASE_ACQUIRED" THEN run[r].attempts + 1
                                                               ELSE run[r].attempts
      /\ "RUN_FAILED" = "RETRY_SCHEDULED" =>
           Count(journal[r], "RETRY_SCHEDULED") < run[r].attempts
      /\ run'[r].status = "COMPLETED" => Delivered(r)'
  BY <1>2, <1>3
<1>9. QED
  BY <1>3, <1>7, <1>8, RunMoves

\* A claimed run gets one attempt and one holder more.
LEMMA RunClaimed ==
  ASSUME TypeOK, NEW r \in Run, RunInv(r), run[r].status \in {"QUEUED", "RUNNING"},
         NEW name, run'[r] = Leased(run[r], name),
         journal'[r] = Logged(journal[r], "LEASE_ACQUIRED"),
         UNCHANGED <<origin, assignment, plan>>,
         NEW h \in Nat, h = Cardinality(Holders(r)'), h <= Cardinality(Holders(r)) + 1
  PROVE  RunInv(r)'
<1>1. journal[r] \in Seq(Event) /\ run[r] \in Row /\ run[r].attempts \in Nat
  BY ConstantsAssumption DEF TypeOK, Row
<1>2. run'[r].status = "RUNNING" /\ run'[r].attempts = run[r].attempts + 1
  BY <1>1 DEF Leased, Row
<1>3. /\ "LEASE_ACQUIRED" \in Event /\ "RUNNING" \notin Terminal
      /\ "LEASE_ACQUIRED" \notin Repeated \cup {"RUN_ENQUEUED"}
      /\ "LEASE_ACQUIRED" \notin Ends
  BY DEF Event, Terminal, Repeated, Ends
<1>4. Count(journal'[r], "RETRY_SCHEDULED") = Count(journal[r], "RETRY_SCHEDULED")
  BY <1>1, <1>3, LoggedCount
<1>5. Cardinality(Holders(r)) \in Nat /\ Count(journal[r], "RETRY_SCHEDULED") \in Nat
  BY <1>1, HoldersFinite, CountFacts
<1>6. Count(journal[r], "RETRY_SCHEDULED") + Cardinality(Holders(r)) <= run[r].attempts
  BY DEF RunInv
<1>7. Count(journal'[r], "RETRY_SCHEDULED") + Cardinality(Holders(r)') <= run'[r].attempts
  BY <1>1, <1>2, <1>4, <1>5, <1>6
<1>8. /\ run'[r].status \in {"QUEUED", "RUNNING"} \cup Terminal
      /\ IF run'[r].status \in Terminal THEN "LEASE_ACQUIRED" = TerminalEvent(run'[r].status)
                                        ELSE "LEASE_ACQUIRED" \notin Ends
      /\ run'[r].attempts = IF "LEASE_ACQUIRED" = "LEASE_ACQUIRED" THEN run[r].attempts + 1
                                                                   ELSE run[r].attempts
      /\ "LEASE_ACQUIRED" = "RETRY_SCHEDULED" =>
           Count(journal[r], "RETRY_SCHEDULED") < run[r].attempts
      /\ run'[r].status = "COMPLETED" => Delivered(r)'
  BY <1>2, <1>3
<1>9. QED
  BY <1>3, <1>7, <1>8, RunMoves

LEMMA ClaimStep ==
  ASSUME Parts, TypeOK', NEW p \in Runner, ClaimNext(p)
  PROVE  Parts'
<1>0. TypeOK /\ NoRun \notin Run /\ pc[p] = "idle"
  BY ConstantsAssumption DEF Parts, ClaimNext
<1>1. held[p] = NoRun
  BY <1>0 DEF Parts, StageInv
<1>2. PICK reaped \in SUBSET Exhausted, claimed \in {{}} \cup {{r} : r \in Claimable} :
        /\ run' = [r \in Run |->
             IF r \in reaped THEN Unleased(run[r], "FAILED")
             ELSE IF r \in claimed THEN Leased(run[r], NameOf[p]) ELSE run[r]]
        /\ journal' = [r \in Run |->
             IF r \in reaped THEN Logged(journal[r], "RUN_FAILED")
             ELSE IF r \in claimed THEN Logged(journal[r], "LEASE_ACQUIRED")
             ELSE journal[r]]
        /\ IF claimed = {} THEN UNCHANGED <<pc, held>>
           ELSE /\ Goto(p, "review")
                /\ \E r \in claimed : held' = [held EXCEPT ![p] = r]
  BY DEF ClaimNext
<1>3. UNCHANGED <<origin, assignment, plan>>
  BY DEF ClaimNext
<1>4. /\ \A r \in reaped : r \in Run /\ run[r].status = "RUNNING"
                           /\ run[r].attempts >= MaxAttempts
      /\ \A r \in claimed : r \in Run /\ run[r].status \in {"QUEUED", "RUNNING"}
                            /\ run[r].attempts < MaxAttempts
  BY <1>2 DEF Exhausted, Claimable
<1>5. \A r \in claimed : r \notin reaped
  <2>1. \A r \in Run : run[r].attempts \in Nat
    BY <1>0, ConstantsAssumption DEF TypeOK, Row
  <2>2. QED
    BY <1>4, <2>1, ConstantsAssumption
<1>6. ASSUME NEW r \in Run, r \notin claimed PROVE Holders(r)' = Holders(r)
  <2>1. CASE claimed = {}
    BY <1>2, <2>1 DEF Holders
  <2>2. CASE claimed # {}
    <3>1. PICK c \in claimed : held' = [held EXCEPT ![p] = c]
      BY <1>2, <2>2
    <3>2. c \in Run /\ c # r
      BY <1>4, <1>6
    <3>3. QED
      BY <1>0, <1>1, <3>1, <3>2, HoldersClaim DEF TypeOK
  <2>3. QED
    BY <2>1, <2>2
<1>7. ASSUME NEW r \in claimed
      PROVE  /\ Cardinality(Holders(r)') \in Nat
             /\ Cardinality(Holders(r)') <= Cardinality(Holders(r)) + 1
             /\ held' = [held EXCEPT ![p] = r] /\ pc' = [pc EXCEPT ![p] = "review"]
  <2>1. held' = [held EXCEPT ![p] = r] /\ pc' = [pc EXCEPT ![p] = "review"]
    BY <1>2 DEF Goto
  <2>2. r \in Run
    BY <1>4
  <2>3. Cardinality(Holders(r)') <= Cardinality(Holders(r)) + 1
    BY <1>0, <1>1, <2>1, <2>2, HoldersClaim DEF TypeOK
  <2>4. IsFiniteSet(Holders(r)')
    <3>1. Holders(r)' \subseteq Runner
      BY DEF Holders
    <3>2. QED
      BY <3>1, ConstantsAssumption, FS_Subset
  <2>5. QED
    BY <2>1, <2>3, <2>4, FS_CardinalityType
<1>8. ASSUME NEW r \in Run PROVE RunInv(r)' /\ Grew(r)
  <2>0. RunInv(r) /\ journal[r] \in Seq(Event)
    BY <1>0 DEF Parts, TypeOK
  <2>1. CASE r \in reaped
    <3>1. r \notin claimed
      BY <1>5, <2>1
    <3>2. Holders(r)' = Holders(r)
      BY <1>6, <3>1
    <3>3. run'[r] = Unleased(run[r], "FAILED")
          /\ journal'[r] = Logged(journal[r], "RUN_FAILED") /\ run[r].status = "RUNNING"
      BY <1>2, <1>4, <2>1
    <3>4. RunInv(r)'
      BY <1>0, <1>3, <2>0, <3>2, <3>3, RunReaped
    <3>5. Grew(r)
      BY <1>3, <2>0, <3>3, LoggedOccurs DEF Grew, Event
    <3>6. QED
      BY <3>4, <3>5
  <2>2. CASE r \in claimed
    <3>1. run'[r] = Leased(run[r], NameOf[p])
          /\ journal'[r] = Logged(journal[r], "LEASE_ACQUIRED")
          /\ run[r].status \in {"QUEUED", "RUNNING"}
      BY <1>2, <1>4, <1>5, <2>2
    <3>2. RunInv(r)'
      BY <1>0, <1>3, <1>7, <2>0, <2>2, <3>1, RunClaimed
    <3>3. Grew(r)
      BY <1>3, <2>0, <3>1, LoggedOccurs DEF Grew, Event
    <3>4. QED
      BY <3>2, <3>3
  <2>3. CASE r \notin reaped /\ r \notin claimed
    <3>1. run'[r] = run[r] /\ journal'[r] = journal[r] /\ Holders(r)' = Holders(r)
      BY <1>2, <1>6, <2>3
    <3>2. RunInv(r)'
      BY <1>0, <1>3, <2>0, <3>1, RunKept
    <3>3. QED
      BY <1>3, <3>1, <3>2 DEF Grew
  <2>4. QED
    BY <2>1, <2>2, <2>3
<1>9. ASSUME NEW q \in Runner PROVE StageInv(q)'
  <2>0. StageInv(q)
    BY DEF Parts
  <2>1. CASE pc'[q] = pc[q] /\ held'[q] = held[q]
    BY <1>0, <1>8, <2>0, <2>1, StageKept
  <2>2. CASE ~(pc'[q] = pc[q] /\ held'[q] = held[q])
    <3>1. claimed # {}
      BY <1>2, <2>2
    <3>2. PICK r \in claimed : TRUE
      BY <3>1
    <3>3. q = p /\ held'[q] = r /\ pc'[q] = "review"
      BY <1>0, <1>7, <2>2, <3>2 DEF TypeOK
    <3>4. r \in Run /\ run[r].status # "NONE" /\ RunInv(r)
      BY <1>4, <3>2 DEF Parts
    <3>5. origin[r] # NoOrigin /\ r # NoRun
      BY <1>0, <3>4 DEF RunInv
    <3>6. origin'[r] # NoOrigin
      BY <1>3, <3>5
    <3>7. QED
      BY <3>3, <3>5, <3>6 DEF StageInv
  <2>3. QED
    BY <2>1, <2>2
<1>10. QED
  BY <1>8, <1>9 DEF Parts

\* A request makes the run's first row and event.
LEMMA EnqueueRun ==
  ASSUME Parts, NEW r \in Run, NEW v \in 1..boqVersion, NEW m \in Mode, Enqueue(r, v, m)
  PROVE  RunInv(r)' /\ Grew(r)
<1> DEFINE k == Logged(<<>>, "RUN_ENQUEUED")
<1>1. /\ TypeOK /\ RunInv(r) /\ origin[r] = NoOrigin /\ run[r] \in Row
      /\ run[r].attempts \in Nat /\ run[r].status = "NONE"
      /\ journal[r] = <<>> /\ assignment[r] = 0 /\ ~plan[r]
  BY ConstantsAssumption DEF Parts, TypeOK, RunInv, Enqueue, Row
<1>2. /\ origin'[r] = [version |-> v, mode |-> m] /\ run'[r] = [run[r] EXCEPT !.status = "QUEUED"]
      /\ journal'[r] = k /\ UNCHANGED <<assignment, plan, held>>
  BY <1>1 DEF Enqueue, TypeOK
<1>3. origin'[r] # NoOrigin
  <2>1. v \in 1..MaxVersion
    BY <1>1, ConstantsAssumption DEF TypeOK
  <2>2. QED
    BY <1>2, <2>1, ConstantsAssumption
<1>4. run'[r].status = "QUEUED" /\ run'[r].attempts = run[r].attempts
  BY <1>1, <1>2 DEF Row
<1>5. <<>> \in Seq(Event) /\ "RUN_ENQUEUED" \in Event /\ Len(<<>>) = 0
  BY EmptySeq DEF Event
<1>6. \A f : ~Occurs(<<>>, f) /\ Count(<<>>, f) = 0
  <2>1. \A f : ~Occurs(<<>>, f)
    BY DEF Occurs
  <2>2. QED
    BY <1>5, <2>1, CountFacts
<1>7. run[r].attempts = 0 /\ Count(<<>>, "RETRY_SCHEDULED") + Cardinality(Holders(r)) <= 0
  BY <1>1, <1>6 DEF RunInv, Story
<1>8. /\ \A f : Occurs(k, f) <=> f = "RUN_ENQUEUED"
      /\ \A f : Count(k, f) = IF f = "RUN_ENQUEUED" THEN 1 ELSE 0
      /\ k[1] = "RUN_ENQUEUED" /\ DOMAIN k = 1..1
  <2>1. \A f : Occurs(k, f) <=> Occurs(<<>>, f) \/ f = "RUN_ENQUEUED"
    BY <1>5, LoggedOccurs
  <2>2. \A f : Count(k, f) = IF f = "RUN_ENQUEUED" THEN Count(<<>>, f) + 1 ELSE Count(<<>>, f)
    BY <1>5, LoggedCount
  <2>3. k[0 + 1] = "RUN_ENQUEUED" /\ DOMAIN k = 1..(0 + 1)
    BY <1>5, LoggedFacts
  <2> HIDE DEF k
  <2>4. QED
    BY <1>6, <2>1, <2>2, <2>3
<1> HIDE DEF k
<1>9. Story("QUEUED", 0, k)
  BY <1>8 DEF Story, Terminal
<1>10. Holders(r)' = Holders(r)
  BY <1>2 DEF Holders
<1>11. Count(k, "RETRY_SCHEDULED") + Cardinality(Holders(r)') <= 0
  BY <1>6, <1>7, <1>8, <1>10
<1>12. \A f \in Repeated : Count(k, f) <= 1
  BY <1>8
<1>13. plan'[r] = Occurs(k, "AI_PLAN_RECORDED")
  <2>1. ~Occurs(k, "AI_PLAN_RECORDED") /\ ~Occurs(<<>>, "AI_PLAN_RECORDED")
    BY <1>6, <1>8
  <2>2. plan[r] = Occurs(<<>>, "AI_PLAN_RECORDED")
    BY <1>1 DEF RunInv
  <2>3. QED
    BY <1>2, <2>1, <2>2 DEF Occurs
<1>14. RunInv(r)'
  BY <1>1, <1>2, <1>3, <1>4, <1>7, <1>9, <1>11, <1>12, <1>13 DEF RunInv
<1>15. Grew(r)
  BY <1>1, <1>6 DEF Grew
<1>16. QED
  BY <1>14, <1>15

LEMMA WorldStep ==
  ASSUME Parts, TypeOK', World
  PROVE  Parts'
<1>0. TypeOK /\ UNCHANGED <<pc, held>>
  BY DEF Parts, World, EditBoq, LeaseExpires, BackoffPasses, Enqueue
<1>1. \A r \in Run : Holders(r)' = Holders(r)
  BY <1>0 DEF Holders
<1>2. ASSUME NEW r \in Run PROVE RunInv(r)' /\ Grew(r)
  <2>0. RunInv(r) /\ run[r] \in Row
    BY <1>0 DEF Parts, TypeOK
  <2>1. CASE \E v \in 1..boqVersion, m \in Mode : Enqueue(r, v, m)
    BY <2>1, EnqueueRun
  <2>2. CASE ~\E v \in 1..boqVersion, m \in Mode : Enqueue(r, v, m)
    <3>1. /\ origin'[r] = origin[r] /\ journal'[r] = journal[r]
          /\ assignment'[r] = assignment[r] /\ plan'[r] = plan[r]
      BY <1>0, <2>2 DEF World, EditBoq, rows, LeaseExpires, BackoffPasses, Enqueue, TypeOK
    <3>2. \/ run'[r] = run[r] \/ run'[r] = [run[r] EXCEPT !.expired = TRUE]
          \/ run'[r] = [run[r] EXCEPT !.available = TRUE]
      BY <1>0, <2>2 DEF World, EditBoq, rows, LeaseExpires, BackoffPasses, Enqueue, TypeOK
    <3>3. /\ run'[r].status = run[r].status /\ run'[r].attempts = run[r].attempts
          /\ run'[r].linked = run[r].linked
      BY <2>0, <3>2 DEF Row
    <3>4. RunInv(r)'
      BY <1>0, <1>1, <2>0, <3>1, <3>3, RunKept
    <3>5. QED
      BY <3>1, <3>4 DEF Grew
  <2>3. QED
    BY <2>1, <2>2
<1>3. ASSUME NEW p \in Runner PROVE StageInv(p)'
  <2>1. StageInv(p)
    BY DEF Parts
  <2>2. QED
    BY <1>0, <1>2, <2>1, StageKept
<1>4. QED
  BY <1>2, <1>3 DEF Parts

LEMMA PartsStep ==
  ASSUME Parts, [Next]_vars
  PROVE  Parts'
<1>1. CASE Next
  <2>1. TypeOK'
    BY <1>1, TypeStep
  <2>2. World \/ (\E p \in Runner : ClaimNext(p)) \/ (\E p \in Runner : Proceed(p))
    BY <1>1 DEF Next, World
  <2>3. QED
    BY <2>1, <2>2, WorldStep, ClaimStep, ProceedStep
<1>2. CASE UNCHANGED vars
  <2>1. TypeOK'
    BY <1>2 DEF Parts, TypeOK, vars, rows
  <2>2. ASSUME NEW r \in Run PROVE RunInv(r)'
    BY <1>2, RunKept DEF Parts, vars, rows, Holders
  <2>3. ASSUME NEW p \in Runner PROVE StageInv(p)'
    BY <1>2 DEF Parts, StageInv, vars, rows
  <2>4. QED
    BY <2>1, <2>2, <2>3 DEF Parts
<1>3. QED
  BY <1>1, <1>2

-----------------------------------------------------------------------------
(* The theorems.                                                           *)

\* The run's rows, its journal and the invocations at it stay consistent however claims,
\* lease expiries, late writes and crashes interleave (claimNextWorkerRun,
\* reviewExistingBOQ, linkDeterministicAssignment, persistAIPlan, completeWorkerRun,
\* settleFailedAttempt).
THEOREM InductiveHolds == Spec => []Inductive
<1>1. Init => Parts
  BY InitParts
<1>2. Parts /\ [Next]_vars => Parts'
  BY PartsStep
<1>3. Spec => []Parts
  BY <1>1, <1>2, PTL DEF Spec
<1>4. QED
  BY <1>3, InductiveParts, PTL

\* Every column, journal and program counter keeps its type; above all, no run is ever
\* claimed beyond maximumAttempts (claimNextWorkerRun's guard).
THEOREM TypeCorrect == Spec => []TypeOK
<1>1. Inductive => TypeOK
  BY DEF Inductive
<1>2. QED
  BY <1>1, InductiveHolds, PTL

\* For any number of runs, invocations and attempts, the journal has one lease per
\* attempt and no more retries, and ends exactly when the run does (appendRunEvent).
THEOREM JournalIsTrue == Spec => []JournalTellsRun
<1>1. Inductive => JournalTellsRun
  BY DEF Inductive
<1>2. QED
  BY <1>1, InductiveHolds, PTL

\* However often a run is reclaimed, its link and its plan are journalled once, and its
\* plan with its event (appendRunEventOnce, persistAIPlan).
THEOREM WorkIsRecordedOnce == Spec => []WorkRecordedOnce
<1>1. Inductive => WorkRecordedOnce
  BY DEF Inductive
<1>2. QED
  BY <1>1, InductiveHolds, PTL

\* A completed run has the review of the version it was enqueued with and the plan its
\* mode calls for, although completeWorkerRun itself looks at its lease only.
THEOREM CompletedRunsDeliver == Spec => []CompletedDelivers
<1>1. Inductive => CompletedDelivers
  BY DEF Inductive
<1>2. QED
  BY <1>1, InductiveHolds, PTL

\* The steps that could touch a run that has ended all find it has not.
LEMMA EndedStep ==
  ASSUME Parts, Next, NEW r \in Run, run[r].status \in Terminal
  PROVE  SameRun(r)
<1>0. TypeOK /\ RunInv(r)
  BY DEF Parts
<1>1. run[r].status \notin {"NONE", "QUEUED", "RUNNING"}
  BY DEF Terminal
<1>2. origin[r] # NoOrigin
  BY <1>0, <1>1 DEF RunInv
<1>3. CASE World
  BY <1>0, <1>1, <1>2, <1>3 DEF World, EditBoq, rows, LeaseExpires, BackoffPasses, Enqueue,
                                TypeOK, SameRun
<1>4. ASSUME NEW p \in Runner, ClaimNext(p) PROVE SameRun(r)
  <2>1. r \notin Exhausted /\ r \notin Claimable
    BY <1>1 DEF Exhausted, Claimable
  <2>2. run'[r] = run[r] /\ journal'[r] = journal[r]
    BY <1>4, <2>1 DEF ClaimNext
  <2>3. QED
    BY <1>4, <2>2 DEF ClaimNext, SameRun
<1>5. ASSUME NEW p \in Runner, Proceed(p) PROVE SameRun(r)
  <2>1. CASE \/ ReviewFound(p) \/ PlanFound(p) \/ Heartbeat(p) \/ CompleteCheck(p)
             \/ Fail(p) \/ SettleCheck(p) \/ SettleLost(p) \/ Crash(p)
    BY <2>1 DEF ReviewFound, PlanFound, Heartbeat, CompleteCheck, Fail, SettleCheck,
                SettleLost, Crash, rows, SameRun
  <2>2. CASE ReviewCreate(p) \/ Link(p) \/ PersistPlan(p)
    <3>1. held[p] # r
      BY <1>1, <2>2 DEF ReviewCreate, Link, PersistPlan, HoldsLease
    <3>2. QED
      BY <1>0, <2>2, <3>1 DEF ReviewCreate, Link, PersistPlan, TypeOK, SameRun
  <2>3. CASE CompleteWrite(p) \/ SettleRetry(p) \/ SettleFailed(p)
    <3>1. held[p] # r
      BY <1>1, <2>3 DEF CompleteWrite, SettleRetry, SettleFailed
    <3>2. QED
      BY <1>0, <2>3, <3>1 DEF CompleteWrite, SettleRetry, SettleFailed, TypeOK, SameRun
  <2>4. QED
    BY <1>5, <2>1, <2>2, <2>3 DEF Proceed
<1>6. QED
  BY <1>3, <1>4, <1>5 DEF Next, World

\* No invocation, however late it writes, touches a run that has ended (the lease checks
\* and the triggers on the row's status, behind the writes by id alone).
THEOREM EndedRunsStay == Spec => EndedRunsFrozen
<1> DEFINE Frozen == \A r \in Run : run[r].status \in Terminal =>
                       /\ run'[r] = run[r] /\ journal'[r] = journal[r]
                       /\ assignment'[r] = assignment[r] /\ plan'[r] = plan[r]
<1>1. Parts /\ [Next]_vars => [Frozen]_vars
  BY EndedStep DEF SameRun
<1>2. Inductive /\ [Next]_vars => [Frozen]_vars
  BY <1>1, InductiveParts
<1>3. Spec => [][Frozen]_vars
  BY <1>2, InductiveHolds, PTL DEF Spec
<1>4. QED
  BY <1>3 DEF EndedRunsFrozen

-----------------------------------------------------------------------------
(* Retries.                                                                *)

Retries(r) == Count(journal[r], "RETRY_SCHEDULED")

AheadOf(r) ==
  run[r].attempts = MaxAttempts => Retries(r) + Cardinality(LateRetries(r)) < MaxAttempts

LEMMA LateFinite ==
  ASSUME NEW r
  PROVE  /\ IsFiniteSet(LateRetries(r)) /\ Cardinality(LateRetries(r)) \in Nat
         /\ IsFiniteSet(LateRetries(r)') /\ Cardinality(LateRetries(r)') \in Nat
<1>1. IsFiniteSet(LateRetries(r)) /\ IsFiniteSet(LateRetries(r)')
  BY ConstantsAssumption, FS_Subset DEF LateRetries
<1>2. QED
  BY <1>1, FS_CardinalityType

LEMMA RetriesType ==
  ASSUME TypeOK, NEW r \in Run
  PROVE  journal[r] \in Seq(Event) /\ Retries(r) \in Nat /\ run[r] \in Row
         /\ run[r].attempts \in Nat
<1>1. journal[r] \in Seq(Event) /\ run[r] \in Row
  BY DEF TypeOK
<1>2. run[r].attempts \in Nat
  BY <1>1, ConstantsAssumption DEF Row
<1>3. Retries(r) \in Nat
  BY <1>1, CountFacts DEF Retries
<1>4. QED
  BY <1>1, <1>2, <1>3

\* A run that is claimed or retried by nobody in this step stays ahead.
LEMMA AheadKept ==
  ASSUME TypeOK, NEW r \in Run, AheadOf(r), Retries(r)' = Retries(r),
         run'[r].attempts = run[r].attempts,
         run[r].attempts = MaxAttempts => LateRetries(r)' \subseteq LateRetries(r)
  PROVE  AheadOf(r)'
<1> SUFFICES ASSUME run[r].attempts = MaxAttempts
             PROVE  Retries(r)' + Cardinality(LateRetries(r)') < MaxAttempts
  BY DEF AheadOf
<1>1. Cardinality(LateRetries(r)') <= Cardinality(LateRetries(r))
  BY LateFinite, FS_Subset
<1>2. Retries(r) + Cardinality(LateRetries(r)) < MaxAttempts
  BY DEF AheadOf
<1>3. QED
  BY <1>1, <1>2, LateFinite, RetriesType, ConstantsAssumption

\* An event that is no retry leaves the number of retries.
LEMMA OtherEvent ==
  ASSUME TypeOK, NEW r \in Run, NEW e \in Event \ {"RETRY_SCHEDULED"},
         \/ journal'[r] = journal[r] \/ journal'[r] = Logged(journal[r], e)
         \/ journal'[r] = LoggedOnce(journal[r], e)
  PROVE  Retries(r)' = Retries(r)
<1>1. journal[r] \in Seq(Event)
  BY RetriesType
<1>2. QED
  BY <1>1, LoggedCount, LoggedOnceFacts DEF Retries

LEMMA WorldAhead ==
  ASSUME Parts, NEW r \in Run, AheadOf(r), World
  PROVE  AheadOf(r)'
<1>0. TypeOK /\ pc' = pc /\ held' = held /\ attemptSeen' = attemptSeen
  BY DEF Parts, World, EditBoq, LeaseExpires, BackoffPasses, Enqueue
<1>1. \/ run'[r] = run[r]
      \/ run'[r] = [run[r] EXCEPT !.expired = TRUE]
      \/ run'[r] = [run[r] EXCEPT !.available = TRUE]
      \/ run'[r] = [run[r] EXCEPT !.status = "QUEUED"]
  <2>0. run \in [Run -> Row]
    BY <1>0 DEF TypeOK
  <2>1. CASE EditBoq
    BY <2>1 DEF EditBoq, rows
  <2>2. ASSUME NEW s \in Run, LeaseExpires(s) \/ BackoffPasses(s)
        PROVE  \/ run'[r] = run[r]
               \/ run'[r] = [run[r] EXCEPT !.expired = TRUE]
               \/ run'[r] = [run[r] EXCEPT !.available = TRUE]
    BY <2>0, <2>2 DEF LeaseExpires, BackoffPasses
  <2>3. ASSUME NEW s \in Run, NEW v \in 1..boqVersion, NEW m \in Mode, Enqueue(s, v, m)
        PROVE  run'[r] = run[r] \/ run'[r] = [run[r] EXCEPT !.status = "QUEUED"]
    BY <2>0, <2>3 DEF Enqueue
  <2>4. QED
    BY <2>1, <2>2, <2>3 DEF World
<1>2. run'[r].attempts = run[r].attempts
  BY <1>0, <1>1, RetriesType DEF Row
<1>3. journal'[r] = journal[r] \/ journal'[r] = Logged(journal[r], "RUN_ENQUEUED")
  BY <1>0 DEF World, EditBoq, rows, LeaseExpires, BackoffPasses, Enqueue, TypeOK
<1>4. Retries(r)' = Retries(r)
  BY <1>0, <1>3, OtherEvent DEF Event
<1>5. LateRetries(r)' = LateRetries(r)
  BY <1>0 DEF LateRetries
<1>6. QED
  BY <1>0, <1>2, <1>4, <1>5, AheadKept

\* The last attempt is claimed when the retries and the holders of the run together are
\* at most the attempts before it.
LEMMA ClaimAhead ==
  ASSUME Parts, NEW r \in Run, AheadOf(r), NEW p \in Runner, ClaimNext(p)
  PROVE  AheadOf(r)'
<1>0. TypeOK /\ pc[p] = "idle" /\ attemptSeen' = attemptSeen
  BY DEF Parts, ClaimNext
<1>1. PICK reaped \in SUBSET Exhausted, claimed \in {{}} \cup {{s} : s \in Claimable} :
        /\ run' = [s \in Run |->
             IF s \in reaped THEN Unleased(run[s], "FAILED")
             ELSE IF s \in claimed THEN Leased(run[s], NameOf[p]) ELSE run[s]]
        /\ journal' = [s \in Run |->
             IF s \in reaped THEN Logged(journal[s], "RUN_FAILED")
             ELSE IF s \in claimed THEN Logged(journal[s], "LEASE_ACQUIRED")
             ELSE journal[s]]
        /\ IF claimed = {} THEN UNCHANGED <<pc, held>>
           ELSE /\ Goto(p, "review")
                /\ \E s \in claimed : held' = [held EXCEPT ![p] = s]
  BY DEF ClaimNext
<1>2. ASSUME NEW q \in Runner, pc'[q] = "settling"
      PROVE  pc[q] = "settling" /\ held'[q] = held[q]
  BY <1>0, <1>1, <1>2 DEF Goto, TypeOK
<1>3. LateRetries(r)' \subseteq LateRetries(r)
  BY <1>0, <1>2 DEF LateRetries
<1>4. /\ run[r] \in Row /\ run[r].attempts \in Nat /\ Retries(r) \in Nat
  BY <1>0, RetriesType
<1>5. Retries(r)' = Retries(r)
  <2>1. \/ journal'[r] = journal[r] \/ journal'[r] = Logged(journal[r], "RUN_FAILED")
        \/ journal'[r] = Logged(journal[r], "LEASE_ACQUIRED")
    BY <1>1
  <2>2. QED
    BY <1>0, <2>1, OtherEvent DEF Event
<1>6. CASE run'[r] = Leased(run[r], NameOf[p])
  <2>1. run'[r].attempts = run[r].attempts + 1
    BY <1>4, <1>6 DEF Leased, Row
  <2>2. Retries(r) + Cardinality(Holders(r)) <= run[r].attempts
    BY DEF Parts, RunInv, Retries
  <2>3. Cardinality(LateRetries(r)') <= Cardinality(Holders(r))
    <3>1. LateRetries(r)' \subseteq Holders(r)
      BY <1>3 DEF LateRetries, Holders
    <3>2. QED
      BY <3>1, HoldersFinite, FS_Subset
  <2>4. QED
    BY <1>4, <1>5, <2>1, <2>2, <2>3, LateFinite, HoldersFinite, ConstantsAssumption
    DEF AheadOf
<1>7. CASE run'[r] = run[r] \/ run'[r] = Unleased(run[r], "FAILED")
  <2>1. run'[r].attempts = run[r].attempts
    BY <1>4, <1>7 DEF Unleased, Row
  <2>2. QED
    BY <1>0, <1>3, <1>5, <2>1, AheadKept
<1>8. QED
  BY <1>1, <1>6, <1>7

\* No step of an invocation changes the attempts, and none but reading fewer than the
\* limit makes it one that may yet hand the run back.
LEMMA ProceedLate ==
  ASSUME Parts, NEW r \in Run, NEW p \in Runner, Proceed(p)
  PROVE  /\ run'[r].attempts = run[r].attempts
         /\ run[r].attempts = MaxAttempts => LateRetries(r)' \subseteq LateRetries(r)
<1>0. TypeOK /\ held[p] \in Run
  <2>1. pc[p] # "idle"
    BY DEF Proceed, ReviewFound, ReviewCreate, Link, PlanFound, Heartbeat, PersistPlan,
           CompleteCheck, CompleteWrite, Fail, SettleCheck, SettleLost, SettleRetry,
           SettleFailed, Crash
  <2>2. QED
    BY <2>1, HoldsRun DEF Parts
<1>1. run[r] \in Row /\ MaxAttempts \in Nat
  BY <1>0, RetriesType, ConstantsAssumption
<1>2. \/ run'[r] = run[r] \/ run'[r] = [run[r] EXCEPT !.linked = TRUE]
      \/ run'[r] = [Unleased(run[r], "COMPLETED") EXCEPT !.linked = TRUE]
      \/ run'[r] = [Unleased(run[r], "QUEUED") EXCEPT !.available = FALSE]
      \/ run'[r] = Unleased(run[r], "FAILED")
  BY <1>0 DEF Proceed, ReviewFound, ReviewCreate, Link, PlanFound, Heartbeat, PersistPlan,
     CompleteCheck, CompleteWrite, Fail, SettleCheck, SettleLost, SettleRetry, SettleFailed,
     Crash, rows, TypeOK
<1>3. run'[r].attempts = run[r].attempts
  BY <1>1, <1>2 DEF Unleased, Row
<1>4. \A q \in Runner \ {p} : /\ pc'[q] = pc[q] /\ held'[q] = held[q]
                              /\ attemptSeen'[q] = attemptSeen[q]
  BY <1>0 DEF Proceed, ReviewFound, ReviewCreate, Link, PlanFound, Heartbeat, PersistPlan,
     CompleteCheck, CompleteWrite, Fail, SettleCheck, SettleLost, SettleRetry, SettleFailed,
     Crash, Goto, Release, TypeOK
<1>5. CASE SettleCheck(p)
  <2>1. held'[p] = held[p] /\ attemptSeen'[p] = run[held[p]].attempts
    BY <1>0, <1>5 DEF SettleCheck, TypeOK
  <2>2. run[r].attempts = MaxAttempts => p \notin LateRetries(r)'
    BY <1>1, <2>1 DEF LateRetries
  <2>3. QED
    BY <1>3, <1>4, <2>2 DEF LateRetries
<1>6. CASE ~SettleCheck(p)
  <2>1. pc'[p] # "settling"
    BY <1>0, <1>6 DEF Proceed, ReviewFound, ReviewCreate, Link, PlanFound, Heartbeat,
       PersistPlan, CompleteCheck, CompleteWrite, Fail, SettleLost, SettleRetry,
       SettleFailed, Crash, Goto, Release, TypeOK
  <2>2. QED
    BY <1>3, <1>4, <2>1 DEF LateRetries
<1>7. QED
  BY <1>5, <1>6

\* Every retry after the last claim is one less to come.
LEMMA RetryAhead ==
  ASSUME Parts, NEW r \in Run, AheadOf(r), NEW p \in Runner, SettleRetry(p), held[p] = r
  PROVE  AheadOf(r)'
<1>0. TypeOK /\ MaxAttempts \in Nat
  BY ConstantsAssumption DEF Parts
<1>1. /\ pc[p] = "settling" /\ attemptSeen[p] < MaxAttempts
      /\ journal'[r] = Logged(journal[r], "RETRY_SCHEDULED")
  BY <1>0 DEF SettleRetry, TypeOK
<1>2. Retries(r)' = Retries(r) + 1
  <2>1. journal[r] \in Seq(Event) /\ "RETRY_SCHEDULED" \in Event
    BY <1>0, RetriesType DEF Event
  <2>2. Count(Logged(journal[r], "RETRY_SCHEDULED"), "RETRY_SCHEDULED")
          = Count(journal[r], "RETRY_SCHEDULED") + 1
    BY <2>1, LoggedCount
  <2>3. QED
    BY <1>1, <2>2 DEF Retries
<1>3. p \in LateRetries(r)
  BY <1>1 DEF LateRetries
<1>4. pc'[p] = "idle"
  BY <1>0 DEF SettleRetry, Release, Goto, TypeOK
<1>5. run'[r].attempts = run[r].attempts
      /\ (run[r].attempts = MaxAttempts => LateRetries(r)' \subseteq LateRetries(r) \ {p})
  <2>1. Proceed(p)
    BY DEF Proceed
  <2>2. p \notin LateRetries(r)'
    BY <1>4 DEF LateRetries
  <2>3. QED
    BY <2>1, <2>2, ProceedLate
<1>6. SUFFICES ASSUME run[r].attempts = MaxAttempts
               PROVE  Retries(r)' + Cardinality(LateRetries(r)') < MaxAttempts
  BY <1>5 DEF AheadOf
<1>7. /\ IsFiniteSet(LateRetries(r) \ {p})
      /\ Cardinality(LateRetries(r) \ {p}) = Cardinality(LateRetries(r)) - 1
  BY <1>3, LateFinite, FS_RemoveElement
<1>8. Cardinality(LateRetries(r)') <= Cardinality(LateRetries(r)) - 1
  BY <1>5, <1>6, <1>7, FS_Subset
<1>9. Retries(r) + Cardinality(LateRetries(r)) < MaxAttempts
  BY <1>6 DEF AheadOf
<1>10. QED
  BY <1>0, <1>2, <1>8, <1>9, LateFinite, RetriesType

LEMMA ProceedAhead ==
  ASSUME Parts, NEW r \in Run, AheadOf(r), NEW p \in Runner, Proceed(p)
  PROVE  AheadOf(r)'
<1>0. TypeOK
  BY DEF Parts
<1>1. CASE SettleRetry(p) /\ held[p] = r
  BY <1>1, RetryAhead
<1>2. CASE ~(SettleRetry(p) /\ held[p] = r)
  <2>1. Retries(r)' = Retries(r)
    <3>1. CASE Link(p)
      <4> DEFINE j1 == LoggedOnce(journal[r], "DETERMINISTIC_REVIEW_LINKED")
      <4>1. \/ journal'[r] = journal[r] \/ journal'[r] = j1
            \/ journal'[r] = LoggedOnce(j1, "AI_PLANNER_SKIPPED")
        BY <1>0, <3>1 DEF Link, TypeOK
      <4>2. journal[r] \in Seq(Event)
        BY <1>0, RetriesType
      <4>3. /\ j1 \in Seq(Event)
            /\ Count(j1, "RETRY_SCHEDULED") = Count(journal[r], "RETRY_SCHEDULED")
        BY <4>2, LoggedOnceFacts DEF Event
      <4> HIDE DEF j1
      <4>4. Count(LoggedOnce(j1, "AI_PLANNER_SKIPPED"), "RETRY_SCHEDULED")
              = Count(j1, "RETRY_SCHEDULED")
        BY <4>3, LoggedOnceFacts DEF Event
      <4>5. QED
        BY <4>1, <4>3, <4>4 DEF Retries
    <3>2. CASE ~Link(p)
      <4>1. \/ journal'[r] = journal[r]
            \/ journal'[r] = LoggedOnce(journal[r], "AI_PLAN_RECORDED")
            \/ journal'[r] = Logged(journal[r], "RUN_COMPLETED")
            \/ journal'[r] = Logged(journal[r], "RUN_FAILED")
        BY <1>0, <1>2, <3>2 DEF Proceed, ReviewFound, ReviewCreate, PlanFound, Heartbeat,
           PersistPlan, CompleteCheck, CompleteWrite, Fail, SettleCheck, SettleLost,
           SettleRetry, SettleFailed, Crash, rows, TypeOK
      <4>2. QED
        BY <1>0, <4>1, OtherEvent DEF Event
    <3>3. QED
      BY <3>1, <3>2
  <2>2. QED
    BY <1>0, <2>1, ProceedLate, AheadKept
<1>3. QED
  BY <1>1, <1>2

\* A run is retried fewer times than it may be attempted, for any number of concurrent
\* invocations, although settleFailedAttempt decides a retry on attempts it read before
\* another invocation may have claimed the last one.
THEOREM RetriesAreBounded == Spec => []RetriesBounded
<1>1. Init => \A r \in Run : AheadOf(r)
  <2>1. Init => \A r \in Run : run[r].attempts # MaxAttempts
    BY ConstantsAssumption DEF Init, NewRow
  <2>2. QED
    BY <2>1 DEF AheadOf
<1>2. Parts /\ (\A r \in Run : AheadOf(r)) /\ [Next]_vars => (\A r \in Run : AheadOf(r))'
  <2> SUFFICES ASSUME Parts, \A r \in Run : AheadOf(r), [Next]_vars, NEW r \in Run
               PROVE  AheadOf(r)'
    OBVIOUS
  <2>1. CASE Next
    <3>1. World \/ (\E p \in Runner : ClaimNext(p)) \/ (\E p \in Runner : Proceed(p))
      BY <2>1 DEF Next, World
    <3>2. QED
      BY <3>1, WorldAhead, ClaimAhead, ProceedAhead
  <2>2. CASE UNCHANGED vars
    BY <2>2 DEF vars, rows, AheadOf, Retries, LateRetries
  <2>3. QED
    BY <2>1, <2>2
<1>3. (\A r \in Run : AheadOf(r)) <=> RetriesAhead
  BY DEF RetriesAhead, AheadOf, Retries
<1>4. Parts /\ RetriesAhead /\ [Next]_vars => RetriesAhead'
  BY <1>2 DEF RetriesAhead, AheadOf, Retries
<1>5. Inductive /\ RetriesAhead /\ [Next]_vars => RetriesAhead'
  BY <1>4, InductiveParts
<1>6. Init => RetriesAhead
  BY <1>1, <1>3
<1>7. Inductive /\ RetriesAhead => RetriesBounded
  <2> SUFFICES ASSUME Parts, \A r \in Run : AheadOf(r), NEW r \in Run
               PROVE  Retries(r) < MaxAttempts
    BY <1>3, InductiveParts DEF RetriesBounded, Retries
  <2>1. /\ Retries(r) \in Nat /\ run[r].attempts \in 0..MaxAttempts
        /\ Retries(r) + Cardinality(Holders(r)) <= run[r].attempts
    BY RetriesType DEF Parts, TypeOK, Row, RunInv, Retries
  <2>2. CASE run[r].attempts = MaxAttempts
    BY <2>1, <2>2, LateFinite, ConstantsAssumption DEF AheadOf
  <2>3. CASE run[r].attempts # MaxAttempts
    BY <2>1, <2>3, HoldersFinite, ConstantsAssumption
  <2>4. QED
    BY <2>2, <2>3
<1>8. QED
  BY <1>5, <1>6, <1>7, InductiveHolds, PTL DEF Spec
=============================================================================
