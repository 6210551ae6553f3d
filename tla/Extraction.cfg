SPECIFICATION FairSpec
CONSTANTS
  Job = {j1, j2}
  Source = {s1}
  Prep = {t1}
  SourceOf <- FirstSource
  Worker = {p1, p2}
  MaxAttempts = 2
  MaxFaults = 2
  NoJob = NoJob
  NoTarget = NoTarget
  j1 = j1
  j2 = j2
  s1 = s1
  t1 = t1
  p1 = p1
  p2 = p2
INVARIANTS TypeOK OneExecutor OneActivePerTarget AttemptsBounded
PROPERTIES EndedStays ImplementsLease SourceSettles
