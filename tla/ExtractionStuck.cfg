SPECIFICATION FairSpec
CONSTANTS
  Job = {j1, j2}
  Source = {s1}
  Prep = {t1}
  SourceOf <- FirstSource
  Worker = {p1}
  MaxAttempts = 2
  MaxFaults = 1
  NoJob = NoJob
  NoTarget = NoTarget
  j1 = j1
  j2 = j2
  s1 = s1
  t1 = t1
  p1 = p1
PROPERTIES PreparationSettles
