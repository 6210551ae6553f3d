SPECIFICATION FairSpec
CONSTANTS
  Run = {k1, k2}
  Runner = {p1}
  Name = {p1}
  NameOf <- OwnNames
  MaxAttempts = 2
  MaxVersion = 2
  Mode = {"DETERMINISTIC_ONLY", "BOUNDED_AI"}
  Nobody = Nobody
  NoOrigin = NoOrigin
  NoRun = NoRun
  k1 = k1
  k2 = k2
  p1 = p1
PROPERTIES EveryRunEnds
CHECK_DEADLOCK FALSE
