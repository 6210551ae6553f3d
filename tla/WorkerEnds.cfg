SPECIFICATION FairSpec
CONSTANTS
  Run = {k1}
  Runner = {p1, p2}
  Name = {p1, p2}
  NameOf <- OwnNames
  MaxAttempts = 2
  MaxVersion = 1
  Mode = {"DETERMINISTIC_ONLY"}
  Nobody = Nobody
  NoOrigin = NoOrigin
  NoRun = NoRun
  k1 = k1
  p1 = p1
  p2 = p2
PROPERTIES EveryRunEnds
CHECK_DEADLOCK FALSE
