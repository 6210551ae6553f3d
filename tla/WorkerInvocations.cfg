SPECIFICATION Spec
CONSTANTS
  Run = {k1}
  Runner = {p1, p2, p3}
  Name = {p1, p2, p3}
  NameOf <- TwoShareAName
  MaxAttempts = 3
  MaxVersion = 2
  Mode = {"DETERMINISTIC_ONLY", "BOUNDED_AI"}
  Nobody = Nobody
  NoOrigin = NoOrigin
  NoRun = NoRun
  k1 = k1
  p1 = p1
  p2 = p2
  p3 = p3
INVARIANTS TypeOK JournalTellsRun CompletedDelivers WorkRecordedOnce RetriesBounded
PROPERTIES EndedRunsFrozen KeepsPromise
CHECK_DEADLOCK FALSE
