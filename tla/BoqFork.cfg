SPECIFICATION Spec
CONSTANTS
  Request = {r1, r2}
  MaxRevision = 2
  MaxVersion = 2
  Line = {1}
  Section = {"A"}
  Template = {"A"}
  SectionOf <- OneSection
  TayqanSection = "A"
  Qty = {1}
  Rate = {0}
  Critical = {0}
  OnTrial = TRUE
  MaxCompletedBoqs = 2
  Absent = Absent
  Deleted = Deleted
  Unverified = Unverified
  NoPlace = NoPlace
  NoSnapshot = NoSnapshot
SYMMETRY Requests
INVARIANTS SnapshotIsContent RevisionsContiguous CountedPerLock CitedItemsExist AllowanceOverrun
PROPERTIES LockedFrozen
