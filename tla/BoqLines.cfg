SPECIFICATION Spec
CONSTANTS
  Request = {r1, r2}
  MaxRevision = 1
  MaxVersion = 3
  Line = {1, 2}
  Section = {"A", "B"}
  Template = {"A"}
  SectionOf <- OneSection
  TayqanSection = "B"
  Qty = {1}
  Rate = {0}
  Critical = {0}
  OnTrial = FALSE
  MaxCompletedBoqs = 1
  Absent = Absent
  Deleted = Deleted
  Unverified = Unverified
  NoPlace = NoPlace
  NoSnapshot = NoSnapshot
SYMMETRY Requests
INVARIANTS DocumentClaimIsFresh SectionsHoldItems CitedItemsExist
