SPECIFICATION Spec
CONSTANTS
  Request = {r1, r2}
  MaxRevision = 1
  MaxVersion = 3
  Line = {1}
  Section = {"A"}
  Template = {"A"}
  SectionOf <- OneSection
  TayqanSection = "A"
  Qty = {0, 1}
  Rate = {0, 1}
  Critical = {0}
  OnTrial = FALSE
  MaxCompletedBoqs = 1
  Absent = Absent
  Deleted = Deleted
  Unverified = Unverified
  NoPlace = NoPlace
  NoSnapshot = NoSnapshot
SYMMETRY Requests
INVARIANTS TypeOK VerificationCurrent LockedIsAcceptable
PROPERTIES ImplementsLedger
