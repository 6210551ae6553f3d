SPECIFICATION Spec
CONSTANTS
  Request = {r1, r2}
  MaxRevision = 1
  MaxVersion = 4
  Line = {1, 2}
  Section = {"A"}
  Template = {"A"}
  SectionOf <- OneSection
  TayqanSection = "A"
  Qty = {1, 2}
  Rate = {0}
  Critical = {0}
  OnTrial = FALSE
  MaxCompletedBoqs = 1
  Absent = Absent
  Deleted = Deleted
  Unverified = Unverified
  NoPlace = NoPlace
  NoSnapshot = NoSnapshot
SYMMETRY Requests
INVARIANTS EvidenceAttested
