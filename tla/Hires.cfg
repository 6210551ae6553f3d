SPECIFICATION Spec
CONSTANTS
  Daily = {d1}
  Monthly = {m1, m2}
  Desk = {c1, c2}
  MaxVersion = 2
  MaxHires = 3
  NoSession = NoSession
  Nobody = Nobody
  d1 = d1
  m1 = m1
  m2 = m2
  c1 = c1
  c2 = c2
SYMMETRY Symmetry
INVARIANTS TypeOK OnePayable StartsOnce HireIsCurrent
PROPERTIES NeverOlder
CHECK_DEADLOCK FALSE
