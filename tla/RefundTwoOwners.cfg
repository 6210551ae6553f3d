SPECIFICATION Spec
CONSTANTS
  Request = {r1}
  Payment = {p1}
  Owner = {o1, o2}
  Customer = {c1}
  NoRequest = NoRequest
  NoPayment = NoPayment
  r1 = r1
  p1 = p1
  c1 = c1
  o1 = o1
  o2 = o2
INVARIANTS RejectedNotRefunded
CHECK_DEADLOCK FALSE
