------------------------ MODULE RefundRequestsProofs ------------------------
(* Proofs about RefundRequests, for every value of its constants.           *)
EXTENDS RefundRequests, TLAPS

\* What an owner's handler knows of its request, wherever it is.
OwnerInv(o) ==
  /\ pc[o] # "idle" => row[on[o]].status # "NONE"
  /\ pc[o] \in {"find", "fresh", "processing", "create", "settle", "cancel"}
       => row[on[o]].approved
  /\ pc[o] = "settle" /\ answer[o] = "succeeded" => refund[row[on[o]].payment] # "none"
  /\ pc[o] = "cancel" => refund[row[on[o]].payment] # "none"

\* What a webhook's transaction knows once it has fetched the charge.
HookInv(e) ==
  /\ hook[e] # "idle" => refund[e[1]] # "none"
  /\ hook[e] \in Request => row[hook[e]].status # "NONE" /\ row[hook[e]].payment = e[1]

Unopened ==
  \A r \in Request : row[r].status = "NONE" => ~row[r].approved /\ row[r].payment = NoPayment

Inductive ==
  /\ TypeOK
  /\ Unopened
  /\ RefundIsReal
  /\ \A o \in Owner : OwnerInv(o)
  /\ \A e \in Event : HookInv(e)

\* What no step undoes.
RowKept(r) ==
  row[r].status # "NONE" =>
    /\ row'[r].status # "NONE"
    /\ row'[r].payment = row[r].payment
    /\ row[r].approved => row'[r].approved
Kept ==
  /\ \A r \in Request : RowKept(r)
  /\ \A p \in Payment : refund[p] # "none" => refund'[p] # "none"

-----------------------------------------------------------------------------

\* A handler that is left alone still knows what it knew.
LEMMA OwnerKept ==
  ASSUME TypeOK, Kept, NEW o \in Owner, OwnerInv(o),
         pc'[o] = pc[o], on'[o] = on[o], answer'[o] = answer[o]
  PROVE  OwnerInv(o)'
<1>1. CASE pc[o] = "idle"
  BY <1>1 DEF OwnerInv
<1>2. CASE pc[o] # "idle"
  <2>1. on[o] \in Request /\ row[on[o]].status # "NONE"
    BY <1>2 DEF TypeOK, OwnerInv
  <2>2. row[on[o]].payment \in Payment
    BY <2>1 DEF TypeOK
  <2>3. QED
    BY <2>1, <2>2 DEF OwnerInv, Kept, RowKept
<1>3. QED
  BY <1>1, <1>2

LEMMA HookKept ==
  ASSUME TypeOK, Kept, NEW e \in Event, HookInv(e), hook'[e] = hook[e]
  PROVE  HookInv(e)'
  BY DEF HookInv, Kept, RowKept, TypeOK, Event

\* A step that settles no request and cancels nothing.
LEMMA RealKept ==
  ASSUME TypeOK, Kept, RefundIsReal, cancelled' = cancelled,
         Unopened,
         \A r \in Request : row'[r].status = "SUCCEEDED"
           => row[r].status = "SUCCEEDED" /\ row'[r].payment = row[r].payment
  PROVE  RefundIsReal'
<1>1. ASSUME NEW r \in Request, row'[r].status = "SUCCEEDED"
      PROVE  refund'[row'[r].payment] # "none"
  <2>1. row[r].status = "SUCCEEDED" /\ row'[r].payment = row[r].payment
    BY <1>1
  <2>2. row[r].payment \in Payment
    BY <2>1 DEF TypeOK
  <2>3. QED
    BY <2>1, <2>2 DEF RefundIsReal, Kept
<1>2. ASSUME NEW p \in cancelled
      PROVE  refund'[p] # "none" /\ \E r \in Request : row'[r].payment = p /\ row'[r].approved
  <2>1. p \in Payment /\ refund[p] # "none"
    BY DEF TypeOK, RefundIsReal
  <2>2. PICK r \in Request : row[r].payment = p /\ row[r].approved
    BY DEF RefundIsReal
  <2>3. row[r].status # "NONE"
    BY <2>2 DEF Unopened
  <2>4. QED
    BY <2>1, <2>2, <2>3 DEF Kept, RowKept
<1>3. QED
  BY <1>1, <1>2 DEF RefundIsReal

-----------------------------------------------------------------------------

\* A write of a request by its id, whatever its status was.
LEMMA Written ==
  ASSUME TypeOK, NEW r \in Request, row[r].status # "NONE",
         NEW new \in Row, new.status # "NONE", new.payment = row[r].payment,
         row[r].approved => new.approved,
         row' = [row EXCEPT ![r] = new]
  PROVE  /\ row' \in [Request -> Row]
         /\ \A q \in Request : RowKept(q)
         /\ \A q \in Request : row'[q].status # "NONE" => row'[q].payment \in Payment
         /\ \A q \in Request : q # r => row'[q] = row[q]
         /\ row'[r] = new
  BY DEF TypeOK, RowKept

\* Every update of the code is such a write.
LEMMA StatusWritten ==
  ASSUME TypeOK, NEW r \in Request, row[r].status # "NONE", NEW s \in Open \cup Ended
  PROVE  LET new == [row[r] EXCEPT !.status = s] IN
         /\ new \in Row /\ new.status = s /\ s # "NONE" /\ new.payment = row[r].payment
         /\ row[r].approved => new.approved
         /\ [row EXCEPT ![r].status = s] = [row EXCEPT ![r] = new]
  BY DEF TypeOK, Row, Open, Ended

-----------------------------------------------------------------------------

\* What is left to show of a step.
LEMMA Step ==
  ASSUME Inductive, TypeOK', Kept, Unopened', RefundIsReal',
         \A o \in Owner : \/ pc'[o] = pc[o] /\ on'[o] = on[o] /\ answer'[o] = answer[o]
                         \/ OwnerInv(o)',
         \A e \in Event : hook'[e] = hook[e] \/ HookInv(e)'
  PROVE  Inductive'
  BY OwnerKept, HookKept DEF Inductive

\* Steps that write no request.
LEMMA NoRowWritten ==
  ASSUME Inductive, row' = row, cancelled' = cancelled,
         \A p \in Payment : refund[p] # "none" => refund'[p] # "none"
  PROVE  Kept /\ Unopened' /\ RefundIsReal'
<1>1. Kept /\ Unopened'
  BY DEF Inductive, Kept, RowKept, Unopened
<1>2. QED
  BY <1>1, RealKept DEF Inductive

LEMMA StripeSteps ==
  ASSUME Inductive, Provider
  PROVE  Inductive'
<1>1. PICK p \in Payment, result \in {"pending", "succeeded", "failed"} :
         /\ refund' = [refund EXCEPT ![p] = result]
         /\ sentBy' = sentBy \/ sentBy' = [sentBy EXCEPT ![p] = NoRequest]
         /\ due' = due \cup {<<p, "sent">>} \/ due' = due \cup {<<p, "settled">>}
         /\ UNCHANGED <<row, cancelled, asks, handler, hook>>
  BY DEF Provider, RefundElsewhere, RefundSettles
<1>2. TypeOK'
  BY <1>1 DEF Inductive, TypeOK, Refund, Event, handler
<1>3. \A q \in Payment : refund[q] # "none" => refund'[q] # "none"
  BY <1>1 DEF Inductive, TypeOK
<1>4. Kept /\ Unopened' /\ RefundIsReal'
  BY <1>1, <1>3, NoRowWritten
<1>5. QED
  BY <1>1, <1>2, <1>4, Step DEF handler

LEMMA AskingSteps ==
  ASSUME Inductive, Asking
  PROVE  Inductive'
<1>1. UNCHANGED <<stripe, handler, due, hook>>
  BY DEF Asking, FindPayment, CreateRequest, GiveUp
<1>2. CASE row' = row
  <2>1. TypeOK'
    BY <1>1, <1>2 DEF Asking, FindPayment, CreateRequest, GiveUp, Inductive, TypeOK,
                      stripe, handler
  <2>2. Kept /\ Unopened' /\ RefundIsReal'
    BY <1>1, <1>2, NoRowWritten DEF stripe
  <2>3. QED
    BY <1>1, <2>1, <2>2, Step DEF handler
<1>3. ASSUME NEW c \in Customer, NEW r \in Request, CreateRequest(c, r)
      PROVE  Inductive'
  <2> DEFINE new == [NoRow EXCEPT !.status = "REQUESTED", !.payment = asks[c]]
  <2>1. new \in Row /\ new.status = "REQUESTED" /\ new.payment \in Payment
    BY <1>3 DEF CreateRequest, Inductive, TypeOK, NoRow, Row, Open, Ended, Action
  <2>2. row[r].status = "NONE" /\ row' = [row EXCEPT ![r] = new]
    BY <1>3 DEF CreateRequest
  <2> HIDE DEF new
  <2>3. /\ row' \in [Request -> Row] /\ row'[r] = new
        /\ \A q \in Request : q # r => row'[q] = row[q]
    BY <2>1, <2>2 DEF Inductive, TypeOK
  <2>4. asks' \in [Customer -> Payment \cup {NoPayment}]
    BY <1>3 DEF CreateRequest, Inductive, TypeOK
  <2>5. TypeOK'
    BY <1>1, <2>1, <2>3, <2>4 DEF Inductive, TypeOK, stripe, handler
  <2>6. Kept /\ Unopened'
    BY <1>1, <2>1, <2>2, <2>3 DEF Inductive, Kept, RowKept, Unopened, stripe
  <2>7. RefundIsReal'
    BY <1>1, <2>1, <2>3, <2>6, RealKept DEF Inductive, stripe
  <2>8. QED
    BY <1>1, <2>5, <2>6, <2>7, Step DEF handler
<1>4. QED
  BY <1>2, <1>3 DEF Asking, FindPayment, GiveUp

-----------------------------------------------------------------------------

\* The others' handlers, and this one when it stops or goes on.
LEMMA Stopped ==
  ASSUME Inductive, NEW o \in Owner, Stop(o)
  PROVE  /\ pc' \in [Owner -> PC] /\ on' \in [Owner -> Request \cup {NoRequest}]
         /\ action' \in [Owner -> Action] /\ answer' \in [Owner -> Refund \cup {"error"}]
         /\ \A q \in Owner : pc'[q] # "idle" => on'[q] \in Request
         /\ \A q \in Owner : \/ pc'[q] = pc[q] /\ on'[q] = on[q] /\ answer'[q] = answer[q]
                            \/ OwnerInv(q)'
<1>1. \A q \in Owner : q # o => pc'[q] = pc[q] /\ on'[q] = on[q] /\ answer'[q] = answer[q]
  BY DEF Stop, Inductive, TypeOK
<1>2. pc'[o] = "idle"
  BY DEF Stop, Inductive, TypeOK
<1>3. OwnerInv(o)'
  BY <1>2 DEF OwnerInv
<1>4. QED
  BY <1>1, <1>2, <1>3 DEF Stop, Inductive, TypeOK, PC, Action, Refund

LEMMA GoesTo ==
  ASSUME Inductive, NEW o \in Owner, NEW at \in PC, pc[o] # "idle", Goto(o, at)
  PROVE  /\ pc' \in [Owner -> PC] /\ on' = on /\ action' = action /\ answer' = answer
         /\ \A q \in Owner : pc'[q] # "idle" => on'[q] \in Request
         /\ pc'[o] = at
         /\ \A q \in Owner : q # o => pc'[q] = pc[q]
  BY DEF Goto, Inductive, TypeOK

LEMMA LoadSteps ==
  ASSUME Inductive, NEW o \in Owner, NEW r \in Request, NEW a \in Action,
         NEW at \in {"rejectFresh", "approveFresh"}, Begin(o, r, at, a)
  PROVE  Inductive'
<1>1. /\ pc' = [pc EXCEPT ![o] = at] /\ on' = [on EXCEPT ![o] = r]
      /\ action' = [action EXCEPT ![o] = a] /\ row[r].status = "REQUESTED"
      /\ UNCHANGED <<row, stripe, asks, answer, due, hook>>
  BY DEF Begin
<1>2. TypeOK'
  BY <1>1 DEF Inductive, TypeOK, PC, stripe
<1>3. Kept /\ Unopened' /\ RefundIsReal'
  BY <1>1, NoRowWritten DEF stripe
<1>4. pc'[o] = at /\ on'[o] = r
  BY <1>1 DEF Inductive, TypeOK
<1>5. OwnerInv(o)'
  BY <1>1, <1>4 DEF OwnerInv
<1>6. \A q \in Owner : q # o => pc'[q] = pc[q] /\ on'[q] = on[q] /\ answer'[q] = answer[q]
  BY <1>1 DEF Inductive, TypeOK
<1>7. QED
  BY <1>1, <1>2, <1>3, <1>5, <1>6, Step

LEMMA RereadSteps ==
  ASSUME Inductive, NEW o \in Owner,
         RejectFresh(o) \/ ApproveFresh(o) \/ ExecuteFind(o) \/ ExecuteFresh(o)
  PROVE  Inductive'
<1>1. UNCHANGED <<row, stripe, asks, due, hook>>
  BY DEF RejectFresh, ApproveFresh, ExecuteFind, ExecuteFresh, Reread
<1>2. Kept /\ Unopened' /\ RefundIsReal'
  BY <1>1, NoRowWritten DEF stripe
<1>3. CASE Stop(o)
  <2>1. TypeOK'
    BY <1>1, <1>3, Stopped DEF Inductive, TypeOK, stripe
  <2>2. QED
    BY <1>1, <1>2, <1>3, <2>1, Stopped, Step
<1>4. ASSUME NEW at \in PC, NEW next \in PC, pc[o] = at, at # "idle", Goto(o, next),
             /\ at \in {"rejectFresh", "approveFresh"} => next \in {"rejectWrite", "approveWrite"}
             /\ at \in {"find", "fresh"} => next \in {"fresh", "processing"},
             at \in {"rejectFresh", "approveFresh", "find", "fresh"}
      PROVE  Inductive'
  <2>1. TypeOK'
    BY <1>1, <1>4, GoesTo DEF Inductive, TypeOK, stripe
  <2>2. pc'[o] = next /\ on' = on /\ answer' = answer
    BY <1>4, GoesTo
  <2>3. OwnerInv(o)
    BY DEF Inductive
  <2>4. OwnerInv(o)'
    BY <1>1, <1>4, <2>2, <2>3 DEF OwnerInv
  <2>5. QED
    BY <1>1, <1>2, <1>4, <2>1, <2>2, <2>4, GoesTo, Step
<1>5. QED
  BY <1>3, <1>4 DEF RejectFresh, ApproveFresh, ExecuteFind, ExecuteFresh, Reread, PC

\* A handler's write of its request: what remains is its own and the settled rows'.
LEMMA WriteStep ==
  ASSUME Inductive, NEW o \in Owner, NEW new \in Row, pc[o] # "idle",
         new.status # "NONE", new.payment = row[on[o]].payment,
         row[on[o]].approved => new.approved,
         row' = [row EXCEPT ![on[o]] = new],
         UNCHANGED <<stripe, asks, due, hook>>
  PROVE  /\ on[o] \in Request /\ row'[on[o]] = new
         /\ Kept /\ Unopened'
         /\ row' \in [Request -> Row]
         /\ \A q \in Request : row'[q].status # "NONE" => row'[q].payment \in Payment
         /\ (new.status = "SUCCEEDED" => refund[new.payment] # "none") => RefundIsReal'
<1> DEFINE r == on[o]
<1>1. r \in Request /\ row[r].status # "NONE"
  BY DEF Inductive, TypeOK, OwnerInv
<1>2. /\ row' \in [Request -> Row]
      /\ \A q \in Request : RowKept(q)
      /\ \A q \in Request : row'[q].status # "NONE" => row'[q].payment \in Payment
      /\ \A q \in Request : q # r => row'[q] = row[q]
      /\ row'[r] = new
  BY <1>1, Written DEF Inductive
<1>3. Kept
  BY <1>2 DEF Kept, stripe
<1>4. Unopened'
  BY <1>2 DEF Inductive, Unopened
<1>5. ASSUME new.status = "SUCCEEDED" => refund[new.payment] # "none"
      PROVE  RefundIsReal'
  <2>1. ASSUME NEW q \in Request, row'[q].status = "SUCCEEDED"
        PROVE  refund'[row'[q].payment] # "none"
    BY <1>2, <1>5, <2>1 DEF Inductive, RefundIsReal, stripe
  <2>2. ASSUME NEW p \in cancelled
        PROVE  refund'[p] # "none" /\ \E q \in Request : row'[q].payment = p /\ row'[q].approved
    <3>1. refund[p] # "none" /\ refund' = refund
      BY DEF Inductive, RefundIsReal, stripe
    <3>2. PICK q \in Request : row[q].payment = p /\ row[q].approved
      BY DEF Inductive, RefundIsReal
    <3>3. row[q].status # "NONE"
      BY <3>2 DEF Inductive, Unopened
    <3>4. QED
      BY <1>2, <3>1, <3>2, <3>3 DEF RowKept
  <2>3. QED
    BY <2>1, <2>2 DEF RefundIsReal, stripe
<1>6. QED
  BY <1>1, <1>2, <1>3, <1>4, <1>5

LEMMA WriteAndStop ==
  ASSUME Inductive, NEW o \in Owner, NEW new \in Row, pc[o] # "idle",
         new.status # "NONE", new.payment = row[on[o]].payment,
         row[on[o]].approved => new.approved,
         row' = [row EXCEPT ![on[o]] = new],
         UNCHANGED <<stripe, asks, due, hook>>,
         new.status = "SUCCEEDED" => refund[new.payment] # "none", Stop(o)
  PROVE  Inductive'
<1>1. /\ Kept /\ Unopened' /\ RefundIsReal' /\ row' \in [Request -> Row]
      /\ \A q \in Request : row'[q].status # "NONE" => row'[q].payment \in Payment
  BY WriteStep
<1>2. TypeOK'
  BY <1>1, Stopped DEF Inductive, TypeOK, stripe
<1>3. QED
  BY <1>1, <1>2, Stopped, Step

LEMMA WriteAndGo ==
  ASSUME Inductive, NEW o \in Owner, NEW new \in Row, pc[o] # "idle",
         new.status # "NONE", new.payment = row[on[o]].payment, new.approved,
         row' = [row EXCEPT ![on[o]] = new],
         UNCHANGED <<stripe, asks, due, hook>>,
         new.status = "SUCCEEDED" => refund[new.payment] # "none",
         NEW at \in {"find", "create", "cancel"}, Goto(o, at),
         at = "cancel" => new.status = "SUCCEEDED"
  PROVE  Inductive'
<1>1. /\ Kept /\ Unopened' /\ RefundIsReal' /\ row' \in [Request -> Row]
      /\ \A q \in Request : row'[q].status # "NONE" => row'[q].payment \in Payment
      /\ row'[on[o]] = new
  BY WriteStep
<1>2. /\ pc' \in [Owner -> PC] /\ on' = on /\ action' = action /\ answer' = answer
      /\ \A q \in Owner : pc'[q] # "idle" => on'[q] \in Request
      /\ pc'[o] = at
      /\ \A q \in Owner : q # o => pc'[q] = pc[q]
  BY GoesTo DEF PC
<1>3. TypeOK'
  BY <1>1, <1>2 DEF Inductive, TypeOK, stripe
<1>4. OwnerInv(o)'
  BY <1>1, <1>2 DEF OwnerInv, stripe
<1>5. QED
  BY <1>1, <1>2, <1>3, <1>4, Step

\* The rows a decision writes.
RejectedRow(old) == [old EXCEPT !.status = "REJECTED", !.rejected = TRUE]
WithStatus(old, s) == [old EXCEPT !.status = s]
ApprovedRow(old, a) == [old EXCEPT !.status = "APPROVED", !.approved = TRUE, !.action = a]

LEMMA Decided ==
  ASSUME NEW old \in Row, NEW a \in Action
  PROVE  /\ RejectedRow(old) \in Row /\ RejectedRow(old).status = "REJECTED"
         /\ RejectedRow(old).payment = old.payment
         /\ RejectedRow(old).approved = old.approved
         /\ ApprovedRow(old, a) \in Row /\ ApprovedRow(old, a).status = "APPROVED"
         /\ ApprovedRow(old, a).payment = old.payment
         /\ ApprovedRow(old, a).approved
         /\ ApprovedRow(old, a).rejected = old.rejected
         /\ \A s : /\ WithStatus(old, s).status = s
                  /\ WithStatus(old, s).rejected = old.rejected
  BY DEF Row, Open, Ended, RejectedRow, ApprovedRow, WithStatus

LEMMA WriteSteps ==
  ASSUME Inductive, NEW o \in Owner,
         \/ RejectWrite(o) \/ ApproveWrite(o) \/ MarkProcessing(o)
         \/ SettleSucceeded(o) \/ SettleFailed(o)
  PROVE  Inductive'
<1> DEFINE r == on[o]
<1>0. pc[o] # "idle" /\ UNCHANGED <<stripe, asks, due, hook>>
  BY DEF RejectWrite, ApproveWrite, MarkProcessing, SettleSucceeded, SettleFailed
<1>1. /\ TypeOK /\ r \in Request /\ row[r].status # "NONE" /\ OwnerInv(o) /\ action[o] \in Action
      /\ row[r] \in Row
  BY <1>0 DEF Inductive, TypeOK, OwnerInv
<1> DEFINE at(s) == [row[r] EXCEPT !.status = s]
<1>2. \A s \in Open \cup Ended :
         /\ at(s) \in Row /\ at(s).status = s /\ s # "NONE" /\ at(s).payment = row[r].payment
         /\ row[r].approved => at(s).approved
         /\ [row EXCEPT ![r].status = s] = [row EXCEPT ![r] = at(s)]
  BY <1>1, StatusWritten
<1>3. CASE RejectWrite(o)
  <2> DEFINE new == RejectedRow(row[r])
  <2>1. /\ new \in Row /\ new.status = "REJECTED" /\ new.payment = row[r].payment
        /\ row[r].approved => new.approved
    BY <1>1, Decided
  <2>2. row' = [row EXCEPT ![r] = new] /\ Stop(o)
    BY <1>3 DEF RejectWrite, RejectedRow
  <2> HIDE DEF new
  <2>3. QED
    BY <1>0, <2>1, <2>2, WriteAndStop
<1>4. CASE ApproveWrite(o)
  <2> DEFINE new == ApprovedRow(row[r], action[o])
  <2>1. /\ new \in Row /\ new.status = "APPROVED" /\ new.payment = row[r].payment
        /\ new.approved
    BY <1>1, Decided
  <2>2. row' = [row EXCEPT ![r] = new] /\ Goto(o, "find")
    BY <1>4 DEF ApproveWrite, ApprovedRow
  <2> HIDE DEF new
  <2>3. QED
    BY <1>0, <2>1, <2>2, WriteAndGo
<1>5. CASE MarkProcessing(o)
  <2> DEFINE new == at("PROCESSING")
  <2>1. /\ new \in Row /\ new.status = "PROCESSING" /\ new.payment = row[r].payment
        /\ row[r].approved => new.approved
        /\ [row EXCEPT ![r].status = "PROCESSING"] = [row EXCEPT ![r] = new]
    BY <1>2 DEF Open
  <2>2. row' = [row EXCEPT ![r] = new] /\ Goto(o, "create") /\ row[r].approved
    BY <1>1, <1>5, <2>1 DEF MarkProcessing, OwnerInv
  <2> HIDE DEF new
  <2>3. QED
    BY <1>0, <2>1, <2>2, WriteAndGo
<1>6. CASE SettleSucceeded(o)
  <2> DEFINE new == at("SUCCEEDED")
  <2>1. /\ new \in Row /\ new.status = "SUCCEEDED" /\ new.payment = row[r].payment
        /\ row[r].approved => new.approved
        /\ [row EXCEPT ![r].status = "SUCCEEDED"] = [row EXCEPT ![r] = new]
    BY <1>2 DEF Ended
  <2>2. /\ row' = [row EXCEPT ![r] = new]
        /\ Goto(o, "cancel") \/ Stop(o)
        /\ row[r].approved /\ refund[row[r].payment] # "none"
    BY <1>1, <1>6, <2>1 DEF SettleSucceeded, OwnerInv
  <2> HIDE DEF new
  <2>3. CASE Stop(o)
    BY <1>0, <2>1, <2>2, <2>3, WriteAndStop
  <2>4. CASE Goto(o, "cancel")
    BY <1>0, <2>1, <2>2, <2>4, WriteAndGo
  <2>5. QED
    BY <2>2, <2>3, <2>4
<1>7. CASE SettleFailed(o)
  <2> DEFINE new == at("FAILED")
  <2>1. /\ new \in Row /\ new.status = "FAILED" /\ new.payment = row[r].payment
        /\ row[r].approved => new.approved
        /\ [row EXCEPT ![r].status = "FAILED"] = [row EXCEPT ![r] = new]
    BY <1>2 DEF Ended
  <2>2. row' = [row EXCEPT ![r] = new] /\ Stop(o)
    BY <1>7, <2>1 DEF SettleFailed
  <2> HIDE DEF new
  <2>3. QED
    BY <1>0, <2>1, <2>2, WriteAndStop
<1>8. QED
  BY <1>3, <1>4, <1>5, <1>6, <1>7

LEMMA ProviderCalls ==
  ASSUME Inductive, NEW o \in Owner, NEW result \in {"pending", "succeeded"},
         NEW a \in Refund \cup {"error"},
         CreateRefund(o, result, a) \/ ReplayRefund(o) \/ RefundRefused(o)
  PROVE  Inductive'
<1> DEFINE p == row[on[o]].payment
<1>1. pc[o] = "create" /\ on[o] \in Request /\ OwnerInv(o) /\ p \in Payment
  BY DEF CreateRefund, ReplayRefund, RefundRefused, Inductive, TypeOK, OwnerInv
<1>2. PICK b \in Refund \cup {"error"} :
        /\ Answered(o, b)
        /\ b = "succeeded" => refund'[p] # "none"
    <2>1. CASE CreateRefund(o, result, a)
      BY <1>1, <2>1 DEF CreateRefund, Inductive, TypeOK
    <2>2. CASE ReplayRefund(o)
      BY <1>1, <2>2 DEF ReplayRefund, Inductive, TypeOK
    <2>3. CASE RefundRefused(o)
      BY <2>3 DEF RefundRefused
    <2>4. QED
      BY <2>1, <2>2, <2>3
<1>3. /\ refund' \in [Payment -> Refund] /\ sentBy' \in [Payment -> Request \cup {NoRequest}]
      /\ due' \subseteq Event
      /\ \A q \in Payment : refund[q] # "none" => refund'[q] # "none"
  BY <1>1 DEF CreateRefund, ReplayRefund, RefundRefused, Inductive, TypeOK, Refund, Event
<1>4. /\ pc' = [pc EXCEPT ![o] = "settle"] /\ answer' = [answer EXCEPT ![o] = b]
      /\ UNCHANGED <<row, cancelled, asks, on, action, hook>>
  BY <1>2 DEF Answered
<1>5. TypeOK'
  BY <1>1, <1>3, <1>4 DEF Inductive, TypeOK, PC
<1>6. Kept /\ Unopened' /\ RefundIsReal'
  BY <1>3, <1>4, NoRowWritten
<1>7. pc'[o] = "settle" /\ answer'[o] = b
  BY <1>4 DEF Inductive, TypeOK
<1>8. OwnerInv(o)'
  BY <1>1, <1>2, <1>4, <1>7 DEF OwnerInv
<1>9. \A q \in Owner : q # o => pc'[q] = pc[q] /\ on'[q] = on[q] /\ answer'[q] = answer[q]
  BY <1>4 DEF Inductive, TypeOK
<1>10. QED
  BY <1>4, <1>5, <1>6, <1>8, <1>9, Step

LEMMA StopSteps ==
  ASSUME Inductive, NEW o \in Owner, CancelSubscription(o) \/ Crash(o)
  PROVE  Inductive'
<1>1. Stop(o) /\ UNCHANGED <<row, refund, sentBy, asks, due, hook>>
  BY DEF CancelSubscription, Crash, stripe
<1>2. CASE CancelSubscription(o)
  <2>1. /\ on[o] \in Request /\ row[on[o]].payment \in Payment /\ row[on[o]].approved
        /\ refund[row[on[o]].payment] # "none"
        /\ cancelled' = cancelled \cup {row[on[o]].payment}
    BY <1>2 DEF CancelSubscription, Inductive, TypeOK, OwnerInv
  <2>2. Kept /\ Unopened' /\ RefundIsReal'
    BY <1>1, <2>1 DEF Inductive, Kept, RowKept, Unopened, RefundIsReal
  <2>3. TypeOK'
    BY <1>1, <2>1, Stopped DEF Inductive, TypeOK
  <2>4. QED
    BY <1>1, <2>2, <2>3, Stopped, Step
<1>3. CASE Crash(o)
  <2>1. cancelled' = cancelled
    BY <1>3 DEF Crash, stripe
  <2>2. TypeOK'
    BY <1>1, <2>1, Stopped DEF Inductive, TypeOK
  <2>3. QED
    BY <1>1, <2>1, <2>2, NoRowWritten, Stopped, Step
<1>4. QED
  BY <1>2, <1>3

-----------------------------------------------------------------------------

LEMMA WebhookSteps ==
  ASSUME Inductive, NEW e \in Event, Webhook(e) \/ HookRollback(e)
  PROVE  Inductive'
<1>0. UNCHANGED <<stripe, asks, handler>> /\ e[1] \in Payment
  BY DEF Webhook, HookFetch, HookFind, HookFindNone, HookWrite, HookRollback, Event
<1>1. CASE row' = row
  <2>1. /\ due' \subseteq Event /\ hook' \in [Event -> Request \cup {"idle", "fetched"}]
        /\ \A f \in Event : f # e => hook'[f] = hook[f]
    BY <1>1 DEF Webhook, HookFetch, HookFind, HookFindNone, HookWrite, HookRollback,
                Acknowledge, Inductive, TypeOK
  <2>2. TypeOK'
    BY <1>0, <1>1, <2>1 DEF Inductive, TypeOK, stripe, handler
  <2>3. HookInv(e)'
    <3>1. CASE hook'[e] = "idle"
      BY <3>1, ConstantsAssumption DEF HookInv
    <3>2. CASE hook'[e] = "fetched"
      <4>1. refund[e[1]] # "none" \/ hook[e] = "fetched"
        BY <3>2, ConstantsAssumption DEF Webhook, HookFetch, HookFind, HookFindNone, HookWrite,
             HookRollback, Acknowledge, Inductive, TypeOK, Refunded
      <4>2. HookInv(e)
        BY DEF Inductive
      <4>3. QED
        BY <1>0, <3>2, <4>1, <4>2, ConstantsAssumption DEF HookInv, stripe
    <3>3. CASE hook'[e] \notin {"idle", "fetched"}
      <4>1. hook[e] = "fetched"
        BY <3>3 DEF Webhook, HookFetch, HookFind, HookFindNone, HookWrite,
             HookRollback, Acknowledge, Inductive, TypeOK
      <4>2. PICK r \in Request : HookFind(e, r) /\ hook'[e] = r
        BY <3>3, <4>1, ConstantsAssumption DEF Webhook, HookFetch, HookFind, HookFindNone, HookWrite,
             HookRollback, Acknowledge, Inductive, TypeOK
      <4>3. row[r].payment = e[1]
        BY <4>2 DEF HookFind, OfCharge
      <4>4. row[r].payment \in Payment
        BY <1>0, <4>3
      <4>5. HookInv(e)
        BY DEF Inductive
      <4>6. refund[e[1]] # "none"
        BY <4>1, <4>5 DEF HookInv
      <4>7. row[r].status # "NONE"
        BY <4>4, ConstantsAssumption DEF Inductive, Unopened
      <4>8. QED
        BY <1>0, <1>1, <4>2, <4>3, <4>6, <4>7 DEF HookInv, stripe
    <3>4. QED
      BY <3>1, <3>2, <3>3
  <2>4. QED
    BY <1>0, <1>1, <2>1, <2>2, <2>3, NoRowWritten, Step DEF stripe, handler

<1>2. CASE HookWrite(e)
  <2> DEFINE r == hook[e]
             new == [row[r] EXCEPT !.status = "SUCCEEDED"]
  <2>1. /\ r \in Request /\ row[r].status # "NONE" /\ row[r].payment = e[1]
        /\ refund[e[1]] # "none"
    BY <1>2, ConstantsAssumption DEF HookWrite, Inductive, HookInv
  <2>2. /\ new \in Row /\ new.status = "SUCCEEDED" /\ new.payment = row[r].payment
        /\ row[r].approved => new.approved
        /\ row' = [row EXCEPT ![r] = new]
    BY <1>2, <2>1, StatusWritten DEF HookWrite, Inductive, Ended
  <2>3. /\ due' \subseteq Event /\ hook' = [hook EXCEPT ![e] = "idle"]
    BY <1>2 DEF HookWrite, Acknowledge, Inductive, TypeOK
  <2> HIDE DEF new
  <2>4. /\ row' \in [Request -> Row]
        /\ \A q \in Request : RowKept(q)
        /\ \A q \in Request : row'[q].status # "NONE" => row'[q].payment \in Payment
        /\ \A q \in Request : q # r => row'[q] = row[q]
        /\ row'[r] = new
    BY <2>1, <2>2, Written DEF Inductive
  <2>5. Kept /\ Unopened'
    BY <1>0, <2>2, <2>4 DEF Kept, stripe, Inductive, Unopened
  <2>6. TypeOK'
    BY <1>0, <2>3, <2>4 DEF Inductive, TypeOK, stripe, handler
  <2>7. RefundIsReal'
    <3>1. ASSUME NEW q \in Request, row'[q].status = "SUCCEEDED"
          PROVE  refund'[row'[q].payment] # "none"
      BY <1>0, <2>1, <2>2, <2>4, <3>1 DEF Inductive, RefundIsReal, stripe
    <3>2. ASSUME NEW p \in cancelled
          PROVE  refund'[p] # "none" /\ \E q \in Request : row'[q].payment = p /\ row'[q].approved
      <4>1. refund[p] # "none" /\ refund' = refund
        BY <1>0 DEF Inductive, RefundIsReal, stripe
      <4>2. PICK q \in Request : row[q].payment = p /\ row[q].approved
        BY DEF Inductive, RefundIsReal
      <4>3. row[q].status # "NONE"
        BY <4>2 DEF Inductive, Unopened
      <4>4. QED
        BY <2>4, <4>1, <4>2, <4>3 DEF RowKept
    <3>3. cancelled' = cancelled
      BY <1>0 DEF stripe
    <3>4. QED
      BY <3>1, <3>2, <3>3 DEF RefundIsReal
  <2>8. \A f \in Event : hook'[f] = hook[f] \/ HookInv(f)'
    BY <2>3, ConstantsAssumption DEF HookInv, Inductive, TypeOK
  <2>9. QED
    BY <1>0, <2>5, <2>6, <2>7, <2>8, Step DEF handler
<1>3. QED
  BY <1>1, <1>2 DEF Webhook, HookFetch, HookFind, HookFindNone, HookRollback

-----------------------------------------------------------------------------

LEMMA InitInductive == Init => Inductive
<1> SUFFICES ASSUME Init PROVE Inductive
  OBVIOUS
<1>1. NoRow \in Row
  BY DEF NoRow, Row
<1>2. TypeOK
  BY <1>1, ConstantsAssumption DEF Init, TypeOK, Refund, PC, Action, NoRow
<1>3. RefundIsReal /\ Unopened
  BY DEF Init, RefundIsReal, Unopened, NoRow
<1>4. \A o \in Owner : OwnerInv(o)
  BY DEF Init, OwnerInv
<1>5. \A e \in Event : HookInv(e)
  BY ConstantsAssumption DEF Init, HookInv
<1>6. QED
  BY <1>2, <1>3, <1>4, <1>5 DEF Inductive

LEMMA NextInductive == Inductive /\ [Next]_vars => Inductive'
<1> SUFFICES ASSUME Inductive, [Next]_vars PROVE Inductive'
  OBVIOUS
<1>1. CASE UNCHANGED vars
  BY <1>1 DEF vars, stripe, handler, Inductive, TypeOK, Unopened, RefundIsReal, OwnerInv, HookInv
<1>2. CASE Provider \/ Asking
  BY <1>2, StripeSteps, AskingSteps
<1>3. ASSUME NEW o \in Owner, Reviewing(o)
      PROVE  Inductive'
  <2>1. ASSUME NEW r \in Request, NEW a \in Action, RejectLoad(o, r) \/ ApproveLoad(o, r, a)
        PROVE  Inductive'
    BY <2>1, LoadSteps DEF RejectLoad, ApproveLoad, Action
  <2>2. QED
    BY <1>3, <2>1, RereadSteps, WriteSteps DEF Reviewing, Action
<1>4. ASSUME NEW o \in Owner, Executing(o)
      PROVE  Inductive'
  <2>1. ASSUME NEW result \in {"pending", "succeeded"}, NEW a \in Refund \cup {"error"},
               CreateRefund(o, result, a) \/ ReplayRefund(o) \/ RefundRefused(o)
        PROVE  Inductive'
    BY <2>1, ProviderCalls
  <2>2. "pending" \in {"pending", "succeeded"} /\ "error" \in Refund \cup {"error"}
    OBVIOUS
  <2>3. QED
    BY <1>4, <2>1, <2>2, RereadSteps, WriteSteps, StopSteps DEF Executing
<1>5. ASSUME NEW o \in Owner, Crash(o)
      PROVE  Inductive'
  BY <1>5, StopSteps
<1>6. ASSUME NEW e \in Event, Webhook(e) \/ HookRollback(e)
      PROVE  Inductive'
  BY <1>6, WebhookSteps
<1>7. QED
  BY <1>1, <1>2, <1>3, <1>4, <1>5, <1>6 DEF Next

\* The inductive invariant holds in every reachable state.
THEOREM InductiveHolds == Spec => []Inductive
  BY InitInductive, NextInductive, PTL DEF Spec

\* The rows, Stripe's refunds and the handlers are well typed, and every request that
\* was opened names its payment.
THEOREM TypeCorrect == Spec => []TypeOK
<1>1. Inductive => TypeOK
  BY DEF Inductive
<1>2. QED
  BY <1>1, InductiveHolds, PTL

\* With any number of owners, customers, requests and events: nothing is recorded as
\* refunded or cancelled that Stripe did not refund (executeApprovedRefund,
\* applyChargeRefundState).
THEOREM RefundsAreReal == Spec => []RefundIsReal
<1>1. Inductive => RefundIsReal
  BY DEF Inductive
<1>2. QED
  BY <1>1, InductiveHolds, PTL

-----------------------------------------------------------------------------
(* A closed request, with any number of owners, customers and events.       *)

StaysClosed(r) ==
  /\ Closed(r)'
  /\ \A p \in Payment : sentBy'[p] = r => sentBy[p] = r

\* The handlers that write a request as open, or have Stripe refund it.
TakesForOpen(o, r) == on[o] = r /\ pc[o] \in {"approveWrite", "processing", "create"}

\* Every step leaves a closed request closed: a handler takes a request for open only by
\* reading it so, and one that does not writes an end.
LEMMA ClosedStep ==
  ASSUME TypeOK, Next, NEW r \in Request, Closed(r)
  PROVE  StaysClosed(r)
<1>0. /\ row[r].status \in Ended /\ row[r].status \notin {"NONE", "REQUESTED", "APPROVED"}
      /\ \A o \in Owner : ~TakesForOpen(o, r)
  BY DEF Closed, TakesForOpen, Ended
<1>1. ASSUME row'[r].status \in Ended,
             \A o \in Owner : ~TakesForOpen(o, r)',
             \A p \in Payment : sentBy'[p] = r => sentBy[p] = r
      PROVE  StaysClosed(r)
  BY <1>1 DEF StaysClosed, Closed, TakesForOpen
<1>2. CASE Provider
  <2>1. /\ UNCHANGED <<row, pc, on>>
        /\ \A p \in Payment : sentBy'[p] \in {sentBy[p], NoRequest}
    BY <1>2 DEF Provider, RefundElsewhere, RefundSettles, handler, TypeOK
  <2>2. QED
    BY <1>0, <1>1, <2>1, ConstantsAssumption DEF TakesForOpen
<1>3. CASE Asking
  <2>1. UNCHANGED <<sentBy, pc, on>>
    BY <1>3 DEF Asking, FindPayment, CreateRequest, GiveUp, stripe, handler
  <2>2. row'[r] = row[r]
    BY <1>0, <1>3 DEF Asking, FindPayment, CreateRequest, GiveUp, TypeOK
  <2>3. QED
    BY <1>0, <1>1, <2>1, <2>2 DEF TakesForOpen
<1>4. ASSUME NEW e \in Event, Webhook(e) \/ HookRollback(e)
      PROVE  StaysClosed(r)
  <2>1. UNCHANGED <<sentBy, pc, on>>
    BY <1>4 DEF Webhook, HookFetch, HookFind, HookFindNone, HookWrite, HookRollback, stripe, handler
  <2>2. row'[r].status \in {row[r].status, "SUCCEEDED"}
    BY <1>4 DEF Webhook, HookFetch, HookFind, HookFindNone, HookWrite, HookRollback, TypeOK, Row
  <2>3. QED
    BY <1>0, <1>1, <2>1, <2>2 DEF TakesForOpen, Ended
<1>5. ASSUME NEW o \in Owner, Reviewing(o) \/ Executing(o) \/ Crash(o)
      PROVE  StaysClosed(r)
  <2>1. ASSUME row' = row, sentBy' = sentBy, \A q \in Owner \ {o} : pc'[q] = pc[q] /\ on'[q] = on[q],
               ~TakesForOpen(o, r)'
        PROVE  StaysClosed(r)
    BY <1>0, <1>1, <2>1 DEF TakesForOpen
  <2>2. ASSUME NEW q \in Request, NEW a, NEW at \in {"rejectFresh", "approveFresh"},
               Begin(o, q, at, a)
        PROVE  StaysClosed(r)
    BY <2>1, <2>2 DEF Begin, TypeOK, stripe, TakesForOpen
  <2>3. ASSUME NEW at, NEW wanted \in {"REQUESTED", "APPROVED"}, NEW next,
               Reread(o, at, wanted, next)
        PROVE  StaysClosed(r)
    <3>1. /\ row' = row /\ sentBy' = sentBy
          /\ \A q \in Owner \ {o} : pc'[q] = pc[q] /\ on'[q] = on[q]
      BY <2>3 DEF Reread, Goto, Stop, TypeOK, stripe
    <3>2. pc'[o] = "idle" \/ (on' = on /\ row[on[o]].status = wanted)
      BY <2>3 DEF Reread, Goto, Stop, Status, TypeOK
    <3>3. ~TakesForOpen(o, r)'
      BY <1>0, <3>2 DEF TakesForOpen
    <3>4. QED
      BY <2>1, <3>1, <3>3
  <2>4. ASSUME pc[o] \in PC \ {"idle"}, sentBy' = sentBy,
               \A q \in Owner \ {o} : pc'[q] = pc[q] /\ on'[q] = on[q],
               TakesForOpen(o, r)' => TakesForOpen(o, r),
               NEW new, row' = [row EXCEPT ![on[o]] = new],
               new.status \in Ended \/ TakesForOpen(o, on[o])
        PROVE  StaysClosed(r)
    <3>1. on[o] \in Request
      BY <2>4 DEF TypeOK
    <3>2. row'[r].status \in Ended
      BY <1>0, <2>4, <3>1 DEF TypeOK
    <3>3. QED
      BY <1>0, <1>1, <2>4, <3>2 DEF TakesForOpen
  <2>5. CASE RejectWrite(o) \/ SettleSucceeded(o) \/ SettleFailed(o)
    <3>1. /\ pc[o] \in PC \ {"idle"} /\ sentBy' = sentBy
          /\ \A q \in Owner \ {o} : pc'[q] = pc[q] /\ on'[q] = on[q]
          /\ ~TakesForOpen(o, r)'
      BY <2>5 DEF RejectWrite, SettleSucceeded, SettleFailed, Stop, Goto, TypeOK, stripe,
                  TakesForOpen, PC
    <3>2. row[on[o]] \in Row
      BY <3>1 DEF TypeOK
    <3>3. PICK new : row' = [row EXCEPT ![on[o]] = new] /\ new.status \in Ended
      <4>1. CASE RejectWrite(o)
        <5>1. [row[on[o]] EXCEPT !.status = "REJECTED", !.rejected = TRUE].status = "REJECTED"
          BY <3>2 DEF Row
        <5>2. QED
          BY <4>1, <5>1 DEF RejectWrite, Ended
      <4>2. CASE SettleSucceeded(o) \/ SettleFailed(o)
        <5>1. PICK s \in {"SUCCEEDED", "FAILED"} :
                row' = [row EXCEPT ![on[o]] = WithStatus(row[on[o]], s)]
          BY <4>2 DEF SettleSucceeded, SettleFailed, WithStatus
        <5>2. WithStatus(row[on[o]], s).status = s
          BY <3>2, <5>1 DEF WithStatus, Row
        <5>3. QED
          BY <5>1, <5>2 DEF Ended
      <4>3. QED
        BY <2>5, <4>1, <4>2
    <3>4. QED
      BY <2>4, <3>1, <3>3
  <2>6. CASE ApproveWrite(o) \/ MarkProcessing(o)
    <3>1. /\ TakesForOpen(o, on[o]) /\ pc[o] # "idle" /\ sentBy' = sentBy /\ on' = on
          /\ \A q \in Owner \ {o} : pc'[q] = pc[q]
      BY <2>6 DEF ApproveWrite, MarkProcessing, Goto, TypeOK, stripe, TakesForOpen
    <3>2. on[o] # r
      BY <1>0, <3>1
    <3>3. row'[r] = row[r]
      BY <2>6, <3>2 DEF ApproveWrite, MarkProcessing, TypeOK
    <3>4. QED
      BY <1>0, <1>1, <3>1, <3>2, <3>3 DEF TakesForOpen
  <2>7. ASSUME NEW result, NEW a,
               CreateRefund(o, result, a) \/ ReplayRefund(o) \/ RefundRefused(o)
        PROVE  StaysClosed(r)
    <3>1. /\ TakesForOpen(o, on[o]) /\ pc'[o] = "settle" /\ on' = on /\ row' = row
          /\ \A q \in Owner \ {o} : pc'[q] = pc[q]
          /\ \/ sentBy' = sentBy
             \/ sentBy' = [sentBy EXCEPT ![row[on[o]].payment] = on[o]]
      BY <2>7 DEF CreateRefund, ReplayRefund, RefundRefused, Answered, TypeOK, TakesForOpen
    <3>2. on[o] # r
      BY <1>0, <3>1
    <3>3. QED
      BY <1>0, <1>1, <3>1, <3>2 DEF TakesForOpen, TypeOK
  <2>8. CASE CancelSubscription(o) \/ Crash(o)
    BY <2>1, <2>8 DEF CancelSubscription, Crash, Stop, TypeOK, stripe, TakesForOpen
  <2>9. CASE RejectFresh(o) \/ ApproveFresh(o) \/ ExecuteFind(o) \/ ExecuteFresh(o)
    BY <2>3, <2>9 DEF RejectFresh, ApproveFresh, ExecuteFind, ExecuteFresh
  <2>10. ASSUME NEW q \in Request, RejectLoad(o, q) \/ \E a \in Action : ApproveLoad(o, q, a)
         PROVE  StaysClosed(r)
    BY <2>2, <2>10 DEF RejectLoad, ApproveLoad
  <2>11. QED
    BY <1>5, <2>5, <2>6, <2>7, <2>8, <2>9, <2>10 DEF Reviewing, Executing
<1>6. QED
  BY <1>2, <1>3, <1>4, <1>5 DEF Next

\* With any number of owners, customers, requests and events: a request that has ended and
\* that no handler still takes for open is never reopened, and Stripe is never again asked
\* to refund it (approveRefundRequest, executeApprovedRefund, applyChargeRefundState).
THEOREM ClosedIsForGood == Spec => ClosedForGood
<1>1. TypeOK /\ [Next]_vars =>
        [\A r \in Request : Closed(r) =>
           /\ Closed(r)'
           /\ \A p \in Payment : sentBy'[p] = r => sentBy[p] = r]_vars
  <2> SUFFICES ASSUME TypeOK, Next, NEW r \in Request, Closed(r)
               PROVE  StaysClosed(r)
    BY DEF StaysClosed
  <2>1. QED
    BY ClosedStep
<1>2. QED
  BY <1>1, TypeCorrect, PTL DEF Spec, ClosedForGood
=============================================================================
