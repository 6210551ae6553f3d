---------------------------- MODULE RefundRequests ----------------------------
(***************************************************************************)
(* Refund requests: rows that customers open, owners reject or approve and  *)
(* execute, and Stripe's charge.refunded events settle.                     *)
(*                                                                         *)
(* Every transition reads the row and later updates it by id alone, at the  *)
(* default isolation level, so the read and the write are two steps.  The   *)
(* approval and the execution are one handler (the approve route).          *)
(***************************************************************************)
EXTENDS Naturals, FiniteSets

CONSTANTS
  Request,      \* ids of refund requests
  Payment,      \* succeeded payment intents, each with one charge
  Owner,        \* requests of platform owners in flight
  Customer,     \* requests to open a refund request in flight
  NoRequest, NoPayment

ASSUME ConstantsAssumption ==
  /\ NoRequest \notin Request /\ NoPayment \notin Payment
  /\ Request \cap {"idle", "fetched"} = {}

VARIABLES
  row,          \* RefundRequest by id
  refund,       \* Stripe: the refund of each payment
  sentBy,       \* Stripe: the request whose idempotency key made it
  cancelled,    \* Stripe: payments whose subscription was cancelled
  asks,         \* the payment a customer's handler found eligible
  pc, on,       \* where each owner's handler is, and its request
  action,       \* the action the owner chose
  answer,       \* what Stripe answered the handler
  due,          \* charge.refunded events Stripe has yet to see acknowledged
  hook          \* the webhook's transaction for each event

stripe == <<refund, sentBy, cancelled>>
handler == <<pc, on, action, answer>>
vars == <<row, stripe, asks, handler, due, hook>>

Open == {"REQUESTED", "APPROVED", "PROCESSING"}   \* NON_TERMINAL_REFUND_STATUSES
Ended == {"REJECTED", "SUCCEEDED", "FAILED"}
Action == {"REFUND_ONLY", "REFUND_AND_CANCEL"}

\* approved, rejected: approvedAt and rejectedAt are set.
Row == [status: {"NONE"} \cup Open \cup Ended, payment: Payment \cup {NoPayment},
        action: Action \cup {"NONE"}, approved: BOOLEAN, rejected: BOOLEAN]
NoRow == [status |-> "NONE", payment |-> NoPayment, action |-> "NONE",
          approved |-> FALSE, rejected |-> FALSE]

Refund == {"none", "pending", "succeeded", "failed"}
Event == Payment \X {"sent", "settled"}
PC == {"idle", "rejectFresh", "rejectWrite", "approveFresh", "approveWrite",
       "find", "fresh", "processing", "create", "settle", "cancel"}

TypeOK ==
  /\ row \in [Request -> Row]
  /\ refund \in [Payment -> Refund]
  /\ sentBy \in [Payment -> Request \cup {NoRequest}]
  /\ cancelled \subseteq Payment
  /\ asks \in [Customer -> Payment \cup {NoPayment}]
  /\ pc \in [Owner -> PC]
  /\ on \in [Owner -> Request \cup {NoRequest}]
  /\ action \in [Owner -> Action]
  /\ answer \in [Owner -> Refund \cup {"error"}]
  /\ due \subseteq Event
  /\ hook \in [Event -> Request \cup {"idle", "fetched"}]
  /\ \A o \in Owner : pc[o] # "idle" => on[o] \in Request
  /\ \A r \in Request : row[r].status # "NONE" => row[r].payment \in Payment

-----------------------------------------------------------------------------
(* Stripe, as the code uses it.                                            *)

\* charge.refunded: a refund of the whole amount exists and has not failed.
Refunded(p) == refund[p] \in {"pending", "succeeded"}

\* A refund made or settled outside this application's handlers.
RefundElsewhere(p, result) ==
  /\ ~Refunded(p)
  /\ refund' = [refund EXCEPT ![p] = result]
  /\ sentBy' = [sentBy EXCEPT ![p] = NoRequest]
  /\ due' = due \cup {<<p, "sent">>}
  /\ UNCHANGED <<row, cancelled, asks, handler, hook>>

RefundSettles(p, result) ==
  /\ refund[p] = "pending"
  /\ refund' = [refund EXCEPT ![p] = result]
  /\ due' = due \cup {<<p, "settled">>}
  /\ UNCHANGED <<row, sentBy, cancelled, asks, handler, hook>>

-----------------------------------------------------------------------------
(* Customers, and owners through the exception route: createRefundRequestCore. *)

\* findEligiblePayment reads Stripe before the transaction.
FindPayment(c, p) ==
  /\ asks[c] = NoPayment
  /\ ~Refunded(p)
  /\ asks' = [asks EXCEPT ![c] = p]
  /\ UNCHANGED <<row, stripe, handler, due, hook>>

OpenRequests(p) == {r \in Request : row[r].payment = p /\ row[r].status \in Open}

\* WRONG CreateRequest: the row does not say which payment it is about.
CreateRequestUntold(c, r) ==
  /\ asks[c] # NoPayment
  /\ OpenRequests(asks[c]) = {}
  /\ row[r].status = "NONE"
  /\ row' = [row EXCEPT ![r].status = "REQUESTED"]
  /\ asks' = [asks EXCEPT ![c] = NoPayment]
  /\ UNCHANGED <<stripe, handler, due, hook>>

\* The transaction: under the payment's advisory lock, so creations take turns.
CreateRequest(c, r) ==
  /\ asks[c] # NoPayment
  /\ OpenRequests(asks[c]) = {}
  /\ row[r].status = "NONE"
  /\ row' = [row EXCEPT ![r] = [NoRow EXCEPT !.status = "REQUESTED", !.payment = asks[c]]]
  /\ asks' = [asks EXCEPT ![c] = NoPayment]
  /\ UNCHANGED <<stripe, handler, due, hook>>

\* REFUND_ALREADY_REQUESTED, or the handler dies.
GiveUp(c) ==
  /\ asks[c] # NoPayment
  /\ asks' = [asks EXCEPT ![c] = NoPayment]
  /\ UNCHANGED <<row, stripe, handler, due, hook>>

-----------------------------------------------------------------------------
(* Owners.                                                                 *)

Status(o) == row[on[o]].status
Goto(o, at) ==
  /\ pc' = [pc EXCEPT ![o] = at]
  /\ UNCHANGED <<on, action, answer>>
Stop(o) ==
  /\ pc' = [pc EXCEPT ![o] = "idle"]
  /\ on' = [on EXCEPT ![o] = NoRequest]
  /\ action' = [action EXCEPT ![o] = "REFUND_ONLY"]
  /\ answer' = [answer EXCEPT ![o] = "none"]

Begin(o, r, at, a) ==
  /\ pc[o] = "idle"
  /\ row[r].status = "REQUESTED"                     \* loadPendingRefundRequest
  /\ pc' = [pc EXCEPT ![o] = at]
  /\ on' = [on EXCEPT ![o] = r]
  /\ action' = [action EXCEPT ![o] = a]
  /\ UNCHANGED <<row, stripe, asks, answer, due, hook>>

RejectLoad(o, r) == Begin(o, r, "rejectFresh", "REFUND_ONLY")

\* The approval also asks Stripe whether the payment is still refundable.
ApproveLoad(o, r, a) == Begin(o, r, "approveFresh", a) /\ ~Refunded(row[r].payment)

\* The handler reads the row again inside its transaction, or looks for it, and
\* goes on if the status is the one it wants.
Reread(o, at, wanted, next) ==
  /\ pc[o] = at
  /\ IF Status(o) = wanted THEN Goto(o, next) ELSE Stop(o)
  /\ UNCHANGED <<row, stripe, asks, due, hook>>

\* WRONG ApproveFresh: trusts what it loaded before it asked Stripe.
ApproveFreshUnread(o) ==
  /\ pc[o] = "approveFresh"
  /\ Goto(o, "approveWrite")
  /\ UNCHANGED <<row, stripe, asks, due, hook>>

RejectFresh(o) == Reread(o, "rejectFresh", "REQUESTED", "rejectWrite")
ApproveFresh(o) == Reread(o, "approveFresh", "REQUESTED", "approveWrite")
ExecuteFind(o) == Reread(o, "find", "APPROVED", "fresh")
ExecuteFresh(o) == Reread(o, "fresh", "APPROVED", "processing")

RejectWrite(o) ==
  /\ pc[o] = "rejectWrite"
  /\ row' = [row EXCEPT ![on[o]] = [@ EXCEPT !.status = "REJECTED", !.rejected = TRUE]]
  /\ Stop(o)
  /\ UNCHANGED <<stripe, asks, due, hook>>

ApproveWrite(o) ==
  /\ pc[o] = "approveWrite"
  /\ row' = [row EXCEPT ![on[o]] = [@ EXCEPT !.status = "APPROVED", !.approved = TRUE,
                                              !.action = action[o]]]
  /\ Goto(o, "find")
  /\ UNCHANGED <<stripe, asks, due, hook>>

MarkProcessing(o) ==
  /\ pc[o] = "processing"
  /\ row' = [row EXCEPT ![on[o]].status = "PROCESSING"]
  /\ Goto(o, "create")
  /\ UNCHANGED <<stripe, asks, due, hook>>

Answered(o, a) ==
  /\ pc' = [pc EXCEPT ![o] = "settle"]
  /\ answer' = [answer EXCEPT ![o] = a]
  /\ UNCHANGED <<row, cancelled, asks, on, action, hook>>

\* stripe.refunds.create makes a refund; its answer may be lost on the way.
CreateRefund(o, result, a) ==
  LET p == row[on[o]].payment IN
  /\ pc[o] = "create"
  /\ ~Refunded(p) /\ sentBy[p] # on[o]
  /\ a \in {result, "error"}
  /\ refund' = [refund EXCEPT ![p] = result]
  /\ sentBy' = [sentBy EXCEPT ![p] = on[o]]
  /\ due' = due \cup {<<p, "sent">>}
  /\ Answered(o, a)

\* The same idempotency key gets the refund it made, and no second one.
ReplayRefund(o) ==
  /\ pc[o] = "create"
  /\ sentBy[row[on[o]].payment] = on[o]
  /\ Answered(o, refund[row[on[o]].payment])
  /\ UNCHANGED <<refund, sentBy, due>>

\* Declined, already refunded, key in use, or no answer.
RefundRefused(o) ==
  /\ pc[o] = "create"
  /\ Answered(o, "error")
  /\ UNCHANGED <<refund, sentBy, due>>

\* WRONG SettleSucceeded: takes a refund Stripe accepted for a refund made.
SettleAnyAnswer(o) ==
  /\ pc[o] = "settle"
  /\ row' = [row EXCEPT ![on[o]].status = "SUCCEEDED"]
  /\ IF row[on[o]].action = "REFUND_AND_CANCEL" THEN Goto(o, "cancel") ELSE Stop(o)
  /\ UNCHANGED <<stripe, asks, due, hook>>

SettleSucceeded(o) ==
  /\ pc[o] = "settle" /\ answer[o] = "succeeded"
  /\ row' = [row EXCEPT ![on[o]].status = "SUCCEEDED"]
  /\ IF row[on[o]].action = "REFUND_AND_CANCEL" THEN Goto(o, "cancel") ELSE Stop(o)
  /\ UNCHANGED <<stripe, asks, due, hook>>

SettleFailed(o) ==
  /\ pc[o] = "settle" /\ answer[o] # "succeeded"
  /\ row' = [row EXCEPT ![on[o]].status = "FAILED"]
  /\ Stop(o)
  /\ UNCHANGED <<stripe, asks, due, hook>>

CancelSubscription(o) ==
  /\ pc[o] = "cancel"
  /\ cancelled' = cancelled \cup {row[on[o]].payment}
  /\ Stop(o)
  /\ UNCHANGED <<row, refund, sentBy, asks, due, hook>>

\* The handler dies, or the cancellation fails and is only logged.
Crash(o) ==
  /\ pc[o] # "idle"
  /\ Stop(o)
  /\ UNCHANGED <<row, stripe, asks, due, hook>>

-----------------------------------------------------------------------------
(* The charge.refunded webhook: one transaction that fetches the charge from *)
(* Stripe, takes any one request of the charge, and writes it by id.         *)

Acknowledge(e) ==
  /\ due' = due \ {e}
  /\ hook' = [hook EXCEPT ![e] = "idle"]

HookFetch(e) ==
  /\ e \in due /\ hook[e] = "idle"
  /\ IF Refunded(e[1]) THEN hook' = [hook EXCEPT ![e] = "fetched"] /\ due' = due
                       ELSE Acknowledge(e)
  /\ UNCHANGED <<row, stripe, asks, handler>>

OfCharge(p) == {r \in Request : row[r].payment = p}

\* findFirst takes a row in no particular order.
HookFind(e, r) ==
  /\ hook[e] = "fetched"
  /\ r \in OfCharge(e[1])
  /\ IF row[r].status \in {"SUCCEEDED", "FAILED"}
       THEN Acknowledge(e)
       ELSE hook' = [hook EXCEPT ![e] = r] /\ due' = due
  /\ UNCHANGED <<row, stripe, asks, handler>>

HookFindNone(e) ==
  /\ hook[e] = "fetched" /\ OfCharge(e[1]) = {}
  /\ Acknowledge(e)
  /\ UNCHANGED <<row, stripe, asks, handler>>

\* WRONG HookWrite: the event is recorded, the row is not.
HookForget(e) ==
  /\ hook[e] \in Request
  /\ Acknowledge(e)
  /\ UNCHANGED <<row, stripe, asks, handler>>

HookWrite(e) ==
  /\ hook[e] \in Request
  /\ row' = [row EXCEPT ![hook[e]].status = "SUCCEEDED"]
  /\ Acknowledge(e)
  /\ UNCHANGED <<stripe, asks, handler>>

\* The transaction fails, and with it the record of the event: Stripe redelivers.
HookRollback(e) ==
  /\ hook[e] # "idle"
  /\ hook' = [hook EXCEPT ![e] = "idle"]
  /\ UNCHANGED <<row, stripe, asks, handler, due>>

-----------------------------------------------------------------------------

Init ==
  /\ row = [r \in Request |-> NoRow]
  /\ refund = [p \in Payment |-> "none"]
  /\ sentBy = [p \in Payment |-> NoRequest]
  /\ cancelled = {}
  /\ asks = [c \in Customer |-> NoPayment]
  /\ pc = [o \in Owner |-> "idle"]
  /\ on = [o \in Owner |-> NoRequest]
  /\ action = [o \in Owner |-> "REFUND_ONLY"]
  /\ answer = [o \in Owner |-> "none"]
  /\ due = {}
  /\ hook = [e \in Event |-> "idle"]

Provider ==
  \E p \in Payment :
    \/ \E result \in {"pending", "succeeded"} : RefundElsewhere(p, result)
    \/ \E result \in {"succeeded", "failed"} : RefundSettles(p, result)

Asking ==
  \E c \in Customer :
    \/ \E p \in Payment : FindPayment(c, p)
    \/ \E r \in Request : CreateRequest(c, r)
    \/ GiveUp(c)

Reviewing(o) ==
  \/ \E r \in Request : RejectLoad(o, r)
  \/ \E r \in Request, a \in Action : ApproveLoad(o, r, a)
  \/ RejectFresh(o) \/ RejectWrite(o) \/ ApproveFresh(o) \/ ApproveWrite(o)

Executing(o) ==
  \/ ExecuteFind(o) \/ ExecuteFresh(o) \/ MarkProcessing(o)
  \/ \E result \in {"pending", "succeeded"}, a \in Refund \cup {"error"} : CreateRefund(o, result, a)
  \/ ReplayRefund(o) \/ RefundRefused(o)
  \/ SettleSucceeded(o) \/ SettleFailed(o) \/ CancelSubscription(o)

Webhook(e) == HookFetch(e) \/ (\E r \in Request : HookFind(e, r)) \/ HookFindNone(e) \/ HookWrite(e)

Next ==
  \/ Provider
  \/ Asking
  \/ \E o \in Owner : Reviewing(o) \/ Executing(o) \/ Crash(o)
  \/ \E e \in Event : Webhook(e) \/ HookRollback(e)

Spec == Init /\ [][Next]_vars

\* Stripe redelivers an event until it is acknowledged, and a transaction that is
\* tried again and again is not rolled back every time.
FairSpec ==
  /\ Spec
  /\ \A e \in Event :
       /\ WF_vars(HookFetch(e))
       /\ SF_vars((\E r \in Request : HookFind(e, r)) \/ HookFindNone(e))
       /\ SF_vars(HookWrite(e))

-----------------------------------------------------------------------------

\* No request is settled as refunded, and no subscription cancelled for one, unless
\* Stripe made a refund of that payment, and an owner approved the cancelling one:
\* whatever answers are lost, and whichever handler or event writes the row last
\* (executeApprovedRefund, applyChargeRefundState).
RefundIsReal ==
  /\ \A r \in Request : row[r].status = "SUCCEEDED" => refund[row[r].payment] # "none"
  /\ \A p \in cancelled :
       /\ refund[p] # "none"
       /\ \E r \in Request : row[r].payment = p /\ row[r].approved

\* Once a charge.refunded event is told of a refund that went through for the only request
\* of its payment, that request is closed, even when every handler dies, owners execute it
\* twice and transactions roll back (applyChargeRefundState).  Not for good: a handler
\* that read it before can still write over it.
RefundIsTold ==
  \A e \in Event, r \in Request :
    (e \in due /\ refund[e[1]] = "succeeded" /\ sentBy[e[1]] = r /\ OfCharge(e[1]) = {r})
      ~> (row[r].status \in Ended \/ OfCharge(e[1]) # {r})

\* A request that has ended, and that no handler still takes for open, by a status it
\* read and has not acted on yet.
Closed(r) ==
  /\ row[r].status \in Ended
  /\ \A o \in Owner : ~(on[o] = r /\ pc[o] \in {"approveWrite", "processing", "create"})

\* Closed is for good: no owner, answer or event reopens the request or has Stripe refund
\* it.  Every write is by id alone, so it is the rereads that stop the handlers which
\* loaded it while it was open (approveRefundRequest, executeApprovedRefund).
ClosedForGood ==
  [][\A r \in Request : Closed(r) =>
       /\ Closed(r)'
       /\ \A p \in Payment : sentBy'[p] = r => sentBy[p] = r]_vars

\* An owner's rejection is never followed by the refund: rejectRefundRequest promises
\* that of a concurrent approval and rejection one is applied.
RejectedNotRefunded ==
  \A r \in Request : row[r].rejected => \A p \in Payment : sentBy[p] # r
=============================================================================
