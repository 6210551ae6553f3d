------------------------------ MODULE TayqanHire ------------------------------
(***************************************************************************)
(* Hiring TAYQAN: checkouts of one company that open Stripe sessions under a *)
(* lock, and Stripe's events that turn the payments into hires.              *)
(*                                                                         *)
(* A day or week is one payment, told by the events of its session.  A month *)
(* is a subscription, whose state is fetched under a lock of its own whatever *)
(* event calls for it.  Stripe delivers an event, in any order, until a       *)
(* transaction commits with the event in the ledger.                        *)
(***************************************************************************)
EXTENDS Naturals, FiniteSets

CONSTANTS
  Daily,        \* checkout sessions for a day or a week
  Monthly,      \* checkout sessions for a month; each names its subscription
  Desk,         \* checkout requests of the company in flight
  MaxVersion,   \* bound on the states of a subscription
  MaxHires,     \* bound on the rows created
  NoSession, Nobody

Session == Daily \cup Monthly
Hire == 1..MaxHires

ASSUME ConstantsAssumption ==
  /\ Daily \cap Monthly = {}
  /\ MaxVersion \in Nat \ {0} /\ MaxHires \in Nat
  /\ NoSession \notin Session /\ Nobody \notin Desk

VARIABLES
  session,  \* Stripe: the status of each checkout session
  sub,      \* Stripe: the state of each subscription, and how often it changed
  due,      \* events Stripe will deliver (those not in the ledger)
  handed,   \* sessions whose URL a customer was given
  hire,     \* TayqanHireEntitlement by order of creation
  created,  \* how many were created
  desk,     \* where each checkout is, and what it works on
  lock,     \* holder of the company's checkout lock
  hook,     \* the transaction of each event
  starts    \* how often each day or week was started

stripe == <<session, sub, due>>
table == <<hire, created>>
vars == <<stripe, handed, table, desk, lock, hook, starts>>

Status == {"PENDING", "ACTIVE", "PAYMENT_FAILED", "CANCELLED", "EXPIRED"}

\* asOf: the subscription's version that status, startsAt and expiresAt were taken from.
Row == [status: Status \cup {"NONE", "DELETED"}, session: Session \cup {NoSession},
        sub: Monthly \cup {NoSession}, asOf: 0..MaxVersion]
NoRow == [status |-> "NONE", session |-> NoSession, sub |-> NoSession, asOf |-> 0]
Pending(s, x) == [status |-> "PENDING", session |-> s, sub |-> x, asOf |-> 0]
Told(row, status, x, asOf) == [status |-> status, session |-> row.session, sub |-> x, asOf |-> asOf]
Linked(row, s, x) == [status |-> row.status, session |-> s, sub |-> x, asOf |-> row.asOf]
Exists(r) == hire[r].status \in Status

SessionStatus == {"NONE", "OPEN", "EXPIRED", "PROCESSING", "PAID", "FAILED"}
Subscription == [status: {"none", "active", "past_due", "canceled"}, version: 0..MaxVersion]

\* checkout.session.* events carry the status they tell of; customer.subscription.*
\* and invoice.* events carry nothing that is used but the subscription's id.
SessionEvent == [of: Session, tells: {"EXPIRED", "PROCESSING", "PAID", "FAILED"}, version: {0}]
SubscriptionEvent == [of: Monthly, tells: {"CHANGE"}, version: 1..MaxVersion]
Event == SessionEvent \cup SubscriptionEvent
Tell(s, what) == [of |-> s, tells |-> what, version |-> 0]
Changed(x, n) == [of |-> x, tells |-> "CHANGE", version |-> n]

\* by: the row found by the session (or pending); linked: by the subscription; read: the
\* status read in by; got: the subscription fetched.
Hook == [pc: {"idle", "fetch", "find", "write"}, got: Subscription,
         by: {0} \cup Hire, linked: {0} \cup Hire, read: Status \cup {"NONE"}]
NoSub == [status |-> "none", version |-> 0]
Idle == [pc |-> "idle", got |-> NoSub, by |-> 0, linked |-> 0, read |-> "NONE"]
Locked == [pc |-> "fetch", got |-> NoSub, by |-> 0, linked |-> 0, read |-> "NONE"]
Fetched(g) == [pc |-> "find", got |-> g, by |-> 0, linked |-> 0, read |-> "NONE"]

AtDesk == [pc: {"idle", "done", "list", "close", "create", "persist"}, plan: {Daily, Monthly},
           keep: Session \cup {NoSession}, stale: SUBSET Session]
Away == [pc |-> "idle", plan |-> Daily, keep |-> NoSession, stale |-> {}]
Done == [pc |-> "done", plan |-> Daily, keep |-> NoSession, stale |-> {}]

TypeOK ==
  /\ session \in [Session -> SessionStatus]
  /\ sub \in [Monthly -> Subscription]
  /\ due \subseteq Event
  /\ handed \subseteq Session
  /\ hire \in [Hire -> Row] /\ created \in 0..MaxHires
  /\ desk \in [Desk -> AtDesk] /\ lock \in Desk \cup {Nobody}
  /\ hook \in [Event -> Hook]
  /\ starts \in [Daily -> Nat]
  /\ \A r \in Hire : hire[r].status # "NONE" <=> r <= created
  /\ \A d \in Desk : desk[d].pc = "persist" => desk[d].keep \in Session

-----------------------------------------------------------------------------
(* Stripe, as the code uses it.                                            *)

\* A customer completes a session he was given; a day's payment may take its time.
Pay(s, status) ==
  /\ s \in handed /\ session[s] = "OPEN"
  /\ session' = [session EXCEPT ![s] = status]
  /\ IF s \in Monthly
       THEN /\ status = "PAID"
            /\ sub' = [sub EXCEPT ![s] = [status |-> "active", version |-> 1]]
            /\ due' = due \cup {Tell(s, status), Changed(s, 1)}
       ELSE /\ due' = due \cup {Tell(s, status)}
            /\ UNCHANGED sub
  /\ UNCHANGED <<handed, table, desk, lock, hook, starts>>

PaymentSettles(s, status) ==
  /\ session[s] = "PROCESSING"
  /\ session' = [session EXCEPT ![s] = status]
  /\ due' = due \cup {Tell(s, status)}
  /\ UNCHANGED <<sub, handed, table, desk, lock, hook, starts>>

Expire(s) ==
  /\ session[s] = "OPEN"
  /\ session' = [session EXCEPT ![s] = "EXPIRED"]
  /\ due' = due \cup {Tell(s, "EXPIRED")}
  /\ UNCHANGED sub

\* A session nobody completes expires by itself.
SessionLapses(s) == Expire(s) /\ UNCHANGED <<handed, table, desk, lock, hook, starts>>

\* Renewed, failed, recovered or cancelled; a cancelled one stays so.
SubscriptionChanges(x, status) ==
  /\ sub[x].status \notin {"none", "canceled"} /\ sub[x].version < MaxVersion
  /\ sub' = [sub EXCEPT ![x] = [status |-> status, version |-> sub[x].version + 1]]
  /\ due' = due \cup {Changed(x, sub[x].version + 1)}
  /\ UNCHANGED <<session, handed, table, desk, lock, hook, starts>>

-----------------------------------------------------------------------------
(* Checkout: createTayqanCheckoutSession.                                  *)

At(d, pc) == desk[d].pc = pc
Plan(d) == desk[d].plan

\* The company's lock, then getActiveTayqanEntitlement.
BeginCheckout(d, plan) ==
  /\ At(d, "idle")
  /\ lock = Nobody
  /\ \A r \in Hire : hire[r].status # "ACTIVE"
  /\ lock' = d
  /\ desk' = [desk EXCEPT ![d] = [pc |-> "list", plan |-> plan, keep |-> NoSession, stale |-> {}]]
  /\ UNCHANGED <<stripe, handed, table, hook, starts>>

\* The sessions in stale are expired one by one, then one is created unless one is kept.
Go(d, keep, stale) ==
  desk' = [desk EXCEPT ![d] =
    [pc |-> IF stale # {} THEN "close" ELSE IF keep = NoSession THEN "create" ELSE "persist",
     plan |-> Plan(d), keep |-> keep, stale |-> stale]]

\* expireOtherTayqanSessions lists the open sessions.  It keeps one of the same plan,
\* if it is for the same project.
ListSessions(d, keep) ==
  /\ At(d, "list")
  /\ keep \in {NoSession} \cup Plan(d) /\ (keep # NoSession => session[keep] = "OPEN")
  /\ Go(d, keep, {s \in Session : session[s] = "OPEN"} \ {keep})
  /\ UNCHANGED <<stripe, handed, table, lock, hook, starts>>

Free(d) == IF lock = d THEN Nobody ELSE lock

\* The transaction ends without effect: a throw, or a process that dies.
Leave(d) ==
  /\ desk' = [desk EXCEPT ![d] = Done]
  /\ lock' = Free(d)
  /\ UNCHANGED <<handed, table, hook, starts>>

CloseOne(d, s) ==
  /\ At(d, "close") /\ s \in desk[d].stale
  /\ \/ /\ Expire(s)
        /\ Go(d, desk[d].keep, desk[d].stale \ {s})
        /\ UNCHANGED <<handed, table, lock, hook, starts>>
     \/ session[s] # "OPEN" /\ Leave(d) /\ UNCHANGED stripe

CreateSession(d, s) ==
  /\ At(d, "create") /\ s \in Plan(d) /\ session[s] = "NONE"
  /\ session' = [session EXCEPT ![s] = "OPEN"]
  /\ desk' = [desk EXCEPT ![d] = [pc |-> "persist", plan |-> Plan(d), keep |-> s, stale |-> {}]]
  /\ UNCHANGED <<sub, due, handed, table, lock, hook, starts>>

\* WRONG Create: loses count of the rows.
CreateUncounted(row) ==
  /\ created < MaxHires
  /\ hire' = [hire EXCEPT ![created + 1] = row]
  /\ UNCHANGED created

Create(row) ==
  /\ created < MaxHires
  /\ created' = created + 1
  /\ hire' = [hire EXCEPT ![created + 1] = row]

OfSession(s) == {r \in Hire : Exists(r) /\ hire[r].session = s}
OfSubscription(x) == {r \in Hire : Exists(r) /\ hire[r].sub = x}

\* WRONG PersistHire: writes outside the lock's transaction.
PersistAnyway(d) ==
  LET s == desk[d].keep IN
  /\ At(d, "persist")
  /\ \/ OfSession(s) = {} /\ Create(Pending(s, NoSession))
     \/ OfSession(s) # {} /\ UNCHANGED table
  /\ handed' = handed \cup {s}
  /\ desk' = [desk EXCEPT ![d] = Done]
  /\ lock' = Free(d)
  /\ UNCHANGED <<stripe, hook, starts>>

\* persistPendingHire and the commit, which fails once the lock's transaction is over.
PersistHire(d) ==
  LET s == desk[d].keep IN
  /\ At(d, "persist") /\ lock = d
  /\ \/ OfSession(s) = {} /\ Create(Pending(s, NoSession))
     \/ OfSession(s) # {} /\ UNCHANGED table
  /\ handed' = handed \cup {s}
  /\ desk' = [desk EXCEPT ![d] = Done]
  /\ lock' = Nobody
  /\ UNCHANGED <<stripe, hook, starts>>

PersistTooLate(d) == At(d, "persist") /\ lock # d /\ Leave(d) /\ UNCHANGED stripe

CheckoutFails(d) == desk[d].pc \notin {"idle", "done"} /\ Leave(d) /\ UNCHANGED stripe

\* The transaction's 30 seconds are over and the lock is free, but the request goes on.
CheckoutTimesOut(d) ==
  /\ lock = d
  /\ lock' = Nobody
  /\ UNCHANGED <<stripe, handed, table, desk, hook, starts>>

-----------------------------------------------------------------------------
(* Events: processStripeWebhookEvent.  A transaction commits with its event in the *)
(* ledger, whose unique id lets one delivery of each event through.            *)

Working(e, pc) == hook[e].pc = pc

\* A session's event: its rows are read (findUnique by session, by subscription).
SubscriptionOf(e) == IF e.tells = "PAID" /\ e.of \in Monthly THEN e.of ELSE NoSession

\* What a find returns: one of rows, or 0 for none.
Finds(r, rows) == r \in rows \/ (rows = {} /\ r = 0)

FindBySession(e, by, linked) ==
  /\ e \in due /\ e \in SessionEvent /\ Working(e, "idle")
  /\ Finds(by, OfSession(e.of))
  /\ Finds(linked, IF SubscriptionOf(e) = NoSession THEN {} ELSE OfSubscription(e.of))
  /\ hook' = [hook EXCEPT ![e] =
       [pc |-> "write", got |-> NoSub, by |-> by, linked |-> linked,
        read |-> IF by = 0 THEN "NONE" ELSE hire[by].status]]
  /\ UNCHANGED <<stripe, handed, table, desk, lock, starts>>

\* WRONG LockSubscription: does not wait for the transaction that has it.
LockAnyway(e) ==
  /\ e \in due /\ e \in SubscriptionEvent /\ Working(e, "idle")
  /\ hook' = [hook EXCEPT ![e] = Locked]
  /\ UNCHANGED <<stripe, handed, table, desk, lock, starts>>

\* acquireSubscriptionLock
LockSubscription(e) ==
  /\ e \in due /\ e \in SubscriptionEvent /\ Working(e, "idle")
  /\ \A o \in SubscriptionEvent : o.of = e.of => Working(o, "idle")
  /\ hook' = [hook EXCEPT ![e] = Locked]
  /\ UNCHANGED <<stripe, handed, table, desk, lock, starts>>

FetchSubscription(e) ==
  /\ Working(e, "fetch")
  /\ hook' = [hook EXCEPT ![e] = Fetched(sub[e.of])]
  /\ UNCHANGED <<stripe, handed, table, desk, lock, starts>>

\* WRONG FetchFails: the event counts as processed.
FetchFailsQuietly(e) ==
  /\ Working(e, "fetch")
  /\ due' = due \ {e}
  /\ hook' = [hook EXCEPT ![e] = Idle]
  /\ UNCHANGED <<session, sub, handed, table, desk, lock, starts>>

\* Stripe does not answer: nothing is recorded and the event comes again.
FetchFails(e) ==
  /\ Working(e, "fetch")
  /\ hook' = [hook EXCEPT ![e] = Idle]
  /\ UNCHANGED <<stripe, handed, table, desk, lock, starts>>

\* The subscription's row, or the latest one that waits for a month's payment.
Waiting == {r \in Hire : hire[r].status = "PENDING" /\ hire[r].session \in Monthly \cup {NoSession}}
Latest == {r \in Waiting : \A o \in Waiting : o <= r}

FindBySubscription(e, by, linked) ==
  /\ Working(e, "find")
  /\ Finds(linked, OfSubscription(e.of))
  /\ Finds(by, IF linked = 0 THEN Latest ELSE {})
  /\ hook' = [hook EXCEPT ![e] =
       [pc |-> "write", got |-> hook[e].got, by |-> by, linked |-> linked, read |-> "NONE"]]
  /\ UNCHANGED <<stripe, handed, table, desk, lock, starts>>

Commit(e) ==
  /\ due' = due \ {e}
  /\ hook' = [hook EXCEPT ![e] = Idle]
  /\ UNCHANGED <<session, sub, handed, desk, lock>>

\* oneTimeStatus, and what it makes of the status read before.
OneTime(tells) ==
  IF tells = "PAID" THEN "ACTIVE" ELSE IF tells = "PROCESSING" THEN "PENDING" ELSE "PAYMENT_FAILED"
NextStatus(read, tells) ==
  IF "ACTIVE" \in {read, OneTime(tells)} THEN "ACTIVE"
  ELSE IF read = "PAYMENT_FAILED" THEN "PAYMENT_FAILED" ELSE OneTime(tells)

\* startsAt is set, unless the row was read ACTIVE.
Started(e) ==
  IF OneTime(e.tells) = "ACTIVE" /\ hook[e].read # "ACTIVE"
    THEN starts' = [starts EXCEPT ![e.of] = @ + 1] ELSE UNCHANGED starts

\* WRONG ApplyDay: the event is not recorded with what it did.
ApplyDayUnrecorded(e) ==
  /\ Working(e, "write") /\ e.of \in Daily
  /\ \/ /\ hook[e].by # 0
        /\ hire' = [hire EXCEPT ![hook[e].by] = Told(@, NextStatus(hook[e].read, e.tells), @.sub, @.asOf)]
        /\ UNCHANGED created
     \/ hook[e].by = 0 /\ OfSession(e.of) = {} /\ Create(Told(Pending(e.of, NoSession), OneTime(e.tells), NoSession, 0))
  /\ Started(e)
  /\ hook' = [hook EXCEPT ![e] = Idle]
  /\ UNCHANGED <<stripe, handed, desk, lock>>

\* applyTayqanCheckoutSession for a day or a week.
ApplyDay(e) ==
  /\ Working(e, "write") /\ e.of \in Daily
  /\ \/ /\ hook[e].by # 0
        /\ hire' = [hire EXCEPT ![hook[e].by] = Told(@, NextStatus(hook[e].read, e.tells), @.sub, @.asOf)]
        /\ UNCHANGED created
     \/ hook[e].by = 0 /\ OfSession(e.of) = {} /\ Create(Told(Pending(e.of, NoSession), OneTime(e.tells), NoSession, 0))
  /\ Started(e)
  /\ Commit(e)

\* reconcileMonthlyCheckoutRow: the ids of the session and of its subscription are put
\* into one row.  The unique indexes refuse the same id in two rows.
LinkMonth(e) ==
  LET s == e.of  x == SubscriptionOf(e)  by == hook[e].by  linked == hook[e].linked IN
  /\ Working(e, "write") /\ e \in SessionEvent /\ s \in Monthly
  /\ \/ /\ by # 0 /\ linked \in {0, by} /\ Exists(by)
        /\ x = NoSession \/ OfSubscription(x) \subseteq {by}
        /\ hire' = [hire EXCEPT ![by] = Linked(@, @.session, IF x = NoSession THEN @.sub ELSE x)]
        /\ UNCHANGED created
     \/ /\ by # 0 /\ linked \notin {0, by} /\ hook[e].read = "PENDING" /\ Exists(by) /\ Exists(linked)
        /\ hire' = [r \in Hire |-> IF r = by THEN Told(hire[r], "DELETED", hire[r].sub, hire[r].asOf)
                               ELSE IF r = linked THEN Linked(hire[r], s, hire[r].sub) ELSE hire[r]]
        /\ UNCHANGED created
     \/ /\ by = 0 /\ linked # 0 /\ Exists(linked) /\ OfSession(s) \subseteq {linked}
        /\ hire' = [hire EXCEPT ![linked] = Linked(@, s, @.sub)] /\ UNCHANGED created
     \/ /\ by = 0 /\ linked = 0 /\ OfSession(s) = {} /\ (x = NoSession \/ OfSubscription(x) = {})
        /\ Create(Pending(s, x))
  /\ Commit(e) /\ UNCHANGED starts

PeriodStatus(status) ==
  CASE status = "active" -> "ACTIVE" [] status = "canceled" -> "CANCELLED" [] OTHER -> "PAYMENT_FAILED"

\* applyTayqanMonthlySubscriptionIfPresent
ApplySubscription(e) ==
  LET x == e.of  by == hook[e].by  linked == hook[e].linked
      status == PeriodStatus(hook[e].got.status)  asOf == hook[e].got.version IN
  /\ Working(e, "write") /\ e \in SubscriptionEvent
  /\ \/ /\ linked # 0 /\ Exists(linked)
        /\ hire' = [hire EXCEPT ![linked] = Told(@, status, @.sub, asOf)] /\ UNCHANGED created
     \/ /\ linked = 0 /\ by # 0 /\ Exists(by) /\ OfSubscription(x) \subseteq {by}
        /\ hire' = [hire EXCEPT ![by] = Told(@, status, x, asOf)]
        /\ UNCHANGED created
     \/ /\ linked = 0 /\ by = 0 /\ OfSubscription(x) = {}
        /\ Create([status |-> status, session |-> NoSession, sub |-> x, asOf |-> asOf])
  /\ Commit(e) /\ UNCHANGED starts

\* A row that is gone, a unique id that is taken, a conflict or a process that dies: the
\* transaction is rolled back and the event comes again.
Refused(e) ==
  /\ Working(e, "write")
  /\ LET s == e.of  by == hook[e].by  linked == hook[e].linked IN
     \/ by # 0 /\ ~Exists(by)
     \/ linked # 0 /\ ~Exists(linked)
     \/ e \in SessionEvent /\ by = 0 /\ OfSession(s) \ {linked} # {}
     \/ s \in Monthly /\ e.tells \in {"PAID", "CHANGE"} /\ linked = 0 /\ OfSubscription(s) \ {by} # {}
     \/ e \in SessionEvent /\ by # 0 /\ linked \notin {0, by} /\ hook[e].read # "PENDING"
  /\ hook' = [hook EXCEPT ![e] = Idle]
  /\ UNCHANGED <<stripe, handed, table, desk, lock, starts>>

HookDies(e) ==
  /\ ~Working(e, "idle")
  /\ hook' = [hook EXCEPT ![e] = Idle]
  /\ UNCHANGED <<stripe, handed, table, desk, lock, starts>>

\* expireStaleTayqanHires: a day is over, or a month whose subscription moved on.
HireExpires(r) ==
  /\ hire[r].status = "ACTIVE"
  /\ hire[r].sub # NoSession => hire[r].asOf < sub[hire[r].sub].version
  /\ hire' = [hire EXCEPT ![r] = Told(@, "EXPIRED", @.sub, @.asOf)]
  /\ UNCHANGED <<stripe, handed, created, desk, lock, hook, starts>>

-----------------------------------------------------------------------------
Init ==
  /\ session = [s \in Session |-> "NONE"]
  /\ sub = [x \in Monthly |-> NoSub]
  /\ due = {} /\ handed = {}
  /\ hire = [r \in Hire |-> NoRow] /\ created = 0
  /\ desk = [d \in Desk |-> Away] /\ lock = Nobody
  /\ hook = [e \in Event |-> Idle]
  /\ starts = [s \in Daily |-> 0]

Provider ==
  \/ \E s \in Session, status \in {"PAID", "PROCESSING"} : Pay(s, status)
  \/ \E s \in Session, status \in {"PAID", "FAILED"} : PaymentSettles(s, status)
  \/ \E s \in Session : SessionLapses(s)
  \/ \E x \in Monthly, status \in {"active", "past_due", "canceled"} : SubscriptionChanges(x, status)

Checkout(d) ==
  \/ \E plan \in {Daily, Monthly} : BeginCheckout(d, plan)
  \/ \E keep \in Session \cup {NoSession} : ListSessions(d, keep)
  \/ \E s \in Session : CloseOne(d, s) \/ CreateSession(d, s)
  \/ PersistHire(d) \/ PersistTooLate(d)
  \/ CheckoutFails(d) \/ CheckoutTimesOut(d)

Handles(e) ==
  \/ \E by, linked \in {0} \cup Hire : FindBySession(e, by, linked) \/ FindBySubscription(e, by, linked)
  \/ LockSubscription(e) \/ FetchSubscription(e)
  \/ ApplyDay(e) \/ LinkMonth(e) \/ ApplySubscription(e) \/ Refused(e)

Next ==
  \/ Provider
  \/ \E d \in Desk : Checkout(d)
  \/ \E e \in due : Handles(e) \/ FetchFails(e) \/ HookDies(e)
  \/ \E r \in Hire : HireExpires(r)

Spec == Init /\ [][Next]_vars

-----------------------------------------------------------------------------

\* A company never holds two sessions it could pay, whichever checkouts run at once,
\* die or outlive their lock (acquireTayqanCheckoutLock, expireOtherTayqanSessions).
OnePayable ==
  \A s, t \in handed : session[s] = "OPEN" /\ session[t] = "OPEN" => s = t

\* A day or week that was paid is started once, however often and in whatever order its
\* events are delivered (the ledger of processStripeWebhookEvent).
StartsOnce == \A s \in Daily : starts[s] <= 1

\* At most one month was paid.  Until a month's hire is active the company can check out
\* and pay another, and then the waiting row that a subscription takes may be the other's.
LoneMonth == \A x, y \in Monthly : sub[x].status # "none" /\ sub[y].status # "none" => x = y

\* A hire never goes back to an earlier state of its subscription, although an older
\* event may come later and two may be handled at once (acquireSubscriptionLock).
NeverOlder ==
  [][LoneMonth => \A r \in Hire : hire[r].sub # NoSession /\ hire'[r].sub = hire[r].sub
       => hire'[r].asOf >= hire[r].asOf]_vars

\* No change of a subscription is lost: once its event is recorded the hire tells of it,
\* whatever failed before and whichever other events touch the row
\* (fetchCurrentSubscription, reconcileMonthlyCheckoutRow).
HireIsCurrent ==
  LoneMonth => \A x \in Monthly :
    sub[x].status # "none" /\ Changed(x, sub[x].version) \notin due =>
      \E r \in OfSubscription(x) :
        hire[r].asOf = sub[x].version /\ hire[r].status = PeriodStatus(sub[x].status)
=============================================================================
