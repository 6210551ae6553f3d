--------------------------- MODULE TayqanHireProofs ---------------------------
(* Proofs about TayqanHire, for every value of its constants.               *)
EXTENDS TayqanHire, TLAPS

\* TypeOK by who writes what; a transaction has found rows that were created.
StripeOK ==
  /\ session \in [Session -> SessionStatus]
  /\ sub \in [Monthly -> Subscription]
  /\ due \subseteq Event
DeskOK ==
  /\ handed \subseteq Session
  /\ desk \in [Desk -> AtDesk] /\ lock \in Desk \cup {Nobody}
  /\ \A d \in Desk : desk[d].pc = "persist" => desk[d].keep \in Session
TableOK ==
  /\ hire \in [Hire -> Row] /\ created \in 0..MaxHires
  /\ \A r \in Hire : hire[r].status # "NONE" <=> r <= created
HookOK ==
  /\ hook \in [Event -> Hook]
  /\ \A e \in Event : hook[e].by <= created /\ hook[e].linked <= created
  /\ \A e \in Event : hook[e].pc \in {"fetch", "find"} => e \in SubscriptionEvent
StartsOK == starts \in [Daily -> Nat]

TypeInv == StripeOK /\ DeskOK /\ TableOK /\ HookOK /\ StartsOK

LEMMA TypeInvIsTypeOK == TypeInv => TypeOK
  BY DEF TypeInv, TypeOK, StripeOK, DeskOK, TableOK, HookOK, StartsOK

-----------------------------------------------------------------------------
(* The parts of the state.                                                 *)

LEMMA TellIsEvent ==
  ASSUME NEW s \in Session, NEW what \in {"EXPIRED", "PROCESSING", "PAID", "FAILED"}
  PROVE  /\ Tell(s, what) \in SessionEvent /\ Tell(s, what) \in Event
         /\ Tell(s, what).of = s /\ Tell(s, what).tells = what
  BY DEF Tell, SessionEvent, Event

LEMMA ChangedIsEvent ==
  ASSUME NEW x \in Monthly, NEW n \in 1..MaxVersion
  PROVE  /\ Changed(x, n) \in SubscriptionEvent /\ Changed(x, n) \in Event
         /\ Changed(x, n).of = x /\ Changed(x, n).tells = "CHANGE" /\ Changed(x, n).version = n
  BY DEF Changed, SubscriptionEvent, Event

\* An event is what its fields say, and of one of the two kinds.
LEMMA EventFields ==
  ASSUME NEW e \in Event
  PROVE  /\ e.of \in Session
         /\ e \in SessionEvent => e.tells \in {"EXPIRED", "PROCESSING", "PAID", "FAILED"} /\ e = Tell(e.of, e.tells)
         /\ e \in SubscriptionEvent => e.of \in Monthly /\ e.tells = "CHANGE" /\ e.version \in 1..MaxVersion
                                       /\ e = Changed(e.of, e.version)
         /\ e \in SessionEvent \/ e \in SubscriptionEvent
         /\ ~(e \in SessionEvent /\ e \in SubscriptionEvent)
  BY DEF Tell, Changed, Event, SessionEvent, SubscriptionEvent, Session

LEMMA PendingFields ==
  ASSUME NEW s \in Session, NEW x \in Monthly \cup {NoSession}
  PROVE  /\ Pending(s, x) \in Row /\ Pending(s, x).status = "PENDING"
         /\ Pending(s, x).session = s /\ Pending(s, x).sub = x /\ Pending(s, x).asOf = 0
  BY ConstantsAssumption DEF Pending, Row, Status

LEMMA ToldFields ==
  ASSUME NEW row \in Row, NEW t \in Status \cup {"DELETED"}, NEW x \in Monthly \cup {NoSession},
         NEW n \in 0..MaxVersion
  PROVE  /\ Told(row, t, x, n) \in Row /\ Told(row, t, x, n).status = t
         /\ Told(row, t, x, n).session = row.session /\ Told(row, t, x, n).sub = x
         /\ Told(row, t, x, n).asOf = n
         /\ t # "NONE"
  BY DEF Told, Row, Status

LEMMA ToldTyped ==
  ASSUME NEW row \in Row, NEW t \in Status \cup {"DELETED"}, NEW x \in Monthly \cup {NoSession},
         NEW n \in 0..MaxVersion
  PROVE  Told(row, t, x, n) \in Row /\ Told(row, t, x, n).status # "NONE"
  BY DEF Told, Row, Status

LEMMA LinkedFields ==
  ASSUME NEW row \in Row, NEW s \in Session \cup {NoSession}, NEW x \in Monthly \cup {NoSession}
  PROVE  /\ Linked(row, s, x) \in Row /\ Linked(row, s, x).status = row.status
         /\ Linked(row, s, x).session = s /\ Linked(row, s, x).sub = x
         /\ Linked(row, s, x).asOf = row.asOf
  BY DEF Linked, Row

\* What creating and writing a row do.
LEMMA Created ==
  ASSUME TableOK, NEW row \in Row, row.status # "NONE", Create(row)
  PROVE  /\ TableOK' /\ created' = created + 1 /\ created + 1 \in Hire
         /\ hire'[created + 1] = row /\ hire[created + 1].status = "NONE"
         /\ \A r \in Hire \ {created + 1} : hire'[r] = hire[r]
  BY ConstantsAssumption DEF TableOK, Create, Hire

LEMMA RowWritten ==
  ASSUME TableOK, NEW w \in Hire, NEW row \in Row, hire[w].status # "NONE", row.status # "NONE",
         hire' = [hire EXCEPT ![w] = row], UNCHANGED created
  PROVE  /\ TableOK' /\ hire'[w] = row
         /\ \A r \in Hire \ {w} : hire'[r] = hire[r]
  BY ConstantsAssumption DEF TableOK, Hire

\* What moving one transaction does.
LEMMA HookMoved ==
  ASSUME HookOK, created \in Nat, created' \in Nat, created' >= created,
         NEW e \in Event, NEW h \in Hook, h.by <= created, h.linked <= created,
         h.pc \in {"fetch", "find"} => e \in SubscriptionEvent,
         hook' = [hook EXCEPT ![e] = h]
  PROVE  HookOK' /\ hook'[e] = h /\ \A f \in Event \ {e} : hook'[f] = hook[f]
<1>1. hook' \in [Event -> Hook] /\ hook'[e] = h /\ \A f \in Event \ {e} : hook'[f] = hook[f]
  BY DEF HookOK
<1>2. ASSUME NEW f \in Event
      PROVE  hook'[f].by <= created' /\ hook'[f].linked <= created'
  <2>1. hook'[f] \in Hook /\ hook'[f].by <= created /\ hook'[f].linked <= created
    BY <1>1 DEF HookOK
  <2>2. hook'[f].by \in Nat /\ hook'[f].linked \in Nat
    BY <2>1, ConstantsAssumption DEF Hook, Hire
  <2>3. QED
    BY <2>1, <2>2
<1>3. QED
  BY <1>1, <1>2 DEF HookOK

LEMMA HookStates ==
  /\ Idle \in Hook /\ Idle.by = 0 /\ Idle.linked = 0 /\ Idle.pc = "idle"
  /\ Locked \in Hook /\ Locked.by = 0 /\ Locked.linked = 0 /\ Locked.pc = "fetch"
  /\ \A g \in Subscription : /\ Fetched(g) \in Hook /\ Fetched(g).by = 0 /\ Fetched(g).linked = 0
                             /\ Fetched(g).pc = "find" /\ Fetched(g).got = g
  /\ NoSub \in Subscription
  BY ConstantsAssumption DEF Idle, Locked, Fetched, Hook, Subscription, NoSub, Status

-----------------------------------------------------------------------------
(* Type correctness, action by action.                                     *)

LEMMA TypeInit == Init => TypeInv
<1>1. ASSUME Init
      PROVE  StripeOK /\ StartsOK
  BY <1>1, HookStates DEF Init, StripeOK, StartsOK, SessionStatus
<1>2. ASSUME Init
      PROVE  DeskOK
  BY <1>2, ConstantsAssumption DEF Init, DeskOK, AtDesk, Away, Session
<1>3. ASSUME Init
      PROVE  TableOK
  <2>1. NoRow \in Row /\ NoRow.status = "NONE"
    BY ConstantsAssumption DEF NoRow, Row
  <2>2. QED
    BY <1>3, <2>1, ConstantsAssumption DEF Init, TableOK, Hire
<1>4. ASSUME Init
      PROVE  HookOK
  <2>1. created = 0 /\ \A e \in Event : hook[e] = Idle
    BY <1>4 DEF Init
  <2>2. QED
    BY <1>4, <2>1, HookStates DEF Init, HookOK
<1>5. QED
  BY <1>1, <1>2, <1>3, <1>4 DEF TypeInv

\* A step that leaves some parts alone.
LEMMA PartsKept ==
  ASSUME TypeInv
  PROVE  /\ UNCHANGED <<session, sub, due>> => StripeOK'
         /\ UNCHANGED <<handed, desk, lock>> => DeskOK'
         /\ UNCHANGED <<hire, created>> => TableOK'
         /\ UNCHANGED <<hook, created>> => HookOK'
         /\ UNCHANGED starts => StartsOK'
  BY DEF TypeInv, StripeOK, DeskOK, TableOK, HookOK, StartsOK

LEMMA ProviderTyped ==
  ASSUME TypeInv, Provider
  PROVE  TypeInv'
<1>1. UNCHANGED <<handed, hire, created, desk, lock, hook, starts>>
  BY DEF Provider, Pay, PaymentSettles, SessionLapses, SubscriptionChanges, table
<1>2. StripeOK
  BY DEF TypeInv
<1>3. ASSUME NEW s \in Session, NEW status \in {"PAID", "PROCESSING"}, Pay(s, status)
      PROVE  StripeOK'
  <2>1. s \in Monthly => Changed(s, 1) \in Event
    BY ChangedIsEvent, ConstantsAssumption
  <2>2. [status |-> "active", version |-> 1] \in Subscription
    BY ConstantsAssumption DEF Subscription
  <2>3. session' \in [Session -> SessionStatus]
    BY <1>2, <1>3 DEF Pay, StripeOK, SessionStatus
  <2>4. due' \subseteq Event
    BY <1>2, <1>3, <2>1, TellIsEvent DEF Pay, StripeOK
  <2>5. sub' \in [Monthly -> Subscription]
    BY <1>2, <1>3, <2>2 DEF Pay, StripeOK
  <2>6. QED
    BY <2>3, <2>4, <2>5 DEF StripeOK
<1>4. ASSUME NEW s \in Session, NEW status \in {"PAID", "FAILED"}, PaymentSettles(s, status)
      PROVE  StripeOK'
  BY <1>2, <1>4, TellIsEvent DEF PaymentSettles, StripeOK, SessionStatus
<1>5. ASSUME NEW s \in Session, SessionLapses(s)
      PROVE  StripeOK'
  BY <1>2, <1>5, TellIsEvent DEF SessionLapses, Expire, StripeOK, SessionStatus
<1>6. ASSUME NEW x \in Monthly, NEW status \in {"active", "past_due", "canceled"}, SubscriptionChanges(x, status)
      PROVE  StripeOK'
  <2>1. sub[x].version + 1 \in 1..MaxVersion
    BY <1>2, <1>6, ConstantsAssumption DEF SubscriptionChanges, StripeOK, Subscription
  <2>2. [status |-> status, version |-> sub[x].version + 1] \in Subscription
    BY <2>1, ConstantsAssumption DEF Subscription
  <2>3. Changed(x, sub[x].version + 1) \in Event
    BY <2>1, ChangedIsEvent
  <2>4. QED
    BY <1>2, <1>6, <2>2, <2>3 DEF SubscriptionChanges, StripeOK
<1>7. StripeOK'
  BY <1>3, <1>4, <1>5, <1>6 DEF Provider
<1>8. QED
  BY <1>1, <1>7, PartsKept DEF TypeInv

LEMMA CheckoutTyped ==
  ASSUME TypeInv, NEW d \in Desk, Checkout(d)
  PROVE  TypeInv'
<1>1. StripeOK /\ DeskOK /\ TableOK /\ desk[d] \in AtDesk
  BY DEF TypeInv, DeskOK
<1>2. UNCHANGED <<hook, starts>>
  BY DEF Checkout, BeginCheckout, ListSessions, CloseOne, CreateSession, PersistHire,
         PersistTooLate, CheckoutFails, CheckoutTimesOut, Leave
<1>3. ASSUME NEW keep \in Session \cup {NoSession}, NEW stale \in SUBSET Session, Go(d, keep, stale),
             UNCHANGED <<handed, lock>>
      PROVE  DeskOK'
  BY <1>1, <1>3 DEF DeskOK, Go, AtDesk, Plan
<1>4. ASSUME Leave(d)
      PROVE  DeskOK'
  <2>1. Done \in AtDesk /\ Done.pc = "done"
    BY DEF Done, AtDesk
  <2>2. QED
    BY <1>1, <1>4, <2>1 DEF DeskOK, Leave, Free
<1>5. ASSUME NEW plan \in {Daily, Monthly}, BeginCheckout(d, plan)
      PROVE  TypeInv'
  <2>1. DeskOK'
    BY <1>1, <1>5 DEF DeskOK, BeginCheckout, AtDesk
  <2>2. QED
    BY <1>2, <1>5, <2>1, PartsKept DEF TypeInv, BeginCheckout, stripe, table
<1>6. ASSUME NEW keep \in Session \cup {NoSession}, ListSessions(d, keep)
      PROVE  TypeInv'
  BY <1>2, <1>3, <1>6, PartsKept DEF TypeInv, ListSessions, stripe, table
<1>7. ASSUME NEW s \in Session, CloseOne(d, s)
      PROVE  TypeInv'
  <2>1. CASE Expire(s) /\ Go(d, desk[d].keep, desk[d].stale \ {s}) /\ UNCHANGED <<handed, table, lock, hook, starts>>
    <3>1. StripeOK'
      BY <1>1, <2>1, TellIsEvent DEF Expire, StripeOK, SessionStatus
    <3>2. desk[d].keep \in Session \cup {NoSession} /\ desk[d].stale \ {s} \in SUBSET Session
      BY <1>1 DEF AtDesk
    <3>3. DeskOK'
      BY <1>3, <2>1, <3>2
    <3>4. QED
      BY <2>1, <3>1, <3>3, PartsKept DEF TypeInv, table
  <2>2. CASE Leave(d) /\ UNCHANGED stripe
    BY <1>4, <2>2, PartsKept DEF TypeInv, Leave, stripe, table
  <2>3. QED
    BY <1>7, <2>1, <2>2 DEF CloseOne
<1>8. ASSUME NEW s \in Session, CreateSession(d, s)
      PROVE  TypeInv'
  <2>1. StripeOK'
    BY <1>1, <1>8 DEF StripeOK, CreateSession, SessionStatus
  <2>2. DeskOK'
    BY <1>1, <1>8 DEF DeskOK, CreateSession, AtDesk, Plan
  <2>3. QED
    BY <1>8, <2>1, <2>2, PartsKept DEF TypeInv, CreateSession, table
<1>9. ASSUME PersistHire(d)
      PROVE  TypeInv'
  <2>1. desk[d].keep \in Session
    BY <1>1, <1>9 DEF DeskOK, PersistHire, At
  <2>2. DeskOK'
    <3>1. Done \in AtDesk /\ Done.pc = "done"
      BY DEF Done, AtDesk
    <3>2. QED
      BY <1>1, <1>9, <2>1, <3>1 DEF DeskOK, PersistHire
  <2>3. TableOK' /\ created' >= created /\ created \in Nat /\ created' \in Nat
    <3>1. CASE Create(Pending(desk[d].keep, NoSession))
      BY <1>1, <2>1, <3>1, PendingFields, Created, ConstantsAssumption DEF TableOK
    <3>2. CASE UNCHANGED table
      BY <1>1, <3>2, ConstantsAssumption DEF TableOK, table
    <3>3. QED
      BY <1>9, <3>1, <3>2 DEF PersistHire
  <2>4. HookOK'
    <3>1. ASSUME NEW e \in Event
          PROVE  hook'[e].by <= created' /\ hook'[e].linked <= created'
      <4>1. hook[e] \in Hook /\ hook[e].by <= created /\ hook[e].linked <= created
        BY DEF TypeInv, HookOK
      <4>2. hook[e].by \in Nat /\ hook[e].linked \in Nat
        BY <4>1, ConstantsAssumption DEF Hook, Hire
      <4>3. QED
        BY <1>2, <2>3, <4>1, <4>2
    <3>2. QED
      BY <1>2, <3>1 DEF TypeInv, HookOK
  <2>5. QED
    BY <1>9, <2>2, <2>3, <2>4, PartsKept DEF TypeInv, PersistHire, stripe
<1>10. ASSUME Leave(d) /\ UNCHANGED stripe
       PROVE  TypeInv'
  BY <1>4, <1>10, PartsKept DEF TypeInv, Leave, stripe, table
<1>11. ASSUME CheckoutTimesOut(d)
       PROVE  TypeInv'
  <2>1. DeskOK'
    BY <1>1, <1>11 DEF DeskOK, CheckoutTimesOut
  <2>2. QED
    BY <1>11, <2>1, PartsKept DEF TypeInv, CheckoutTimesOut, stripe, table
<1>12. QED
  BY <1>5, <1>6, <1>7, <1>8, <1>9, <1>10, <1>11 DEF Checkout, PersistTooLate, CheckoutFails

\* A transaction that writes: its event is recorded and it is over.
LEMMA CommitTyped ==
  ASSUME TypeInv, NEW e \in Event, TableOK', created' >= created,
         due' \subseteq due, hook' = [hook EXCEPT ![e] = Idle], UNCHANGED <<session, sub, handed, desk, lock>>,
         StartsOK'
  PROVE  TypeInv'
<1>1. created \in Nat /\ created' \in Nat /\ HookOK
  BY ConstantsAssumption DEF TypeInv, TableOK
<1>2. HookOK'
  <2> DEFINE h == Idle
  <2>1. h \in Hook /\ h.by <= created /\ h.linked <= created
        /\ (h.pc \in {"fetch", "find"} => e \in SubscriptionEvent)
    BY <1>1, HookStates
  <2>2. hook' = [hook EXCEPT ![e] = h]
    OBVIOUS
  <2> HIDE DEF h
  <2>3. QED
    BY ONLY <1>1, <2>1, <2>2, created' >= created, e \in Event, HookMoved
<1>3. StripeOK'
  BY DEF TypeInv, StripeOK
<1>4. QED
  BY <1>2, <1>3, PartsKept DEF TypeInv

\* One that only moves on.
LEMMA MovedTyped ==
  ASSUME TypeInv, NEW e \in Event, NEW h \in Hook, h.by <= created, h.linked <= created,
         h.pc \in {"fetch", "find"} => e \in SubscriptionEvent,
         hook' = [hook EXCEPT ![e] = h], UNCHANGED <<stripe, handed, table, desk, lock, starts>>
  PROVE  TypeInv'
<1>1. created \in Nat /\ created' = created /\ HookOK
  BY ConstantsAssumption DEF TypeInv, TableOK, table
<1>2. HookOK'
  <2>1. created' >= created
    BY <1>1
  <2>2. QED
    BY ONLY <1>1, <2>1, e \in Event, h \in Hook, h.by <= created, h.linked <= created,
            h.pc \in {"fetch", "find"} => e \in SubscriptionEvent, hook' = [hook EXCEPT ![e] = h], HookMoved
<1>3. QED
  BY <1>2, PartsKept DEF TypeInv, stripe, table

\* What a find returns was created.
LEMMA Found ==
  ASSUME TypeInv, NEW r \in {0} \cup Hire, NEW rows \in SUBSET Hire, \A q \in rows : hire[q].status # "NONE",
         Finds(r, rows)
  PROVE  r <= created
  BY ConstantsAssumption DEF TypeInv, TableOK, Finds

LEMMA RowsExist ==
  /\ \A s : OfSession(s) \subseteq Hire /\ \A q \in OfSession(s) : hire[q].status # "NONE" /\ Exists(q) /\ hire[q].session = s
  /\ \A x : OfSubscription(x) \subseteq Hire /\ \A q \in OfSubscription(x) : hire[q].status # "NONE" /\ Exists(q) /\ hire[q].sub = x
  /\ Latest \subseteq Hire /\ \A q \in Latest : hire[q].status = "PENDING" /\ hire[q].session \in Monthly \cup {NoSession}
  BY DEF OfSession, OfSubscription, Latest, Waiting, Exists, Status

LEMMA FindBySessionTyped ==
  ASSUME TypeInv, NEW e \in Event, NEW by \in {0} \cup Hire, NEW linked \in {0} \cup Hire,
         FindBySession(e, by, linked)
  PROVE  TypeInv'
<1> DEFINE h == [pc |-> "write", got |-> NoSub, by |-> by, linked |-> linked,
                 read |-> IF by = 0 THEN "NONE" ELSE hire[by].status]
<1>1. by <= created
  BY Found, RowsExist DEF FindBySession
<1>2. linked <= created
  BY Found, RowsExist DEF FindBySession
<1>3. by # 0 => hire[by].status \in Status
  BY RowsExist DEF FindBySession, Finds, Exists
<1>4. h \in Hook
  BY <1>3, HookStates DEF Hook
<1>5. hook' = [hook EXCEPT ![e] = h] /\ UNCHANGED <<stripe, handed, table, desk, lock, starts>>
  BY DEF FindBySession
<1>6. h.by = by /\ h.linked = linked /\ ~(h.pc \in {"fetch", "find"})
  OBVIOUS
<1> HIDE DEF h
<1>7. QED
  BY <1>1, <1>2, <1>4, <1>5, <1>6, MovedTyped

LEMMA FindBySubscriptionTyped ==
  ASSUME TypeInv, NEW e \in Event, NEW by \in {0} \cup Hire, NEW linked \in {0} \cup Hire,
         FindBySubscription(e, by, linked)
  PROVE  TypeInv'
<1> DEFINE h == [pc |-> "write", got |-> hook[e].got, by |-> by, linked |-> linked, read |-> "NONE"]
<1>1. by <= created
  <2>1. (IF linked = 0 THEN Latest ELSE {}) \in SUBSET Hire
        /\ \A q \in (IF linked = 0 THEN Latest ELSE {}) : hire[q].status # "NONE"
    BY RowsExist
  <2>2. QED
    BY <2>1, Found DEF FindBySubscription
<1>2. linked <= created
  BY Found, RowsExist DEF FindBySubscription
<1>3. h \in Hook
  BY DEF Hook, TypeInv, HookOK
<1>4. hook' = [hook EXCEPT ![e] = h] /\ UNCHANGED <<stripe, handed, table, desk, lock, starts>>
  BY DEF FindBySubscription
<1>5. h.by = by /\ h.linked = linked /\ ~(h.pc \in {"fetch", "find"})
  OBVIOUS
<1> HIDE DEF h
<1>6. QED
  BY <1>1, <1>2, <1>3, <1>4, <1>5, MovedTyped

\* What a transaction found may be gone by now, but it was created.
LEMMA FoundRow ==
  ASSUME TypeInv, NEW e \in Event
  PROVE  /\ hook[e].by # 0 => hook[e].by \in Hire /\ hire[hook[e].by].status # "NONE" /\ hire[hook[e].by] \in Row
         /\ hook[e].linked # 0 => hook[e].linked \in Hire /\ hire[hook[e].linked].status # "NONE" /\ hire[hook[e].linked] \in Row
         /\ hook[e] \in Hook
  BY ConstantsAssumption DEF TypeInv, HookOK, TableOK, Hook, Hire

LEMMA RowFields ==
  ASSUME TypeInv, NEW r \in Hire
  PROVE  /\ hire[r] \in Row /\ hire[r].sub \in Monthly \cup {NoSession} /\ hire[r].asOf \in 0..MaxVersion
         /\ hire[r].session \in Session \cup {NoSession}
         /\ hire[r].status \in Status \cup {"NONE", "DELETED"}
  BY DEF TypeInv, TableOK, Row

LEMMA StatusesAreStatuses ==
  /\ \A read, tells : NextStatus(read, tells) \in Status
  /\ \A tells : OneTime(tells) \in Status
  /\ \A t : PeriodStatus(t) \in Status
  /\ \A tells : OneTime(tells) = "ACTIVE" <=> tells = "PAID"
  BY DEF NextStatus, OneTime, PeriodStatus, Status

LEMMA ApplyDayTyped ==
  ASSUME TypeInv, NEW e \in Event, ApplyDay(e)
  PROVE  TypeInv'
<1> DEFINE by == hook[e].by
<1>1. TableOK /\ e.of \in Daily /\ e.of \in Session /\ created \in Nat
  BY ConstantsAssumption DEF ApplyDay, Session, TypeInv, TableOK
<1>2. TableOK' /\ created' >= created
  <2>1. CASE by # 0 /\ hire' = [hire EXCEPT ![by] = Told(@, NextStatus(hook[e].read, e.tells), @.sub, @.asOf)]
             /\ UNCHANGED created
    <3> DEFINE new == Told(hire[by], NextStatus(hook[e].read, e.tells), hire[by].sub, hire[by].asOf)
    <3>1. by \in Hire /\ hire[by].status # "NONE"
      BY <2>1, FoundRow
    <3>2. new \in Row /\ new.status # "NONE"
      <4>1. hire[by] \in Row /\ hire[by].sub \in Monthly \cup {NoSession} /\ hire[by].asOf \in 0..MaxVersion
        BY <3>1, RowFields
      <4>2. NextStatus(hook[e].read, e.tells) \in Status \cup {"DELETED"}
        BY StatusesAreStatuses
      <4>3. QED
        BY <4>1, <4>2, ToldTyped
    <3>3. hire' = [hire EXCEPT ![by] = new]
      BY <2>1
    <3> HIDE DEF new
    <3>4. TableOK'
      BY <1>1, <2>1, <3>1, <3>2, <3>3, RowWritten
    <3>5. QED
      BY <1>1, <2>1, <3>4
  <2>2. CASE Create(Told(Pending(e.of, NoSession), OneTime(e.tells), NoSession, 0))
    <3> DEFINE new == Told(Pending(e.of, NoSession), OneTime(e.tells), NoSession, 0)
    <3>1. new \in Row /\ new.status # "NONE"
      <4>1. NoSession \in Monthly \cup {NoSession} /\ 0 \in 0..MaxVersion
        BY ConstantsAssumption
      <4>2. Pending(e.of, NoSession) \in Row
        BY <1>1, <4>1, PendingFields
      <4>3. OneTime(e.tells) \in Status \cup {"DELETED"}
        BY StatusesAreStatuses
      <4>4. QED
        BY <4>1, <4>2, <4>3, ToldTyped
    <3>2. Create(new)
      BY <2>2
    <3> HIDE DEF new
    <3>3. TableOK' /\ created' = created + 1
      BY <1>1, <3>1, <3>2, Created
    <3>4. QED
      BY <1>1, <3>3
  <2>3. QED
    BY <2>1, <2>2 DEF ApplyDay
<1>3. StartsOK'
  BY <1>1 DEF TypeInv, StartsOK, ApplyDay, Started
<1>4. due' \subseteq due /\ hook' = [hook EXCEPT ![e] = Idle] /\ UNCHANGED <<session, sub, handed, desk, lock>>
  BY DEF ApplyDay, Commit
<1>5. QED
  BY <1>2, <1>3, <1>4, CommitTyped

LEMMA LinkMonthTyped ==
  ASSUME TypeInv, NEW e \in Event, LinkMonth(e)
  PROVE  TypeInv'
<1> DEFINE s == e.of  x == SubscriptionOf(e)  by == hook[e].by  linked == hook[e].linked
<1>1. TableOK /\ s \in Monthly /\ s \in Session /\ x \in Monthly \cup {NoSession} /\ created \in Nat
  BY ConstantsAssumption DEF LinkMonth, Session, TypeInv, TableOK, SubscriptionOf
<1>2. TableOK' /\ created' >= created
  <2>1. CASE by # 0 /\ hire' = [hire EXCEPT ![by] = Linked(@, @.session, IF x = NoSession THEN @.sub ELSE x)]
             /\ UNCHANGED created
    <3> DEFINE new == Linked(hire[by], hire[by].session, IF x = NoSession THEN hire[by].sub ELSE x)
    <3>1. by \in Hire /\ hire[by].status # "NONE"
      BY <2>1, FoundRow
    <3>2. (IF x = NoSession THEN hire[by].sub ELSE x) \in Monthly \cup {NoSession}
      BY <1>1, <3>1, RowFields
    <3>3. new \in Row /\ new.status # "NONE"
      <4>1. hire[by] \in Row /\ hire[by].session \in Session \cup {NoSession}
        BY <3>1, RowFields
      <4>2. QED
        BY <3>1, <3>2, <4>1, LinkedFields
    <3>4. hire' = [hire EXCEPT ![by] = new]
      BY <2>1
    <3> HIDE DEF new
    <3>5. TableOK'
      BY <1>1, <2>1, <3>1, <3>3, <3>4, RowWritten
    <3>6. QED
      BY <1>1, <2>1, <3>5
  <2>2. CASE /\ by # 0 /\ linked \notin {0, by}
             /\ hire' = [r \in Hire |-> IF r = by THEN Told(hire[r], "DELETED", hire[r].sub, hire[r].asOf)
                                    ELSE IF r = linked THEN Linked(hire[r], s, hire[r].sub) ELSE hire[r]]
             /\ UNCHANGED created
    <3>1. by \in Hire /\ linked \in Hire /\ hire[by].status # "NONE" /\ hire[linked].status # "NONE"
      BY <2>2, FoundRow
    <3>2. Told(hire[by], "DELETED", hire[by].sub, hire[by].asOf) \in Row
          /\ Told(hire[by], "DELETED", hire[by].sub, hire[by].asOf).status # "NONE"
      <4>1. hire[by] \in Row /\ hire[by].sub \in Monthly \cup {NoSession} /\ hire[by].asOf \in 0..MaxVersion
        BY <3>1, RowFields
      <4>2. QED
        BY <4>1, ToldTyped
    <3>3. Linked(hire[linked], s, hire[linked].sub) \in Row
          /\ Linked(hire[linked], s, hire[linked].sub).status # "NONE"
      BY <1>1, <3>1, RowFields, LinkedFields
    <3>4. \A r \in Hire : hire'[r] \in Row /\ (hire'[r].status # "NONE" <=> hire[r].status # "NONE")
      BY <2>2, <3>1, <3>2, <3>3, RowFields
    <3>5. hire' = [r \in Hire |-> hire'[r]]
      BY <2>2
    <3>6. TableOK'
      BY <1>1, <2>2, <3>4, <3>5 DEF TableOK
    <3>7. QED
      BY <1>1, <2>2, <3>6
  <2>3. CASE linked # 0 /\ hire' = [hire EXCEPT ![linked] = Linked(@, s, @.sub)] /\ UNCHANGED created
    <3> DEFINE new == Linked(hire[linked], s, hire[linked].sub)
    <3>1. linked \in Hire /\ hire[linked].status # "NONE"
      BY <2>3, FoundRow
    <3>2. new \in Row /\ new.status # "NONE"
      BY <1>1, <3>1, RowFields, LinkedFields
    <3>3. hire' = [hire EXCEPT ![linked] = new]
      BY <2>3
    <3> HIDE DEF new
    <3>4. TableOK'
      BY <1>1, <2>3, <3>1, <3>2, <3>3, RowWritten
    <3>5. QED
      BY <1>1, <2>3, <3>4
  <2>4. CASE Create(Pending(s, x))
    <3>1. Pending(s, x) \in Row /\ Pending(s, x).status # "NONE"
      BY <1>1, PendingFields
    <3>2. TableOK' /\ created' = created + 1
      BY <1>1, <2>4, <3>1, Created
    <3>3. QED
      BY <1>1, <3>2
  <2>5. QED
    BY <2>1, <2>2, <2>3, <2>4 DEF LinkMonth
<1>3. StartsOK'
  BY PartsKept DEF LinkMonth
<1>4. due' \subseteq due /\ hook' = [hook EXCEPT ![e] = Idle] /\ UNCHANGED <<session, sub, handed, desk, lock>>
  BY DEF LinkMonth, Commit
<1>5. QED
  BY <1>2, <1>3, <1>4, CommitTyped

LEMMA ApplySubscriptionTyped ==
  ASSUME TypeInv, NEW e \in Event, ApplySubscription(e)
  PROVE  TypeInv'
<1> DEFINE x == e.of  by == hook[e].by  linked == hook[e].linked
           status == PeriodStatus(hook[e].got.status)  asOf == hook[e].got.version
<1>1. TableOK /\ x \in Monthly /\ created \in Nat
  BY EventFields, ConstantsAssumption DEF ApplySubscription, TypeInv, TableOK
<1>2. status \in Status \cup {"DELETED"} /\ asOf \in 0..MaxVersion
  BY StatusesAreStatuses, FoundRow DEF Hook, Subscription
<1> HIDE DEF status, asOf
<1>3. TableOK' /\ created' >= created
  <2>1. CASE linked # 0 /\ hire' = [hire EXCEPT ![linked] = Told(@, status, @.sub, asOf)] /\ UNCHANGED created
    <3> DEFINE new == Told(hire[linked], status, hire[linked].sub, asOf)
    <3>1. linked \in Hire /\ hire[linked].status # "NONE"
      BY <2>1, FoundRow
    <3>2. hire[linked] \in Row /\ hire[linked].sub \in Monthly \cup {NoSession}
      BY <3>1, RowFields
    <3>3. new \in Row /\ new.status # "NONE"
      BY <1>2, <3>2, ToldTyped
    <3>4. hire' = [hire EXCEPT ![linked] = new]
      BY <2>1
    <3> HIDE DEF new
    <3>5. TableOK'
      BY <1>1, <2>1, <3>1, <3>3, <3>4, RowWritten
    <3>6. QED
      BY <1>1, <2>1, <3>5
  <2>2. CASE by # 0 /\ hire' = [hire EXCEPT ![by] = Told(@, status, x, asOf)] /\ UNCHANGED created
    <3> DEFINE new == Told(hire[by], status, x, asOf)
    <3>1. by \in Hire /\ hire[by].status # "NONE"
      BY <2>2, FoundRow
    <3>2. hire[by] \in Row /\ x \in Monthly \cup {NoSession}
      BY <1>1, <3>1, RowFields
    <3>3. new \in Row /\ new.status # "NONE"
      BY <1>2, <3>2, ToldTyped
    <3>4. hire' = [hire EXCEPT ![by] = new]
      BY <2>2
    <3> HIDE DEF new
    <3>5. TableOK'
      BY <1>1, <2>2, <3>1, <3>3, <3>4, RowWritten
    <3>6. QED
      BY <1>1, <2>2, <3>5
  <2>3. CASE Create([status |-> status, session |-> NoSession, sub |-> x, asOf |-> asOf])
    <3> DEFINE new == [status |-> status, session |-> NoSession, sub |-> x, asOf |-> asOf]
    <3>1. new \in Row /\ new.status # "NONE"
      BY <1>1, <1>2 DEF Row, Status
    <3>2. Create(new)
      BY <2>3
    <3> HIDE DEF new
    <3>3. TableOK' /\ created' = created + 1
      BY <1>1, <3>1, <3>2, Created
    <3>4. QED
      BY <1>1, <3>3
  <2>4. QED
    BY <2>1, <2>2, <2>3 DEF ApplySubscription, status, asOf
<1>4. StartsOK'
  BY PartsKept DEF ApplySubscription
<1>5. due' \subseteq due /\ hook' = [hook EXCEPT ![e] = Idle] /\ UNCHANGED <<session, sub, handed, desk, lock>>
  BY DEF ApplySubscription, Commit
<1>6. QED
  BY <1>3, <1>4, <1>5, CommitTyped

LEMMA MovesToTyped ==
  ASSUME TypeInv, NEW e \in Event, NEW h \in {Idle, Locked} \cup {Fetched(g) : g \in Subscription},
         h = Idle \/ e \in SubscriptionEvent,
         hook' = [hook EXCEPT ![e] = h], UNCHANGED <<stripe, handed, table, desk, lock, starts>>
  PROVE  TypeInv'
<1>1. created \in Nat
  BY ConstantsAssumption DEF TypeInv, TableOK
<1>2. h \in Hook /\ h.by = 0 /\ h.linked = 0
  BY HookStates
<1>3. h.by <= created /\ h.linked <= created /\ (h.pc \in {"fetch", "find"} => e \in SubscriptionEvent)
  BY <1>1, <1>2, HookStates
<1>4. QED
  BY <1>2, <1>3, MovedTyped

\* What a fetch gets, and where a transaction that fails goes.
LEMMA HookOnly ==
  ASSUME TypeInv, NEW e \in Event,
         LockSubscription(e) \/ FetchSubscription(e) \/ FetchFails(e) \/ Refused(e) \/ HookDies(e)
  PROVE  TypeInv'
<1>1. UNCHANGED <<stripe, handed, table, desk, lock, starts>>
  BY DEF LockSubscription, FetchSubscription, FetchFails, Refused, HookDies
<1>2. CASE LockSubscription(e)
  BY <1>1, <1>2, MovesToTyped DEF LockSubscription
<1>3. CASE FetchSubscription(e)
  <2>1. e \in SubscriptionEvent
    BY <1>3 DEF TypeInv, HookOK, FetchSubscription, Working
  <2>2. sub[e.of] \in Subscription
    BY <2>1, EventFields DEF TypeInv, StripeOK
  <2>3. Fetched(sub[e.of]) \in {Idle, Locked} \cup {Fetched(g) : g \in Subscription}
    BY <2>2
  <2>4. hook' = [hook EXCEPT ![e] = Fetched(sub[e.of])]
    BY <1>3 DEF FetchSubscription
  <2>5. QED
    BY <1>1, <2>1, <2>3, <2>4, MovesToTyped
<1>4. CASE FetchFails(e) \/ Refused(e) \/ HookDies(e)
  <2>1. hook' = [hook EXCEPT ![e] = Idle]
    BY <1>4 DEF FetchFails, Refused, HookDies
  <2>2. QED
    BY <1>1, <2>1, MovesToTyped
<1>5. QED
  BY <1>2, <1>3, <1>4

LEMMA TypeKept ==
  ASSUME TypeInv, [Next]_vars
  PROVE  TypeInv'
<1>1. CASE UNCHANGED vars
  BY <1>1, PartsKept DEF TypeInv, vars, stripe, table
<1>2. CASE Provider
  BY <1>2, ProviderTyped
<1>3. ASSUME NEW d \in Desk, Checkout(d)
      PROVE  TypeInv'
  BY <1>3, CheckoutTyped
<1>4. ASSUME NEW e \in Event, NEW by \in {0} \cup Hire, NEW linked \in {0} \cup Hire,
             FindBySession(e, by, linked) \/ FindBySubscription(e, by, linked)
      PROVE  TypeInv'
  BY <1>4, FindBySessionTyped, FindBySubscriptionTyped
<1>5. ASSUME NEW e \in Event, ApplyDay(e) \/ LinkMonth(e) \/ ApplySubscription(e)
      PROVE  TypeInv'
  BY <1>5, ApplyDayTyped, LinkMonthTyped, ApplySubscriptionTyped
<1>6. ASSUME NEW e \in Event, Handles(e) \/ FetchFails(e) \/ HookDies(e)
      PROVE  TypeInv'
  BY <1>4, <1>5, <1>6, HookOnly DEF Handles
<1>7. ASSUME NEW r \in Hire, HireExpires(r)
      PROVE  TypeInv'
  <2> DEFINE new == Told(hire[r], "EXPIRED", hire[r].sub, hire[r].asOf)
  <2>1. hire[r] \in Row /\ hire[r].sub \in Monthly \cup {NoSession} /\ hire[r].asOf \in 0..MaxVersion
    BY <1>7, RowFields
  <2>2. new \in Row /\ new.status # "NONE"
    BY <2>1, ToldTyped DEF Status
  <2>3. hire' = [hire EXCEPT ![r] = new] /\ UNCHANGED created /\ hire[r].status # "NONE" /\ TableOK
    BY <1>7 DEF HireExpires, TypeInv
  <2> HIDE DEF new
  <2>4. TableOK'
    BY <2>2, <2>3, RowWritten
  <2>5. QED
    BY <1>7, <2>4, PartsKept DEF TypeInv, HireExpires, stripe
<1>8. due \subseteq Event
  BY DEF TypeInv, StripeOK
<1>9. QED
  BY <1>1, <1>2, <1>3, <1>6, <1>7, <1>8 DEF Next

LEMMA TypeHolds == Spec => []TypeInv
  BY TypeInit, TypeKept, PTL DEF Spec

\* The types of Stripe's and the tables' states, of requests and of transactions.
THEOREM TypeCorrect == Spec => []TypeOK
  BY TypeHolds, TypeInvIsTypeOK, PTL

-----------------------------------------------------------------------------
(* Checkouts.  Whoever has the lock knows of every session that could be paid: they  *)
(* are the ones it has yet to expire, and the one it keeps.  A request that outlived *)
(* its lock knows nothing, and hands out nothing.                              *)

Payable == {s \in handed : session[s] = "OPEN"}

DeskInv(d) ==
  /\ desk[d].pc \in {"close", "persist"} /\ desk[d].keep # NoSession => session[desk[d].keep] # "NONE"
  /\ desk[d].pc \in {"create", "persist"} => desk[d].stale = {}
  /\ desk[d].pc = "create" => desk[d].keep = NoSession
  /\ lock = d /\ desk[d].pc \in {"close", "create", "persist"}
       => Payable \subseteq desk[d].stale \cup {desk[d].keep}

PayableInv ==
  /\ OnePayable
  /\ \A s \in handed : session[s] # "NONE"
  /\ \A d \in Desk : DeskInv(d)

LEMMA PayableInit == Init => PayableInv
  BY DEF Init, PayableInv, OnePayable, DeskInv, Away

\* Sessions that are created were handed to nobody; the others open no more.
LEMMA StripeKeepsPayable ==
  ASSUME TypeInv, PayableInv, UNCHANGED <<handed, desk, lock>>,
         \A s \in Session : session[s] # "NONE" => session'[s] # "NONE" /\ (session'[s] = "OPEN" => session[s] = "OPEN")
  PROVE  PayableInv'
<1>1. handed \subseteq Session /\ \A d \in Desk : desk[d] \in AtDesk
  BY DEF TypeInv, DeskOK
<1>2. Payable' \subseteq Payable /\ \A s \in handed : session'[s] # "NONE"
  BY <1>1 DEF Payable, PayableInv
<1>3. OnePayable'
  BY <1>2 DEF PayableInv, OnePayable, Payable
<1>4. ASSUME NEW d \in Desk
      PROVE  DeskInv(d)'
  <2>1. desk[d].keep # NoSession => desk[d].keep \in Session
    BY <1>1 DEF AtDesk
  <2>2. QED
    BY <1>2, <2>1 DEF PayableInv, DeskInv
<1>5. QED
  BY <1>2, <1>3, <1>4 DEF PayableInv

\* A desk moves under its lock: what it now knows is still all there is.
LEMMA DeskKeepsPayable ==
  ASSUME TypeInv, PayableInv, NEW d \in Desk, NEW at,
         desk' = [desk EXCEPT ![d] = at], UNCHANGED <<handed>>,
         lock' \in {lock, Nobody} \/ (lock' = d /\ at.pc = "list"),
         \A s \in Session : session[s] # "NONE" => session'[s] # "NONE",
         \A s \in handed : session'[s] = "OPEN" => session[s] = "OPEN",
         at.pc \in {"close", "persist"} /\ at.keep # NoSession => session'[at.keep] # "NONE",
         at.pc \in {"create", "persist"} => at.stale = {},
         at.pc = "create" => at.keep = NoSession,
         lock' = d /\ at.pc \in {"close", "create", "persist"} => Payable' \subseteq at.stale \cup {at.keep}
  PROVE  PayableInv'
<1>1. handed \subseteq Session /\ (\A o \in Desk : desk[o] \in AtDesk) /\ desk \in [Desk -> AtDesk]
  BY DEF TypeInv, DeskOK
<1>2. Payable' \subseteq Payable /\ \A s \in handed : session'[s] # "NONE"
  BY <1>1 DEF Payable, PayableInv
<1>3. OnePayable'
  BY <1>2 DEF PayableInv, OnePayable, Payable
<1>4. DeskInv(d)'
  <2>1. desk'[d] = at
    BY <1>1
  <2>2. QED
    BY <2>1 DEF DeskInv
<1>5. ASSUME NEW o \in Desk \ {d}
      PROVE  DeskInv(o)'
  <2>1. desk'[o] = desk[o]
    BY <1>1
  <2>2. desk[o].keep # NoSession => desk[o].keep \in Session
    BY <1>1 DEF AtDesk
  <2>3. DeskInv(o)
    BY DEF PayableInv
  <2>4. lock' = o => lock = o
    BY ConstantsAssumption
  <2>5. QED
    BY <1>2, <2>1, <2>2, <2>3, <2>4 DEF DeskInv
<1>6. QED
  BY <1>2, <1>3, <1>4, <1>5 DEF PayableInv

LEMMA CheckoutPayable ==
  ASSUME TypeInv, PayableInv, NEW d \in Desk, Checkout(d)
  PROVE  PayableInv'
<1>1. /\ StripeOK /\ DeskOK /\ desk[d] \in AtDesk /\ DeskInv(d) /\ desk[d].stale \subseteq Session
      /\ desk[d].keep \in Session \cup {NoSession}
  BY DEF TypeInv, DeskOK, PayableInv, AtDesk
<1>2. handed \subseteq Session /\ NoSession \notin Session /\ d # Nobody
  BY <1>1, ConstantsAssumption DEF DeskOK
<1>3. ASSUME Leave(d), UNCHANGED session
      PROVE  PayableInv'
  <2>1. Done.pc = "done"
    BY DEF Done
  <2>2. lock' \in {lock, Nobody}
    BY <1>3 DEF Leave, Free
  <2>3. desk' = [desk EXCEPT ![d] = Done] /\ UNCHANGED handed
    BY <1>3 DEF Leave
  <2>4. QED
    BY <1>2, <1>3, <2>1, <2>2, <2>3, DeskKeepsPayable
<1>4. ASSUME NEW plan \in {Daily, Monthly}, BeginCheckout(d, plan)
      PROVE  PayableInv'
  <2> DEFINE at == [pc |-> "list", plan |-> plan, keep |-> NoSession, stale |-> {}]
  <2>1. at.pc = "list" /\ lock' = d /\ desk' = [desk EXCEPT ![d] = at] /\ UNCHANGED <<session, handed>>
    BY <1>4 DEF BeginCheckout, stripe
  <2> HIDE DEF at
  <2>2. QED
    BY <1>2, <2>1, DeskKeepsPayable
<1>5. ASSUME NEW keep \in Session \cup {NoSession}, NEW stale \in SUBSET Session, Go(d, keep, stale),
             UNCHANGED <<handed, lock>>,
             \A s \in Session : session[s] # "NONE" => session'[s] # "NONE" /\ (session'[s] = "OPEN" => session[s] = "OPEN"),
             keep # NoSession => session'[keep] # "NONE",
             Payable' \subseteq stale \cup {keep}
      PROVE  PayableInv'
  <2> DEFINE at == [pc |-> IF stale # {} THEN "close" ELSE IF keep = NoSession THEN "create" ELSE "persist",
                    plan |-> Plan(d), keep |-> keep, stale |-> stale]
  <2>1. /\ at.pc \in {"create", "persist"} => at.stale = {}
        /\ at.pc = "create" => at.keep = NoSession
        /\ at.keep = keep /\ at.stale = stale
    OBVIOUS
  <2>2. desk' = [desk EXCEPT ![d] = at]
    BY <1>5 DEF Go
  <2> HIDE DEF at
  <2>3. \A s \in handed : session'[s] = "OPEN" => session[s] = "OPEN"
    BY <1>2, <1>5 DEF PayableInv
  <2>4. QED
    BY <1>5, <2>1, <2>2, <2>3, DeskKeepsPayable
<1>6. ASSUME NEW keep \in Session \cup {NoSession}, ListSessions(d, keep)
      PROVE  PayableInv'
  <2>1. UNCHANGED <<session, handed, lock>> /\ Go(d, keep, {s \in Session : session[s] = "OPEN"} \ {keep})
    BY <1>6 DEF ListSessions, stripe
  <2>2. Payable' \subseteq ({s \in Session : session[s] = "OPEN"} \ {keep}) \cup {keep}
    BY <1>2, <2>1 DEF Payable
  <2>3. keep # NoSession => session'[keep] # "NONE"
    BY <1>6, <2>1 DEF ListSessions
  <2>4. QED
    BY <1>5, <2>1, <2>2, <2>3
<1>7. ASSUME NEW s \in Session, CloseOne(d, s)
      PROVE  PayableInv'
  <2>1. CASE Expire(s) /\ Go(d, desk[d].keep, desk[d].stale \ {s}) /\ UNCHANGED <<handed, table, lock, hook, starts>>
    <3>1. desk[d].pc = "close"
      BY <1>7 DEF CloseOne, At
    <3>2. session'[s] = "EXPIRED" /\ session[s] = "OPEN" /\ \A t \in Session \ {s} : session'[t] = session[t]
      BY <1>1, <2>1 DEF Expire, StripeOK
    <3>3. Payable' = Payable \ {s}
      BY <1>2, <2>1, <3>2 DEF Payable
    <3>4. CASE lock = d
      <4>1. Payable' \subseteq (desk[d].stale \ {s}) \cup {desk[d].keep}
        BY <1>1, <3>1, <3>3, <3>4 DEF DeskInv
      <4>2. desk[d].keep # NoSession => session'[desk[d].keep] # "NONE"
        BY <1>1, <3>1, <3>2 DEF DeskInv
      <4>3. QED
        BY <1>1, <1>5, <2>1, <3>2, <4>1, <4>2
    <3>5. CASE lock # d
      <4> DEFINE keep == desk[d].keep  stale == desk[d].stale \ {s}
                 at == [pc |-> IF stale # {} THEN "close" ELSE IF keep = NoSession THEN "create" ELSE "persist",
                        plan |-> Plan(d), keep |-> keep, stale |-> stale]
      <4>1. /\ at.pc \in {"create", "persist"} => at.stale = {}
            /\ at.pc = "create" => at.keep = NoSession
            /\ at.keep = keep
        OBVIOUS
      <4>2. desk' = [desk EXCEPT ![d] = at]
        BY <2>1 DEF Go
      <4>3. keep # NoSession => session'[keep] # "NONE"
        BY <1>1, <3>1, <3>2 DEF DeskInv
      <4> HIDE DEF at
      <4>4. QED
        BY <1>2, <2>1, <3>2, <3>5, <4>1, <4>2, <4>3, DeskKeepsPayable
    <3>6. QED
      BY <3>4, <3>5
  <2>2. CASE Leave(d) /\ UNCHANGED stripe
    BY <1>3, <2>2 DEF stripe
  <2>3. QED
    BY <1>7, <2>1, <2>2 DEF CloseOne
<1>8. ASSUME NEW s \in Session, CreateSession(d, s)
      PROVE  PayableInv'
  <2> DEFINE at == [pc |-> "persist", plan |-> Plan(d), keep |-> s, stale |-> {}]
  <2>1. at.pc = "persist" /\ at.keep = s /\ at.stale = {} /\ desk' = [desk EXCEPT ![d] = at]
        /\ UNCHANGED <<handed, lock>>
    BY <1>8 DEF CreateSession
  <2> HIDE DEF at
  <2>2. session'[s] = "OPEN" /\ session[s] = "NONE" /\ \A t \in Session \ {s} : session'[t] = session[t]
    BY <1>1, <1>8 DEF CreateSession, StripeOK
  <2>3. s \notin handed
    BY <2>2 DEF PayableInv
  <2>4. Payable' = Payable
    BY <1>2, <2>1, <2>2, <2>3 DEF Payable
  <2>5. lock = d => Payable = {}
    <3>1. desk[d].pc = "create" /\ desk[d].stale = {} /\ desk[d].keep = NoSession
      BY <1>1, <1>8 DEF CreateSession, At, DeskInv
    <3>2. QED
      BY <1>1, <1>2, <3>1 DEF DeskInv, Payable
  <2>6. lock' = d => Payable' \subseteq at.stale \cup {at.keep}
    BY <2>1, <2>4, <2>5
  <2>7. \A t \in handed : session'[t] = "OPEN" => session[t] = "OPEN"
    BY <1>2, <2>2, <2>3
  <2>8. session'[at.keep] # "NONE"
    BY <2>1, <2>2
  <2>9. \A t \in Session : session[t] # "NONE" => session'[t] # "NONE"
    BY <2>2
  <2>10. QED
    BY <2>1, <2>6, <2>7, <2>8, <2>9, DeskKeepsPayable
<1>9. ASSUME PersistHire(d)
      PROVE  PayableInv'
  <2> DEFINE s == desk[d].keep
  <2>1. desk[d].pc = "persist" /\ lock = d /\ s \in Session /\ lock' = Nobody /\ UNCHANGED session
        /\ handed' = handed \cup {s} /\ desk' = [desk EXCEPT ![d] = Done]
    BY <1>1, <1>9 DEF PersistHire, At, DeskOK, stripe
  <2>2. Payable \subseteq {s} /\ session[s] # "NONE"
    BY <1>1, <1>2, <2>1 DEF DeskInv
  <2>3. Payable' \subseteq {s}
    BY <2>1, <2>2 DEF Payable
  <2>4. OnePayable'
    BY <2>3 DEF OnePayable, Payable
  <2>5. \A t \in handed' : session'[t] # "NONE"
    BY <2>1, <2>2 DEF PayableInv
  <2>6. ASSUME NEW o \in Desk
        PROVE  DeskInv(o)'
    <3>1. o # Nobody
      BY ConstantsAssumption
    <3>2. desk'[o] = IF o = d THEN Done ELSE desk[o]
      BY <1>1, <2>1 DEF DeskOK
    <3>3. DeskInv(o)
      BY DEF PayableInv
    <3>4. CASE o = d
      BY <2>1, <3>1, <3>2, <3>4 DEF DeskInv, Done
    <3>5. CASE o # d
      BY <2>1, <3>1, <3>2, <3>3, <3>5 DEF DeskInv
    <3>6. QED
      BY <3>4, <3>5
  <2>7. QED
    BY <2>4, <2>5, <2>6 DEF PayableInv
<1>10. ASSUME CheckoutTimesOut(d)
       PROVE  PayableInv'
  <2>1. UNCHANGED <<session, handed, desk>> /\ lock' = Nobody
    BY <1>10 DEF CheckoutTimesOut, stripe
  <2>2. ASSUME NEW o \in Desk
        PROVE  DeskInv(o)'
    <3>1. o # Nobody /\ DeskInv(o)
      BY ConstantsAssumption DEF PayableInv
    <3>2. QED
      BY <2>1, <3>1 DEF DeskInv
  <2>3. QED
    BY <2>1, <2>2 DEF PayableInv, OnePayable
<1>11. QED
  BY <1>3, <1>4, <1>6, <1>7, <1>8, <1>9, <1>10 DEF Checkout, PersistTooLate, CheckoutFails, stripe

LEMMA PayableKept ==
  ASSUME TypeInv, PayableInv, [Next]_vars
  PROVE  PayableInv'
<1>1. session \in [Session -> SessionStatus]
  BY DEF TypeInv, StripeOK
<1>2. ASSUME UNCHANGED <<session, handed, desk, lock>>
      PROVE  PayableInv'
  BY <1>2 DEF PayableInv, DeskInv, OnePayable, Payable
<1>3. CASE Provider
  <2>1. UNCHANGED <<handed, desk, lock>>
    BY <1>3 DEF Provider, Pay, PaymentSettles, SessionLapses, SubscriptionChanges
  <2>2. \A s \in Session : session[s] # "NONE" => session'[s] # "NONE" /\ (session'[s] = "OPEN" => session[s] = "OPEN")
    BY <1>1, <1>3 DEF Provider, Pay, PaymentSettles, SessionLapses, SubscriptionChanges, Expire
  <2>3. QED
    BY <2>1, <2>2, StripeKeepsPayable
<1>4. ASSUME NEW e \in due, Handles(e) \/ FetchFails(e) \/ HookDies(e)
      PROVE  UNCHANGED <<session, handed, desk, lock>>
  BY <1>4 DEF Handles, FetchFails, HookDies, FindBySession, FindBySubscription, LockSubscription,
     FetchSubscription, ApplyDay, LinkMonth, ApplySubscription, Commit, Refused, stripe
<1>5. ASSUME NEW r \in Hire, HireExpires(r)
      PROVE  UNCHANGED <<session, handed, desk, lock>>
  BY <1>5 DEF HireExpires, stripe
<1>6. QED
  BY <1>2, <1>3, <1>4, <1>5, CheckoutPayable DEF Next, vars, stripe

\* However many checkouts a company starts, lets die or lets outlive their lock, the
\* customer never holds two sessions that could both be paid.
THEOREM OneSessionPayable == Spec => []OnePayable
<1>1. Spec => []PayableInv
  BY TypeHolds, PayableInit, PayableKept, PTL DEF Spec
<1>2. PayableInv => OnePayable
  BY DEF PayableInv
<1>3. QED
  BY <1>1, <1>2, PTL

-----------------------------------------------------------------------------
(* Days and weeks.  A payment is told until a transaction commits with the event in the  *)
(* ledger, and a session is paid once: what was started is not told again.       *)

PaidInv(s) ==
  /\ Tell(s, "PAID") \in due => session[s] = "PAID" /\ starts[s] = 0
  /\ starts[s] # 0 => session[s] = "PAID"
  /\ starts[s] <= 1

PaidOnce == \A s \in Daily : PaidInv(s)

\* A transaction works on an event that is still to be recorded.
HooksDue == \A e \in Event : hook[e].pc # "idle" => e \in due

LEMMA PaidInit == Init => PaidOnce /\ HooksDue
  BY HookStates DEF Init, PaidOnce, PaidInv, HooksDue

LEMMA PaidKept ==
  ASSUME TypeInv, PaidOnce, [Next]_vars
  PROVE  PaidOnce'
<1>1. StripeOK /\ StartsOK /\ due \subseteq Event
  BY DEF TypeInv, StripeOK
<1>2. Daily \subseteq Session /\ Monthly \subseteq Session
  BY DEF Session
<1>3. ASSUME NEW s \in Daily, starts'[s] = starts[s], session[s] = "PAID" => session'[s] = "PAID",
             Tell(s, "PAID") \in due' => Tell(s, "PAID") \in due
                 \/ (session[s] # "PAID" /\ session'[s] = "PAID")
      PROVE  PaidInv(s)'
  <2>1. PaidInv(s)
    BY DEF PaidOnce
  <2>2. starts[s] # 0 => session[s] = "PAID"
    BY <2>1 DEF PaidInv
  <2>3. Tell(s, "PAID")' = Tell(s, "PAID")
    BY DEF Tell
  <2>4. Tell(s, "PAID") \in due' => session'[s] = "PAID" /\ starts'[s] = 0
    BY <1>3, <2>1, <2>2 DEF PaidInv
  <2>5. (starts'[s] # 0 => session'[s] = "PAID") /\ starts'[s] <= 1
    BY <1>3, <2>1 DEF PaidInv
  <2>6. QED
    BY <2>3, <2>4, <2>5 DEF PaidInv
<1>4. ASSUME NEW D \in SUBSET SessionEvent, due' = due \cup D, UNCHANGED starts,
             \A s \in Daily : /\ session[s] = "PAID" => session'[s] = "PAID"
                              /\ Tell(s, "PAID") \in D => session[s] # "PAID" /\ session'[s] = "PAID"
      PROVE  PaidOnce'
  BY <1>3, <1>4 DEF PaidOnce
<1>5. ASSUME NEW s \in Session, NEW t \in Session, NEW what \in {"EXPIRED", "PROCESSING", "PAID", "FAILED"}
      PROVE  /\ Tell(s, "PAID") = Tell(t, what) => s = t /\ what = "PAID"
             /\ \A n : Tell(s, "PAID") # Changed(t, n)
  BY DEF Tell, Changed
<1>6. ASSUME NEW s \in Session, NEW what \in {"EXPIRED", "PROCESSING", "PAID", "FAILED"},
             session' = [session EXCEPT ![s] = what], session[s] # "PAID", due' = due \cup {Tell(s, what)},
             UNCHANGED starts
      PROVE  PaidOnce'
  <2>1. ASSUME NEW t \in Daily
        PROVE  PaidInv(t)'
    <3>1. session'[t] = IF t = s THEN what ELSE session[t]
      BY <1>1, <1>2, <1>6 DEF StripeOK
    <3>2. Tell(t, "PAID") = Tell(s, what) => t = s /\ what = "PAID"
      BY <1>2, <1>5
    <3>3. Tell(t, "PAID") \in due' => Tell(t, "PAID") \in due \/ (session[t] # "PAID" /\ session'[t] = "PAID")
      BY <1>6, <3>1, <3>2
    <3>4. session[t] = "PAID" => session'[t] = "PAID"
      BY <1>6, <3>1
    <3>5. QED
      BY <1>3, <1>6, <3>3, <3>4
  <2>2. QED
    BY <2>1 DEF PaidOnce
<1>7. ASSUME Provider
      PROVE  PaidOnce'
  <2>1. ASSUME NEW s \in Session, NEW status \in {"PAID", "PROCESSING"}, Pay(s, status)
        PROVE  PaidOnce'
    <3>1. CASE s \notin Monthly
      BY <1>6, <2>1, <3>1 DEF Pay
    <3>2. CASE s \in Monthly
      <4>1. ASSUME NEW t \in Daily
            PROVE  PaidInv(t)'
        <5>1. t # s /\ session'[t] = session[t]
          BY <1>1, <1>2, <2>1, <3>2, ConstantsAssumption DEF Pay, StripeOK
        <5>2. Tell(t, "PAID") # Tell(s, status) /\ Tell(t, "PAID") # Changed(s, 1)
          BY <1>2, <1>5, <5>1
        <5>3. due' = due \cup {Tell(s, status), Changed(s, 1)} /\ UNCHANGED starts
          BY <2>1, <3>2 DEF Pay
        <5>4. QED
          BY <1>3, <5>1, <5>2, <5>3
      <4>2. QED
        BY <4>1 DEF PaidOnce
    <3>3. QED
      BY <3>1, <3>2
  <2>2. ASSUME NEW s \in Session, NEW status \in {"PAID", "FAILED"}, PaymentSettles(s, status)
        PROVE  PaidOnce'
    BY <1>6, <2>2 DEF PaymentSettles
  <2>3. ASSUME NEW s \in Session, SessionLapses(s)
        PROVE  PaidOnce'
    BY <1>6, <2>3 DEF SessionLapses, Expire
  <2>4. ASSUME NEW x \in Monthly, NEW status \in {"active", "past_due", "canceled"}, SubscriptionChanges(x, status)
        PROVE  PaidOnce'
    <3>1. ASSUME NEW t \in Daily
          PROVE  PaidInv(t)'
      <4>1. Tell(t, "PAID") # Changed(x, sub[x].version + 1)
        BY <1>2, <1>5
      <4>2. UNCHANGED <<session, starts>> /\ due' = due \cup {Changed(x, sub[x].version + 1)}
        BY <2>4 DEF SubscriptionChanges
      <4>3. QED
        BY <1>3, <4>1, <4>2
    <3>2. QED
      BY <3>1 DEF PaidOnce
  <2>5. QED
    BY <1>7, <2>1, <2>2, <2>3, <2>4 DEF Provider
<1>8. ASSUME UNCHANGED <<session, starts>>, due' \subseteq due
      PROVE  PaidOnce'
  BY <1>3, <1>8 DEF PaidOnce
<1>9. ASSUME NEW d \in Desk, Checkout(d)
      PROVE  PaidOnce'
  <2>1. CASE UNCHANGED <<session, starts>> /\ due' \subseteq due
    BY <1>8, <2>1
  <2>2. ASSUME NEW s \in Session, CloseOne(d, s), Expire(s), UNCHANGED starts
        PROVE  PaidOnce'
    BY <1>6, <2>2 DEF Expire
  <2>3. ASSUME NEW s \in Session, CreateSession(d, s)
        PROVE  PaidOnce'
    <3>1. ASSUME NEW t \in Daily
          PROVE  PaidInv(t)'
      <4>1. session[t] = "PAID" => session'[t] = "PAID"
        BY <1>1, <1>2, <2>3 DEF CreateSession, StripeOK
      <4>2. UNCHANGED <<due, starts>>
        BY <2>3 DEF CreateSession
      <4>3. QED
        BY <1>3, <4>1, <4>2
    <3>2. QED
      BY <3>1 DEF PaidOnce
  <2>4. QED
    BY <1>9, <2>1, <2>2, <2>3 DEF Checkout, BeginCheckout, ListSessions, CloseOne, PersistHire,
       PersistTooLate, CheckoutFails, CheckoutTimesOut, Leave, stripe
<1>10. ASSUME NEW e \in Event, ApplyDay(e), e \in due
       PROVE  PaidOnce'
  <2>1. e.of \in Daily /\ e \in SessionEvent /\ e = Tell(e.of, e.tells)
    BY <1>10, EventFields, ConstantsAssumption DEF ApplyDay
  <2>2. due' = due \ {e} /\ UNCHANGED session
    BY <1>10 DEF ApplyDay, Commit
  <2>3. CASE UNCHANGED starts
    BY <1>8, <2>2, <2>3
  <2>4. CASE OneTime(e.tells) = "ACTIVE" /\ starts' = [starts EXCEPT ![e.of] = @ + 1]
    <3>1. e = Tell(e.of, "PAID")
      BY <2>1, <2>4, StatusesAreStatuses
    <3>2. PaidInv(e.of)
      BY <2>1 DEF PaidOnce
    <3>3. starts[e.of] = 0 /\ session[e.of] = "PAID"
      BY <1>10, <3>1, <3>2 DEF PaidInv
    <3>4. starts'[e.of] = 1 /\ \A t \in Daily \ {e.of} : starts'[t] = starts[t]
      BY <1>1, <2>1, <2>4, <3>3 DEF StartsOK
    <3>5. PaidInv(e.of)'
      <4>1. Tell(e.of, "PAID") \notin due'
        BY <2>2, <3>1
      <4>2. Tell(e.of, "PAID")' = Tell(e.of, "PAID")
        BY DEF Tell
      <4>3. QED
        BY <2>2, <3>3, <3>4, <4>1 DEF PaidInv
    <3>6. ASSUME NEW t \in Daily \ {e.of}
          PROVE  PaidInv(t)'
      BY <1>3, <2>2, <3>4
    <3>7. QED
      BY <3>5, <3>6 DEF PaidOnce
  <2>5. QED
    BY <1>10, <2>3, <2>4 DEF ApplyDay, Started
<1>11. ASSUME NEW e \in Event, e \in due, Handles(e) \/ FetchFails(e) \/ HookDies(e)
       PROVE  PaidOnce'
  <2>1. CASE ApplyDay(e)
    BY <1>10, <1>11, <2>1
  <2>2. CASE UNCHANGED <<session, starts>> /\ due' \subseteq due
    BY <1>8, <2>2
  <2>3. QED
    BY <1>11, <2>1, <2>2 DEF Handles, FetchFails, HookDies, FindBySession, FindBySubscription,
       LockSubscription, FetchSubscription, LinkMonth, ApplySubscription, Commit, Refused, stripe
<1>12. CASE UNCHANGED vars \/ \E r \in Hire : HireExpires(r)
  BY <1>8, <1>12 DEF vars, stripe, HireExpires
<1>13. QED
  BY <1>1, <1>7, <1>9, <1>11, <1>12 DEF Next

\* A day or week that was paid is started once, in whatever order and however often its
\* events come and whichever transactions fail on the way.
THEOREM DaysStartOnce == Spec => []StartsOnce
<1>1. Spec => []PaidOnce
  BY TypeHolds, PaidInit, PaidKept, PTL DEF Spec
<1>2. PaidOnce => StartsOnce
  BY DEF PaidOnce, PaidInv, StartsOnce
<1>3. QED
  BY <1>1, <1>2, PTL

-----------------------------------------------------------------------------
(* Months.  While at most one month was paid, a hire is as its subscription was when it  *)
(* was last fetched, and an event that is not recorded yet stands for what is newer.  *)

Paid(x) == sub[x].status # "none"

SubInv ==
  /\ \A x \in Monthly : Paid(x) <=> sub[x].version > 0
  /\ \A x \in Monthly : session[x] # "PROCESSING" /\ (Paid(x) => session[x] = "PAID")
  /\ \A e \in due : e \in SubscriptionEvent => e.version <= sub[e.of].version
  /\ \A e \in due : e.of \in Monthly /\ e.tells \in {"PAID", "CHANGE"} => Paid(e.of)

\* What a transaction fetched is no older than its event, and no newer than Stripe.
Fresh(e, got) ==
  /\ e.version <= got.version /\ got.version <= sub[e.of].version
  /\ got.version = sub[e.of].version => got.status = sub[e.of].status

TurnInv ==
  /\ HooksDue
  /\ \A e \in SubscriptionEvent : hook[e].pc \in {"find", "write"} => Fresh(e, hook[e].got)
  /\ \A e, f \in SubscriptionEvent : e.of = f.of /\ hook[e].pc # "idle" /\ hook[f].pc # "idle" => e = f

RowInv(r) ==
  /\ hire[r].status = "NONE" => hire[r].sub = NoSession /\ hire[r].session = NoSession
  /\ hire[r].sub = NoSession => hire[r].asOf = 0
  /\ hire[r].sub # NoSession => Paid(hire[r].sub) /\ hire[r].session \notin Daily

OneRow == \A x \in Monthly : \A q, r \in OfSubscription(x) : q = r

\* What was found is still of the kind it was.
FoundInv(e) ==
  hook[e].pc = "write" =>
    /\ hook[e].by # 0 => (hire[hook[e].by].session \in Daily <=> e.of \in Daily)
    /\ hook[e].linked # 0 => /\ e.of \in Monthly /\ e.tells \in {"PAID", "CHANGE"}
                             /\ hire[hook[e].linked].session \notin Daily
                             /\ hire[hook[e].linked].sub # NoSession

RowsInv ==
  /\ \A r \in Hire : RowInv(r)
  /\ OneRow
  /\ \A e \in Event : FoundInv(e)

\* For a lone month: rows are bounded by what was fetched, and what was found by the
\* subscription still is of it.
NotAhead == \A r \in Hire : hire[r].sub # NoSession => hire[r].asOf <= sub[hire[r].sub].version
NotAheadOf(e) == \A r \in Hire : hire[r].sub = e.of => hire[r].asOf <= hook[e].got.version
LoneInv ==
  /\ NotAhead
  /\ \A e \in SubscriptionEvent : hook[e].pc \in {"find", "write"} => NotAheadOf(e)
  /\ \A e \in Event : hook[e].pc = "write" /\ hook[e].linked # 0 => hire[hook[e].linked].sub = e.of

MonthInv == SubInv /\ TurnInv /\ RowsInv /\ (LoneMonth => LoneInv) /\ HireIsCurrent

LEMMA MonthInit == Init => MonthInv
<1>1. ASSUME Init
      PROVE  /\ \A r \in Hire : hire[r] = NoRow
             /\ \A x \in Monthly : sub[x] = NoSub
             /\ \A e \in Event : hook[e] = Idle
             /\ \A s \in Session : session[s] = "NONE"
             /\ due = {}
  BY <1>1 DEF Init
<1>2. NoRow.status = "NONE" /\ NoRow.sub = NoSession /\ NoRow.session = NoSession /\ NoRow.asOf = 0
  BY DEF NoRow
<1>3. SubscriptionEvent \subseteq Event /\ Monthly \subseteq Session /\ NoSub.status = "none" /\ NoSub.version = 0
  BY DEF Event, Session, NoSub
<1>4. ASSUME Init
      PROVE  \A x : OfSubscription(x) = {}
  BY <1>1, <1>2, <1>4 DEF OfSubscription, Exists, Status
<1>5. Init => SubInv /\ TurnInv
  BY <1>1, <1>3, HookStates DEF SubInv, Paid, TurnInv, HooksDue
<1>6. Init => RowsInv
  BY <1>1, <1>2, <1>4, HookStates DEF RowsInv, RowInv, OneRow, FoundInv
<1>7. Init => LoneInv
  BY <1>1, <1>2, <1>3, HookStates DEF LoneInv, NotAhead
<1>8. Init => HireIsCurrent
  BY <1>1, <1>3 DEF HireIsCurrent
<1>9. QED
  BY <1>5, <1>6, <1>7, <1>8 DEF MonthInv

\* The part of the state the month's invariant is about.
LEMMA MonthFrame ==
  ASSUME MonthInv, UNCHANGED <<session, sub, due, hire, hook>>
  PROVE  MonthInv'
  BY DEF MonthInv, SubInv, Paid, TurnInv, HooksDue, Fresh, RowsInv, RowInv, OneRow, OfSubscription, Exists,
     FoundInv, LoneMonth, LoneInv, NotAhead, NotAheadOf, HireIsCurrent

\* Stripe does something: subscriptions only go on, and each state has its event.
LEMMA StripeKeepsMonth ==
  ASSUME TypeInv, MonthInv, UNCHANGED <<hire, hook>>, StripeOK', due \subseteq due',
         \A x \in Monthly : session'[x] # "PROCESSING" /\ (sub'[x].status # "none" => session'[x] = "PAID"),
         \A x \in Monthly : \/ sub'[x] = sub[x]
                            \/ /\ sub'[x].version > sub[x].version /\ sub'[x].status # "none"
                               /\ Changed(x, sub'[x].version) \in due',
         \A e \in due' \ due :
            /\ e \in SubscriptionEvent => e.version <= sub'[e.of].version
            /\ e.of \in Monthly /\ e.tells \in {"PAID", "CHANGE"} => sub'[e.of].status # "none"
  PROVE  MonthInv'
<1>1. /\ \A x \in Monthly : sub[x].version \in Nat /\ sub'[x].version \in Nat
      /\ due \subseteq Event
      /\ \A e \in Event : hook[e].got.version \in Nat
  BY ConstantsAssumption DEF TypeInv, StripeOK, Subscription, HookOK, Hook
<1>2. ASSUME NEW x \in Monthly
      PROVE  /\ sub[x].version <= sub'[x].version
             /\ Paid(x) => Paid(x)'
             /\ Paid(x)' <=> sub'[x].version > 0
  BY <1>1 DEF MonthInv, SubInv, Paid
<1>3. ASSUME NEW e \in SubscriptionEvent
      PROVE  e \in Event /\ e.of \in Monthly /\ e.version \in Nat
  BY EventFields, ConstantsAssumption DEF Event
<1>4. SubInv'
  <2>1. ASSUME NEW e \in due', e \in SubscriptionEvent
        PROVE  e.version <= sub'[e.of].version
    BY <1>1, <1>2, <1>3, <2>1 DEF MonthInv, SubInv
  <2>2. ASSUME NEW e \in due', e.of \in Monthly, e.tells \in {"PAID", "CHANGE"}
        PROVE  Paid(e.of)'
    <3>1. CASE e \in due
      BY <1>2, <2>2, <3>1 DEF MonthInv, SubInv
    <3>2. CASE e \notin due
      BY <2>2, <3>2 DEF Paid
    <3>3. QED
      BY <3>1, <3>2
  <2>3. QED
    BY <1>2, <2>1, <2>2 DEF SubInv, Paid
<1>5. TurnInv'
  <2>1. ASSUME NEW e \in SubscriptionEvent, hook[e].pc \in {"find", "write"}
        PROVE  Fresh(e, hook[e].got)'
    <3>1. Fresh(e, hook[e].got)
      BY <2>1 DEF MonthInv, TurnInv
    <3>2. QED
      BY <1>1, <1>2, <1>3, <3>1 DEF Fresh
  <2>2. QED
    BY <2>1 DEF MonthInv, TurnInv, HooksDue
<1>6. RowsInv'
  <2>1. ASSUME NEW r \in Hire
        PROVE  RowInv(r)'
    <3>1. RowInv(r) /\ hire[r].sub \in Monthly \cup {NoSession}
      BY RowFields DEF MonthInv, RowsInv
    <3>2. QED
      BY <1>2, <3>1 DEF RowInv
  <2>2. OneRow' /\ \A e \in Event : FoundInv(e)'
    BY DEF MonthInv, RowsInv, OneRow, OfSubscription, Exists, FoundInv
  <2>3. QED
    BY <2>1, <2>2 DEF RowsInv
<1>7. LoneMonth' => LoneMonth
  BY <1>2 DEF LoneMonth, Paid
<1>8. LoneInv => LoneInv'
  <2>1. NotAhead => NotAhead'
    <3>1. ASSUME NotAhead, NEW r \in Hire, hire[r].sub # NoSession
          PROVE  hire[r].asOf <= sub'[hire[r].sub].version
      <4>1. hire[r].sub \in Monthly /\ hire[r].asOf \in Nat /\ hire[r].asOf <= sub[hire[r].sub].version
        BY <3>1, RowFields, ConstantsAssumption DEF NotAhead
      <4>2. QED
        BY <1>1, <1>2, <4>1
    <3>2. QED
      BY <3>1 DEF NotAhead
  <2>2. QED
    BY <2>1 DEF LoneInv, NotAheadOf
<1>9. LoneMonth' => HireIsCurrent'
  <2>1. ASSUME LoneMonth', NEW x \in Monthly, sub'[x].status # "none", Changed(x, sub'[x].version) \notin due'
        PROVE  \E r \in OfSubscription(x)' : hire'[r].asOf = sub'[x].version /\ hire'[r].status = PeriodStatus(sub'[x].status)
    <3>1. sub'[x] = sub[x] /\ Changed(x, sub[x].version) \notin due
      BY <2>1
    <3>2. PICK r \in OfSubscription(x) : hire[r].asOf = sub[x].version /\ hire[r].status = PeriodStatus(sub[x].status)
      BY <1>7, <2>1, <3>1 DEF MonthInv, HireIsCurrent
    <3>3. r \in OfSubscription(x)'
      BY DEF OfSubscription, Exists
    <3>4. QED
      BY <3>1, <3>2, <3>3
  <2>2. QED
    BY <2>1 DEF HireIsCurrent, Changed, PeriodStatus
<1>10. QED
  BY <1>4, <1>5, <1>6, <1>7, <1>8, <1>9 DEF MonthInv, HireIsCurrent

\* A transaction moves on, or ends without a trace.
LEMMA TurnKeepsMonth ==
  ASSUME TypeInv, MonthInv, UNCHANGED <<session, sub, due, hire>>, NEW e \in Event, NEW h \in Hook,
         hook' = [hook EXCEPT ![e] = h],
         h.pc # "idle" => e \in due,
         e \in SubscriptionEvent /\ h.pc \in {"find", "write"} => Fresh(e, h.got),
         e \in SubscriptionEvent /\ h.pc # "idle" =>
           \A f \in SubscriptionEvent : f.of = e.of /\ hook[f].pc # "idle" => f = e,
         h.pc = "write" =>
           /\ h.by # 0 => (hire[h.by].session \in Daily <=> e.of \in Daily)
           /\ h.linked # 0 => e.of \in Monthly /\ e.tells \in {"PAID", "CHANGE"}
                             /\ hire[h.linked].session \notin Daily
                             /\ hire[h.linked].sub # NoSession,
         LoneMonth /\ e \in SubscriptionEvent /\ h.pc \in {"find", "write"} =>
           \A r \in Hire : hire[r].sub = e.of => hire[r].asOf <= h.got.version,
         h.pc = "write" /\ h.linked # 0 => hire[h.linked].sub = e.of
  PROVE  MonthInv'
<1>1. hook'[e] = h /\ \A f \in Event \ {e} : hook'[f] = hook[f]
  BY DEF TypeInv, HookOK
<1>2. SubscriptionEvent \subseteq Event
  BY DEF Event
<1>3. SubInv'
  BY DEF MonthInv, SubInv, Paid
<1>4. TurnInv'
  <2>1. HooksDue'
    BY <1>1 DEF MonthInv, TurnInv, HooksDue
  <2>2. ASSUME NEW f \in SubscriptionEvent, hook'[f].pc \in {"find", "write"}
        PROVE  Fresh(f, hook'[f].got)
    BY <1>1, <1>2, <2>2 DEF MonthInv, TurnInv
  <2>3. ASSUME NEW f \in SubscriptionEvent, hook'[f].pc \in {"find", "write"}
        PROVE  Fresh(f, hook[f].got)'
    BY <2>2, <2>3 DEF Fresh
  <2>4. ASSUME NEW f \in SubscriptionEvent, NEW g \in SubscriptionEvent, f.of = g.of,
               hook'[f].pc # "idle", hook'[g].pc # "idle"
        PROVE  f = g
    BY <1>1, <1>2, <2>4 DEF MonthInv, TurnInv
  <2>5. QED
    BY <2>1, <2>3, <2>4 DEF TurnInv
<1>5. RowsInv'
  <2>1. \A r \in Hire : RowInv(r)'
    BY DEF MonthInv, RowsInv, RowInv, Paid
  <2>2. OneRow'
    BY DEF MonthInv, RowsInv, OneRow, OfSubscription, Exists
  <2>3. ASSUME NEW f \in Event
        PROVE  FoundInv(f)'
    <3>1. CASE f = e
      BY <1>1, <3>1 DEF FoundInv
    <3>2. CASE f # e
      BY <1>1, <3>2 DEF MonthInv, RowsInv, FoundInv
    <3>3. QED
      BY <3>1, <3>2
  <2>4. QED
    BY <2>1, <2>2, <2>3 DEF RowsInv
<1>6. LoneMonth' <=> LoneMonth
  BY DEF LoneMonth
<1>7. LoneMonth => LoneInv'
  <2> SUFFICES ASSUME LoneMonth
               PROVE  LoneInv'
    OBVIOUS
  <2>1. NotAhead'
    BY DEF MonthInv, LoneInv, NotAhead
  <2>2. ASSUME NEW f \in SubscriptionEvent, hook'[f].pc \in {"find", "write"}
        PROVE  \A r \in Hire : hire[r].sub = f.of => hire[r].asOf <= hook'[f].got.version
    BY <1>1, <1>2, <2>2 DEF MonthInv, LoneInv, NotAheadOf
  <2>3. ASSUME NEW f \in Event, hook'[f].pc = "write", hook'[f].linked # 0
        PROVE  hire[hook'[f].linked].sub = f.of
    BY <1>1, <2>3 DEF MonthInv, LoneInv
  <2>4. QED
    BY <2>1, <2>2, <2>3 DEF LoneInv, NotAheadOf
<1>8. HireIsCurrent'
  BY DEF MonthInv, HireIsCurrent, LoneMonth, OfSubscription, Exists
<1>9. QED
  BY <1>3, <1>4, <1>5, <1>6, <1>7, <1>8 DEF MonthInv

\* Rows are written by what keeps their state of the subscription: none is ahead, none is
\* linked to two, and the current one stays as it is.
LEMMA WriteKeepsMonth ==
  ASSUME TypeInv, TypeInv', MonthInv, UNCHANGED <<session, sub>>,
         due' \subseteq due, \A f \in SubscriptionEvent : f \in due => f \in due',
         \A f \in Event : \/ hook'[f] = hook[f] /\ (f \in due => f \in due')
                          \/ hook'[f].pc = "idle",
         \A r \in Hire : RowInv(r)',
         OneRow',
         \A r \in Hire : hire[r].status # "NONE" => (hire'[r].session \in Daily <=> hire[r].session \in Daily),
         \A r \in Hire : hire'[r].asOf = hire[r].asOf,
         \A r \in Hire : hire[r].sub # NoSession => hire'[r].sub # NoSession,
         LoneMonth => \A r \in Hire : hire'[r].sub = hire[r].sub \/ hire[r].sub = NoSession,
         LoneMonth => \A r \in Hire :
           Exists(r) /\ hire[r].sub # NoSession /\ hire[r].asOf = sub[hire[r].sub].version
             => hire'[r].status = hire[r].status
  PROVE  MonthInv'
<1>1. SubscriptionEvent \subseteq Event /\ \A f \in SubscriptionEvent : f.of \in Monthly
  BY EventFields DEF Event
<1>2. SubInv'
  BY DEF MonthInv, SubInv, Paid
<1>3. TurnInv'
  <2>1. HooksDue'
    BY DEF MonthInv, TurnInv, HooksDue
  <2>2. ASSUME NEW f \in SubscriptionEvent, hook'[f].pc \in {"find", "write"}
        PROVE  Fresh(f, hook[f].got)'
    <3>1. hook'[f] = hook[f] /\ Fresh(f, hook[f].got)
      BY <1>1, <2>2 DEF MonthInv, TurnInv
    <3>2. QED
      BY <3>1 DEF Fresh
  <2>3. ASSUME NEW f \in SubscriptionEvent, NEW g \in SubscriptionEvent, f.of = g.of,
               hook'[f].pc # "idle", hook'[g].pc # "idle"
        PROVE  f = g
    BY <1>1, <2>3 DEF MonthInv, TurnInv
  <2>4. QED
    BY <2>1, <2>2, <2>3 DEF TurnInv
<1>4. ASSUME NEW f \in Event
      PROVE  FoundInv(f)'
  <2>1. CASE hook'[f].pc = "write"
    <3>1. hook'[f] = hook[f] /\ FoundInv(f)
      BY <2>1 DEF MonthInv, RowsInv
    <3>2. /\ hook[f].by # 0 => hook[f].by \in Hire /\ hire[hook[f].by].status # "NONE"
          /\ hook[f].linked # 0 => hook[f].linked \in Hire /\ hire[hook[f].linked].status # "NONE"
      BY FoundRow
    <3>3. QED
      BY <2>1, <3>1, <3>2 DEF FoundInv
  <2>2. CASE hook'[f].pc # "write"
    BY <2>2 DEF FoundInv
  <2>3. QED
    BY <2>1, <2>2
<1>5. LoneMonth' <=> LoneMonth
  BY DEF LoneMonth
<1>6. LoneMonth => LoneInv'
  <2> SUFFICES ASSUME LoneMonth
               PROVE  LoneInv'
    OBVIOUS
  <2>1. LoneInv
    BY DEF MonthInv
  <2>2. ASSUME NEW r \in Hire
        PROVE  /\ RowInv(r) /\ hire'[r].asOf = hire[r].asOf
               /\ hire'[r].sub = hire[r].sub \/ (hire[r].sub = NoSession /\ hire[r].asOf = 0)
               /\ hire'[r].sub \in Monthly \cup {NoSession}
    BY RowFields DEF MonthInv, RowsInv, RowInv, TypeInv, TableOK, Row
  <2>3. /\ \A x \in Monthly : 0 <= sub[x].version
        /\ \A f \in Event : 0 <= hook[f].got.version
    BY ConstantsAssumption DEF TypeInv, StripeOK, HookOK, Hook, Subscription
  <2>4. NotAhead'
    BY <2>1, <2>2, <2>3 DEF LoneInv, NotAhead
  <2>5. ASSUME NEW f \in SubscriptionEvent, hook'[f].pc \in {"find", "write"}
        PROVE  NotAheadOf(f)'
    <3>1. hook'[f] = hook[f] /\ NotAheadOf(f)
      BY <1>1, <2>1, <2>5 DEF LoneInv
    <3>2. ASSUME NEW r \in Hire, hire'[r].sub = f.of
          PROVE  hire'[r].asOf <= hook'[f].got.version
      BY <1>1, <2>2, <2>3, <3>1, <3>2 DEF NotAheadOf
    <3>3. QED
      BY <3>2 DEF NotAheadOf
  <2>6. ASSUME NEW f \in Event, hook'[f].pc = "write", hook'[f].linked # 0
        PROVE  hire'[hook'[f].linked].sub = f.of
    <3>1. hook'[f] = hook[f] /\ hire[hook[f].linked].sub = f.of /\ f.of # NoSession
      BY <2>1, <2>6, EventFields, ConstantsAssumption DEF LoneInv
    <3>2. hook[f].linked \in Hire
      BY <2>6, <3>1, FoundRow
    <3>3. QED
      BY <2>2, <3>1, <3>2
  <2>7. QED
    BY <2>4, <2>5, <2>6 DEF LoneInv
<1>7. HireIsCurrent'
  <2> SUFFICES ASSUME LoneMonth, NEW x \in Monthly, sub[x].status # "none", Changed(x, sub[x].version) \notin due'
               PROVE  \E r \in OfSubscription(x)' : hire'[r].asOf = sub[x].version /\ hire'[r].status = PeriodStatus(sub[x].status)
    BY <1>5 DEF HireIsCurrent, Changed, PeriodStatus
  <2>1. sub[x].version \in 1..MaxVersion
    BY ConstantsAssumption DEF MonthInv, SubInv, Paid, TypeInv, StripeOK, Subscription
  <2>2. Changed(x, sub[x].version) \notin due
    BY <2>1, ChangedIsEvent
  <2>3. PICK r \in OfSubscription(x) : hire[r].asOf = sub[x].version /\ hire[r].status = PeriodStatus(sub[x].status)
    BY <2>2 DEF MonthInv, HireIsCurrent
  <2>4. r \in Hire /\ Exists(r) /\ hire[r].sub = x /\ x # NoSession
    BY <2>3, RowsExist, ConstantsAssumption DEF Session
  <2>5. hire'[r].status = hire[r].status /\ hire'[r].sub = x /\ hire'[r].asOf = hire[r].asOf
    BY <2>3, <2>4
  <2>6. r \in OfSubscription(x)'
    BY <2>4, <2>5 DEF OfSubscription, Exists
  <2>7. QED
    BY <2>3, <2>5, <2>6
<1>8. QED
  BY <1>2, <1>3, <1>4, <1>5, <1>6, <1>7 DEF MonthInv, RowsInv

\* One row is linked to a subscription, or none is, and the others keep theirs.
LEMMA OneRowKept ==
  ASSUME OneRow, NEW w \in Hire,
         \A r \in Hire \ {w} : Exists(r)' => Exists(r) /\ hire'[r].sub = hire[r].sub,
         \/ hire'[w].sub = NoSession
         \/ Exists(w) /\ hire'[w].sub = hire[w].sub
         \/ OfSubscription(hire'[w].sub) \subseteq {w}
  PROVE  OneRow'
<1>1. ASSUME NEW x \in Monthly, NEW q \in OfSubscription(x)', NEW r \in OfSubscription(x)'
      PROVE  q = r
  <2>1. /\ q \in Hire /\ r \in Hire /\ Exists(q)' /\ Exists(r)'
        /\ hire'[q].sub = x /\ hire'[r].sub = x /\ x # NoSession
    BY ConstantsAssumption DEF OfSubscription, Session
  <2>2. ASSUME NEW p \in {q, r}, p # w
        PROVE  p \in OfSubscription(x)
    BY <2>1, <2>2 DEF OfSubscription
  <2>3. ASSUME w \in {q, r}
        PROVE  w \in OfSubscription(x) \/ OfSubscription(x) \subseteq {w}
    BY <2>1, <2>3 DEF OfSubscription
  <2>4. \A p1, p2 \in OfSubscription(x) : p1 = p2
    BY DEF OneRow
  <2>5. QED
    BY <2>2, <2>3, <2>4
<1>2. QED
  BY <1>1 DEF OneRow

\* A new row that is told nothing of a subscription.
LEMMA CreatedKeepsRows ==
  ASSUME TypeInv, MonthInv, NEW row \in Row, row.status # "NONE", row.asOf = 0, Create(row),
         sub' = sub,
         row.sub # NoSession => Paid(row.sub) /\ row.session \notin Daily /\ OfSubscription(row.sub) = {}
  PROVE  /\ \A r \in Hire : RowInv(r)'
         /\ OneRow'
         /\ \A r \in Hire : hire[r].status # "NONE" => hire'[r] = hire[r]
         /\ \A r \in Hire : hire'[r].asOf = hire[r].asOf
         /\ \A r \in Hire : hire'[r].sub = hire[r].sub \/ hire[r].sub = NoSession
<1>1. PICK w \in Hire :
      /\ hire'[w] = row /\ hire[w].status = "NONE"
      /\ \A r \in Hire \ {w} : hire'[r] = hire[r]
  BY Created DEF TypeInv
<1>2. RowInv(w) /\ OneRow /\ \A r \in Hire : RowInv(r)
  BY <1>1 DEF MonthInv, RowsInv
<1>3. hire[w].sub = NoSession /\ hire[w].asOf = 0
  BY <1>1, <1>2 DEF RowInv
<1>4. \A r \in Hire : RowInv(r)'
  <2>1. RowInv(w)'
    BY <1>1 DEF RowInv, Paid
  <2>2. \A r \in Hire \ {w} : RowInv(r)'
    BY <1>1, <1>2 DEF RowInv, Paid
  <2>3. QED
    BY <2>1, <2>2
<1>5. OneRow'
  <2>1. \A r \in Hire \ {w} : Exists(r)' => Exists(r) /\ hire'[r].sub = hire[r].sub
    BY <1>1 DEF Exists
  <2>2. hire'[w].sub = NoSession \/ OfSubscription(hire'[w].sub) \subseteq {w}
    BY <1>1
  <2>3. QED
    BY <1>1, <1>2, <2>1, <2>2, OneRowKept
<1>6. QED
  BY <1>1, <1>3, <1>4, <1>5

\* What a step of a transaction that writes does to the transactions and the events.
LEMMA Committed ==
  ASSUME TypeInv, NEW e \in Event, Commit(e)
  PROVE  /\ due' = due \ {e} /\ UNCHANGED <<session, sub>>
         /\ hook'[e].pc = "idle"
         /\ \A f \in Event \ {e} : hook'[f] = hook[f]
         /\ \A f \in Event : \/ hook'[f] = hook[f] /\ (f \in due => f \in due')
                             \/ hook'[f].pc = "idle"
  BY HookStates DEF Commit, TypeInv, HookOK

LEMMA PersistKeepsMonth ==
  ASSUME TypeInv, TypeInv', MonthInv, NEW d \in Desk, PersistHire(d)
  PROVE  MonthInv'
<1> DEFINE row == Pending(desk[d].keep, NoSession)
<1>1. UNCHANGED <<session, sub, due, hook>>
  BY DEF PersistHire, stripe
<1>2. CASE UNCHANGED table
  BY <1>1, <1>2, MonthFrame DEF table
<1>3. CASE Create(row)
  <2>1. desk[d].keep \in Session
    BY DEF TypeInv, DeskOK, PersistHire, At
  <2>2. row \in Row /\ row.status = "PENDING" /\ row.asOf = 0 /\ row.sub = NoSession
    BY <2>1, PendingFields
  <2> HIDE DEF row
  <2>3. /\ \A r \in Hire : RowInv(r)'
        /\ OneRow'
        /\ \A r \in Hire : hire[r].status # "NONE" => hire'[r] = hire[r]
        /\ \A r \in Hire : hire'[r].asOf = hire[r].asOf
        /\ \A r \in Hire : hire'[r].sub = hire[r].sub \/ hire[r].sub = NoSession
    BY <1>1, <1>3, <2>2, CreatedKeepsRows
  <2>4. \A r \in Hire : Exists(r) => hire[r].status # "NONE"
    BY DEF Exists, Status
  <2>5. QED
    BY <1>1, <2>3, <2>4, WriteKeepsMonth
<1>4. QED
  BY <1>2, <1>3 DEF PersistHire

LEMMA ApplyDayKeepsMonth ==
  ASSUME TypeInv, TypeInv', MonthInv, NEW e \in Event, ApplyDay(e)
  PROVE  MonthInv'
<1>1. e.of \in Daily /\ e.of \in Session /\ e \notin SubscriptionEvent /\ hook[e].pc = "write" /\ FoundInv(e)
      /\ \A r \in Hire : RowInv(r)
  BY EventFields, ConstantsAssumption DEF ApplyDay, Session, Working, MonthInv, RowsInv
<1>2. /\ due' = due \ {e} /\ UNCHANGED <<session, sub>>
      /\ \A f \in Event : \/ hook'[f] = hook[f] /\ (f \in due => f \in due')
                          \/ hook'[f].pc = "idle"
  BY Committed DEF ApplyDay
<1>3. \A r \in Hire : Exists(r) => hire[r].status # "NONE"
  BY DEF Exists, Status
<1>4. ASSUME NEW by \in {hook[e].by}, by # 0, hire' = [hire EXCEPT ![by] = Told(@, NextStatus(hook[e].read, e.tells), @.sub, @.asOf)]
      PROVE  MonthInv'
  <2> DEFINE new == Told(hire[by], NextStatus(hook[e].read, e.tells), hire[by].sub, hire[by].asOf)
  <2>1. by \in Hire /\ hire[by].status # "NONE" /\ hire[by] \in Row /\ hire[by].session \in Daily
    BY <1>1, <1>4, FoundRow DEF FoundInv
  <2>2. hire[by].sub = NoSession
    BY <1>1, <2>1 DEF RowInv
  <2>3. /\ new.session = hire[by].session /\ new.sub = hire[by].sub /\ new.asOf = hire[by].asOf
        /\ new.status \in Status
    BY StatusesAreStatuses DEF Told
  <2>4. hire'[by] = new /\ \A r \in Hire \ {by} : hire'[r] = hire[r]
    BY <1>4, <2>1 DEF TypeInv, TableOK
  <2> HIDE DEF new
  <2>5. \A r \in Hire : RowInv(r)'
    <3>1. RowInv(by)'
      BY <1>1, <1>2, <2>1, <2>2, <2>3, <2>4 DEF RowInv, Status
    <3>2. \A r \in Hire \ {by} : RowInv(r)'
      BY <1>1, <1>2, <2>4 DEF RowInv, Paid
    <3>3. QED
      BY <3>1, <3>2
  <2>6. OneRow'
    <3>1. \A r \in Hire \ {by} : Exists(r)' => Exists(r) /\ hire'[r].sub = hire[r].sub
      BY <2>4 DEF Exists
    <3>2. hire'[by].sub = NoSession
      BY <2>2, <2>3, <2>4
    <3>3. OneRow
      BY DEF MonthInv, RowsInv
    <3>4. QED
      BY <2>1, <3>1, <3>2, <3>3, OneRowKept
  <2>7. \A r \in Hire : hire'[r].session = hire[r].session /\ hire'[r].asOf = hire[r].asOf /\ hire'[r].sub = hire[r].sub
    BY <2>3, <2>4
  <2>8. \A r \in Hire : hire[r].sub # NoSession => hire'[r].status = hire[r].status
    BY <2>2, <2>4
  <2>9. QED
    BY <1>1, <1>2, <2>5, <2>6, <2>7, <2>8, WriteKeepsMonth
<1>5. CASE Create(Told(Pending(e.of, NoSession), OneTime(e.tells), NoSession, 0))
  <2> DEFINE row == Told(Pending(e.of, NoSession), OneTime(e.tells), NoSession, 0)
  <2>1. row \in Row /\ row.status # "NONE"
    <3>1. NoSession \in Monthly \cup {NoSession} /\ 0 \in 0..MaxVersion
      BY ConstantsAssumption
    <3>2. Pending(e.of, NoSession) \in Row
      BY <1>1, <3>1, PendingFields
    <3>3. OneTime(e.tells) \in Status \cup {"DELETED"}
      BY StatusesAreStatuses
    <3>4. QED
      BY <3>1, <3>2, <3>3, ToldTyped
  <2>2. row.asOf = 0 /\ row.sub = NoSession
    BY DEF Told
  <2>3. Create(row)
    BY <1>5
  <2> HIDE DEF row
  <2>4. /\ \A r \in Hire : RowInv(r)'
        /\ OneRow'
        /\ \A r \in Hire : hire[r].status # "NONE" => hire'[r] = hire[r]
        /\ \A r \in Hire : hire'[r].asOf = hire[r].asOf
        /\ \A r \in Hire : hire'[r].sub = hire[r].sub \/ hire[r].sub = NoSession
    BY <1>2, <2>1, <2>2, <2>3, CreatedKeepsRows
  <2>5. QED
    BY <1>1, <1>2, <1>3, <2>4, WriteKeepsMonth
<1>6. QED
  BY <1>4, <1>5 DEF ApplyDay

LEMMA ExpiryKeepsMonth ==
  ASSUME TypeInv, TypeInv', MonthInv, NEW w \in Hire, HireExpires(w)
  PROVE  MonthInv'
<1> DEFINE new == Told(hire[w], "EXPIRED", hire[w].sub, hire[w].asOf)
<1>1. UNCHANGED <<session, sub, due, hook>> /\ hire[w].status = "ACTIVE"
      /\ (hire[w].sub # NoSession => hire[w].asOf < sub[hire[w].sub].version)
  BY DEF HireExpires, stripe
<1>2. new.session = hire[w].session /\ new.sub = hire[w].sub /\ new.asOf = hire[w].asOf /\ new.status = "EXPIRED"
  BY DEF Told
<1>3. hire'[w] = new /\ \A r \in Hire \ {w} : hire'[r] = hire[r]
  BY DEF TypeInv, TableOK, HireExpires
<1> HIDE DEF new
<1>4. \A r \in Hire : RowInv(r)'
  <2>1. \A r \in Hire : RowInv(r)
    BY DEF MonthInv, RowsInv
  <2>2. RowInv(w)'
    BY <1>1, <1>2, <1>3, <2>1 DEF RowInv, Paid
  <2>3. \A r \in Hire \ {w} : RowInv(r)'
    BY <1>1, <1>3, <2>1 DEF RowInv, Paid
  <2>4. QED
    BY <2>2, <2>3
<1>5. OneRow'
  <2>1. \A r \in Hire \ {w} : Exists(r)' => Exists(r) /\ hire'[r].sub = hire[r].sub
    BY <1>3 DEF Exists
  <2>2. Exists(w) /\ hire'[w].sub = hire[w].sub
    BY <1>1, <1>2, <1>3 DEF Exists, Status
  <2>3. QED
    BY <2>1, <2>2, OneRowKept DEF MonthInv, RowsInv
<1>6. \A r \in Hire : hire'[r].session = hire[r].session /\ hire'[r].asOf = hire[r].asOf /\ hire'[r].sub = hire[r].sub
  BY <1>2, <1>3
<1>7. ASSUME NEW r \in Hire, hire[r].sub # NoSession, hire[r].asOf = sub[hire[r].sub].version
      PROVE  hire'[r].status = hire[r].status
  <2>1. r # w
    <3>1. hire[r].asOf \in Nat
      BY RowFields, ConstantsAssumption
    <3>2. QED
      BY <1>1, <1>7, <3>1
  <2>2. QED
    BY <1>3, <2>1
<1>8. QED
  BY <1>1, <1>4, <1>5, <1>6, <1>7, WriteKeepsMonth

LEMMA LinkKeepsMonth ==
  ASSUME TypeInv, TypeInv', MonthInv, NEW e \in Event, LinkMonth(e)
  PROVE  MonthInv'
<1> DEFINE s == e.of  x == SubscriptionOf(e)
<1>1. /\ s \in Monthly /\ s \in Session /\ s \notin Daily /\ s # NoSession /\ e \in SessionEvent /\ e \notin SubscriptionEvent
      /\ hook[e].pc = "write" /\ e \in due /\ FoundInv(e) /\ \A r \in Hire : RowInv(r)
  BY EventFields, ConstantsAssumption DEF LinkMonth, Session, Working, MonthInv, RowsInv, TurnInv, HooksDue
<1>2. /\ due' = due \ {e} /\ UNCHANGED <<session, sub>>
      /\ \A f \in Event : \/ hook'[f] = hook[f] /\ (f \in due => f \in due')
                          \/ hook'[f].pc = "idle"
  BY Committed DEF LinkMonth
<1>3. \A r \in Hire : Exists(r) => hire[r].status # "NONE"
  BY DEF Exists, Status
<1>4. x \in {s, NoSession} /\ (x # NoSession => Paid(x))
  BY <1>1 DEF SubscriptionOf, MonthInv, SubInv
<1>5. OneRow
  BY DEF MonthInv, RowsInv
<1> HIDE DEF x
<1>6. ASSUME NEW by \in {hook[e].by}, by # 0, Exists(by), x = NoSession \/ OfSubscription(x) \subseteq {by},
             hire' = [hire EXCEPT ![by] = Linked(@, @.session, IF x = NoSession THEN @.sub ELSE x)]
      PROVE  MonthInv'
  <2> DEFINE new == Linked(hire[by], hire[by].session, IF x = NoSession THEN hire[by].sub ELSE x)
  <2>1. by \in Hire /\ hire[by].status # "NONE" /\ hire[by].session \notin Daily
    BY <1>1, <1>6, FoundRow DEF FoundInv
  <2>2. /\ new.session = hire[by].session /\ new.sub = (IF x = NoSession THEN hire[by].sub ELSE x)
        /\ new.asOf = hire[by].asOf /\ new.status = hire[by].status
    BY DEF Linked
  <2>3. hire'[by] = new /\ \A r \in Hire \ {by} : hire'[r] = hire[r]
    BY <1>6, <2>1 DEF TypeInv, TableOK
  <2> HIDE DEF new
  <2>4. \A r \in Hire : RowInv(r)'
    <3>1. RowInv(by)'
      BY <1>1, <1>2, <1>4, <2>1, <2>2, <2>3 DEF RowInv, Paid
    <3>2. \A r \in Hire \ {by} : RowInv(r)'
      BY <1>1, <1>2, <2>3 DEF RowInv, Paid
    <3>3. QED
      BY <3>1, <3>2
  <2>5. OneRow'
    <3>1. \A r \in Hire \ {by} : Exists(r)' => Exists(r) /\ hire'[r].sub = hire[r].sub
      BY <2>3 DEF Exists
    <3>2. \/ Exists(by) /\ hire'[by].sub = hire[by].sub
          \/ OfSubscription(hire'[by].sub) \subseteq {by}
      BY <1>6, <2>2, <2>3
    <3>3. QED
      BY <1>5, <2>1, <3>1, <3>2, OneRowKept
  <2>6. \A r \in Hire : hire'[r].session = hire[r].session /\ hire'[r].asOf = hire[r].asOf /\ hire'[r].status = hire[r].status
    BY <2>2, <2>3
  <2>7. \A r \in Hire : hire[r].sub # NoSession => hire'[r].sub # NoSession
    BY <2>2, <2>3
  <2>8. LoneMonth => hire[by].sub = NoSession \/ hire'[by].sub = hire[by].sub
    <3>1. hire[by].sub # NoSession => Paid(hire[by].sub) /\ hire[by].sub \in Monthly
      BY <1>1, <2>1, RowFields DEF RowInv
    <3>2. QED
      BY <1>1, <1>4, <2>2, <2>3, <3>1 DEF LoneMonth, Paid
  <2>9. LoneMonth => \A r \in Hire : hire'[r].sub = hire[r].sub \/ hire[r].sub = NoSession
    BY <2>3, <2>8
  <2>10. QED
    BY <1>1, <1>2, <2>4, <2>5, <2>6, <2>7, <2>9, WriteKeepsMonth
<1>7. ASSUME NEW by \in {hook[e].by}, NEW linked \in {hook[e].linked}, by # 0, linked \notin {0, by}, Exists(by), Exists(linked),
             hire' = [r \in Hire |-> IF r = by THEN Told(hire[r], "DELETED", hire[r].sub, hire[r].asOf)
                                    ELSE IF r = linked THEN Linked(hire[r], s, hire[r].sub) ELSE hire[r]]
      PROVE  MonthInv'
  <2>1. /\ by \in Hire /\ linked \in Hire /\ hire[by].status # "NONE" /\ hire[linked].status # "NONE"
        /\ hire[by].session \notin Daily /\ hire[linked].session \notin Daily
    BY <1>1, <1>7, FoundRow DEF FoundInv
  <2>2. /\ hire'[by].session = hire[by].session /\ hire'[by].sub = hire[by].sub /\ hire'[by].asOf = hire[by].asOf
        /\ hire'[by].status = "DELETED"
    BY <1>7, <2>1 DEF Told
  <2>3. /\ hire'[linked].session = s /\ hire'[linked].sub = hire[linked].sub /\ hire'[linked].asOf = hire[linked].asOf
        /\ hire'[linked].status = hire[linked].status
    BY <1>7, <2>1 DEF Linked
  <2>4. \A r \in Hire \ {by, linked} : hire'[r] = hire[r]
    BY <1>7
  <2>5. \A r \in Hire : /\ hire'[r].sub = hire[r].sub /\ hire'[r].asOf = hire[r].asOf
                        /\ hire'[r].session \in Daily <=> hire[r].session \in Daily
    BY <1>1, <2>1, <2>2, <2>3, <2>4
  <2>6. \A r \in Hire : RowInv(r)'
    <3>1. RowInv(by)'
      BY <1>1, <1>2, <2>1, <2>2 DEF RowInv, Paid
    <3>2. RowInv(linked)'
      BY <1>1, <1>2, <2>1, <2>3 DEF RowInv, Paid
    <3>3. \A r \in Hire \ {by, linked} : RowInv(r)'
      BY <1>1, <1>2, <2>4 DEF RowInv, Paid
    <3>4. QED
      BY <3>1, <3>2, <3>3
  <2>7. OneRow'
    <3>1. ~Exists(by)'
      BY <2>2 DEF Exists, Status
    <3>2. \A r \in Hire \ {by} : Exists(r)' => Exists(r) /\ hire'[r].sub = hire[r].sub
      BY <1>7, <2>3, <2>4 DEF Exists
    <3>3. Exists(by) /\ hire'[by].sub = hire[by].sub
      BY <1>7, <2>2
    <3>4. QED
      BY <1>5, <2>1, <3>2, <3>3, OneRowKept
  <2>8. LoneMonth => hire[by].sub = NoSession
    <3>1. ASSUME LoneMonth, hire[by].sub # NoSession
          PROVE  FALSE
      <4>1. hire[linked].sub = s /\ Paid(s)
        BY <1>1, <1>7, <3>1 DEF MonthInv, LoneInv, FoundInv, SubInv
      <4>2. hire[by].sub \in Monthly /\ Paid(hire[by].sub)
        BY <1>1, <2>1, <3>1, RowFields DEF RowInv
      <4>3. hire[by].sub = s
        BY <1>1, <3>1, <4>1, <4>2 DEF LoneMonth, Paid
      <4>4. by \in OfSubscription(s) /\ linked \in OfSubscription(s)
        BY <1>7, <2>1, <4>1, <4>3 DEF OfSubscription
      <4>5. QED
        BY <1>1, <1>5, <1>7, <4>4 DEF OneRow
    <3>2. QED
      BY <3>1
  <2>9. LoneMonth => \A r \in Hire : hire[r].sub # NoSession => hire'[r].status = hire[r].status
    BY <2>3, <2>4, <2>8
  <2>10. QED
    BY <1>1, <1>2, <2>5, <2>6, <2>7, <2>9, WriteKeepsMonth
<1>8. ASSUME NEW linked \in {hook[e].linked}, linked # 0, Exists(linked),
             hire' = [hire EXCEPT ![linked] = Linked(@, s, @.sub)]
      PROVE  MonthInv'
  <2>1. linked \in Hire /\ hire[linked].status # "NONE" /\ hire[linked].session \notin Daily
    BY <1>1, <1>8, FoundRow DEF FoundInv
  <2>2. /\ hire'[linked].session = s /\ hire'[linked].sub = hire[linked].sub /\ hire'[linked].asOf = hire[linked].asOf
        /\ hire'[linked].status = hire[linked].status
    BY <1>8, <2>1 DEF Linked, TypeInv, TableOK
  <2>3. \A r \in Hire \ {linked} : hire'[r] = hire[r]
    BY <1>8 DEF TypeInv, TableOK
  <2>4. \A r \in Hire : /\ hire'[r].sub = hire[r].sub /\ hire'[r].asOf = hire[r].asOf /\ hire'[r].status = hire[r].status
                        /\ hire'[r].session \in Daily <=> hire[r].session \in Daily
    BY <1>1, <2>1, <2>2, <2>3
  <2>5. \A r \in Hire : RowInv(r)'
    <3>1. RowInv(linked)'
      BY <1>1, <1>2, <2>1, <2>2 DEF RowInv, Paid
    <3>2. \A r \in Hire \ {linked} : RowInv(r)'
      BY <1>1, <1>2, <2>3 DEF RowInv, Paid
    <3>3. QED
      BY <3>1, <3>2
  <2>6. OneRow'
    <3>1. \A r \in Hire : Exists(r)' => Exists(r) /\ hire'[r].sub = hire[r].sub
      BY <2>4 DEF Exists
    <3>2. Exists(linked) /\ hire'[linked].sub = hire[linked].sub
      BY <1>8, <2>2
    <3>3. QED
      BY <1>5, <2>1, <3>1, <3>2, OneRowKept
  <2>7. QED
    BY <1>1, <1>2, <2>4, <2>5, <2>6, WriteKeepsMonth
<1>9. ASSUME x = NoSession \/ OfSubscription(x) = {}, Create(Pending(s, x))
      PROVE  MonthInv'
  <2> DEFINE row == Pending(s, x)
  <2>1. row \in Row /\ row.status = "PENDING" /\ row.asOf = 0 /\ row.sub = x /\ row.session = s
    BY <1>1, <1>4, PendingFields
  <2>2. Create(row)
    BY <1>9
  <2> HIDE DEF row
  <2>3. /\ \A r \in Hire : RowInv(r)'
        /\ OneRow'
        /\ \A r \in Hire : hire[r].status # "NONE" => hire'[r] = hire[r]
        /\ \A r \in Hire : hire'[r].asOf = hire[r].asOf
        /\ \A r \in Hire : hire'[r].sub = hire[r].sub \/ hire[r].sub = NoSession
    <3>1. row.sub # NoSession => Paid(row.sub) /\ row.session \notin Daily /\ OfSubscription(row.sub) = {}
      BY <1>1, <1>4, <1>9, <2>1
    <3>2. row.status # "NONE"
      BY <2>1
    <3>3. QED
      BY <1>2, <2>1, <2>2, <3>1, <3>2, CreatedKeepsRows
  <2>4. QED
    BY <1>1, <1>2, <1>3, <2>3, WriteKeepsMonth
<1>10. QED
  BY <1>6, <1>7, <1>8, <1>9 DEF LinkMonth, x

\* The fetched state is written to a row: no row of the subscription was ahead of it, and
\* when it is the latest the row tells of it.
LEMMA StateWritten ==
  ASSUME TypeInv, TypeInv', MonthInv, NEW e \in SubscriptionEvent, hook[e].pc = "write", Commit(e),
         NEW w \in Hire, NEW row \in Row,
         hire'[w] = row, \A r \in Hire \ {w} : hire'[r] = hire[r],
         row.status = PeriodStatus(hook[e].got.status), row.asOf = hook[e].got.version,
         row.sub \in Monthly, Paid(row.sub), row.session \notin Daily,
         hire[w].status # "NONE" => hire[w].session \notin Daily,
         (Exists(w) /\ row.sub = hire[w].sub) \/ OfSubscription(row.sub) \subseteq {w},
         LoneMonth => row.sub = e.of
  PROVE  /\ MonthInv'
         /\ LoneMonth => \A r \in Hire : hire[r].sub # NoSession /\ hire'[r].sub = hire[r].sub
                           => hire'[r].asOf >= hire[r].asOf
<1> DEFINE x == e.of
<1>1. /\ e \in Event /\ x \in Monthly /\ x # NoSession /\ e = Changed(x, e.version) /\ e.version \in Nat
      /\ \A f \in SubscriptionEvent : f \in Event /\ f.of \in Monthly
  BY EventFields, ConstantsAssumption DEF Event, Session
<1>2. /\ due' = due \ {e} /\ UNCHANGED <<session, sub>> /\ hook'[e].pc = "idle"
      /\ \A f \in Event : hook'[f].pc # "idle" => f # e /\ hook'[f] = hook[f]
  BY <1>1, Committed
<1>3. row.status \in Status /\ row.status # "NONE" /\ row.sub # NoSession
  BY StatusesAreStatuses, ConstantsAssumption DEF Status, Session
<1>4. \A r \in Hire : /\ RowInv(r) /\ hire[r].asOf \in Nat /\ hire'[r].asOf \in Nat
                      /\ hire[r].sub \in Monthly \cup {NoSession}
  BY RowFields, ConstantsAssumption DEF MonthInv, RowsInv, TypeInv, TableOK, Row
<1>5. /\ Fresh(e, hook[e].got) /\ hook[e].got.version \in Nat /\ Paid(x)
      /\ \A y \in Monthly : sub[y].version \in Nat
  <2>1. e \in due /\ e.tells = "CHANGE"
    BY <1>1, EventFields DEF MonthInv, TurnInv, HooksDue
  <2>2. Paid(x) /\ Fresh(e, hook[e].got)
    BY <1>1, <2>1 DEF MonthInv, SubInv, TurnInv
  <2>3. QED
    BY <1>1, <2>2, ConstantsAssumption DEF TypeInv, HookOK, StripeOK, Hook, Subscription
<1>6. SubInv'
  BY <1>2 DEF MonthInv, SubInv, Paid
<1>7. TurnInv'
  <2>1. HooksDue'
    BY <1>2 DEF MonthInv, TurnInv, HooksDue
  <2>2. ASSUME NEW f \in SubscriptionEvent, hook'[f].pc \in {"find", "write"}
        PROVE  Fresh(f, hook[f].got)'
    <3>1. hook'[f] = hook[f] /\ Fresh(f, hook[f].got)
      BY <1>1, <1>2, <2>2 DEF MonthInv, TurnInv
    <3>2. QED
      BY <1>2, <3>1 DEF Fresh
  <2>3. ASSUME NEW f \in SubscriptionEvent, NEW g \in SubscriptionEvent, f.of = g.of,
               hook'[f].pc # "idle", hook'[g].pc # "idle"
        PROVE  f = g
    BY <1>1, <1>2, <2>3 DEF MonthInv, TurnInv
  <2>4. QED
    BY <2>1, <2>2, <2>3 DEF TurnInv
<1>8. RowsInv'
  <2>1. RowInv(w)'
    BY <1>2, <1>3 DEF RowInv, Paid
  <2>2. \A r \in Hire \ {w} : RowInv(r)'
    BY <1>2, <1>4 DEF RowInv, Paid
  <2>3. OneRow'
    <3>1. \A r \in Hire \ {w} : Exists(r)' => Exists(r) /\ hire'[r].sub = hire[r].sub
      BY DEF Exists
    <3>2. OneRow
      BY DEF MonthInv, RowsInv
    <3>3. QED
      BY <3>1, <3>2, OneRowKept
  <2>4. ASSUME NEW f \in Event, hook'[f].pc = "write"
        PROVE  FoundInv(f)'
    <3>1. hook'[f] = hook[f] /\ FoundInv(f)
      BY <1>2, <2>4 DEF MonthInv, RowsInv
    <3>2. /\ hook[f].by # 0 => hook[f].by \in Hire /\ hire[hook[f].by].status # "NONE"
          /\ hook[f].linked # 0 => hook[f].linked \in Hire /\ hire[hook[f].linked].status # "NONE"
      BY FoundRow
    <3>3. QED
      BY <1>3, <2>4, <3>1, <3>2 DEF FoundInv
  <2>5. \A f \in Event : FoundInv(f)'
    BY <2>4 DEF FoundInv
  <2>6. QED
    BY <2>1, <2>2, <2>3, <2>5 DEF RowsInv
<1>9. LoneMonth' <=> LoneMonth
  BY <1>2 DEF LoneMonth
<1>10. ASSUME LoneMonth
       PROVE  /\ row.sub = x /\ LoneInv
              /\ hire[w].sub \in {x, NoSession}
              /\ hire[w].sub = x => hire[w].asOf <= hook[e].got.version
              /\ \A y \in Monthly : Paid(y) => y = x
  <2>1. \A y \in Monthly : Paid(y) => y = x
    BY <1>1, <1>5, <1>10 DEF LoneMonth, Paid
  <2>2. LoneInv
    BY <1>10 DEF MonthInv
  <2>3. hire[w].sub \in {x, NoSession}
    BY <1>4, <2>1 DEF RowInv
  <2>4. NotAheadOf(e)
    BY <2>2 DEF LoneInv
  <2>5. QED
    BY <1>10, <2>1, <2>2, <2>3, <2>4 DEF NotAheadOf
<1>11. LoneMonth => LoneInv'
  <2> SUFFICES ASSUME LoneMonth
               PROVE  LoneInv'
    OBVIOUS
  <2>1. NotAhead'
    <3>1. hire'[w].asOf <= sub'[hire'[w].sub].version
      BY <1>2, <1>5, <1>10 DEF Fresh
    <3>2. \A r \in Hire \ {w} : hire'[r].sub # NoSession => hire'[r].asOf <= sub'[hire'[r].sub].version
      BY <1>2, <1>10 DEF LoneInv, NotAhead
    <3>3. QED
      BY <3>1, <3>2 DEF NotAhead
  <2>2. ASSUME NEW f \in SubscriptionEvent, hook'[f].pc \in {"find", "write"}
        PROVE  NotAheadOf(f)'
    <3>1. hook'[f] = hook[f] /\ f # e /\ NotAheadOf(f)
      BY <1>1, <1>2, <1>10, <2>2 DEF LoneInv
    <3>2. f.of # x
      BY <1>1, <2>2, <3>1 DEF MonthInv, TurnInv
    <3>3. ASSUME NEW r \in Hire, hire'[r].sub = f.of
          PROVE  hire'[r].asOf <= hook'[f].got.version
      BY <1>10, <3>1, <3>2, <3>3 DEF NotAheadOf
    <3>4. QED
      BY <3>3 DEF NotAheadOf
  <2>3. ASSUME NEW f \in Event, hook'[f].pc = "write", hook'[f].linked # 0
        PROVE  hire'[hook'[f].linked].sub = f.of
    <3>1. hook'[f] = hook[f] /\ hire[hook[f].linked].sub = f.of /\ FoundInv(f)
      BY <1>2, <1>10, <2>3 DEF LoneInv, MonthInv, RowsInv
    <3>2. hook[f].linked \in Hire /\ f.of # NoSession
      BY <2>3, <3>1, FoundRow DEF FoundInv
    <3>3. CASE hook[f].linked = w
      BY <1>10, <3>1, <3>2, <3>3
    <3>4. CASE hook[f].linked # w
      BY <3>1, <3>2, <3>4
    <3>5. QED
      BY <3>3, <3>4
  <2>4. QED
    BY <2>1, <2>2, <2>3 DEF LoneInv
<1>12. HireIsCurrent'
  <2> SUFFICES ASSUME LoneMonth, NEW y \in Monthly, sub[y].status # "none", Changed(y, sub[y].version) \notin due'
               PROVE  \E r \in OfSubscription(y)' : hire'[r].asOf = sub[y].version /\ hire'[r].status = PeriodStatus(sub[y].status)
    BY <1>2, <1>9 DEF HireIsCurrent, Changed, PeriodStatus
  <2>1. y = x
    BY <1>10 DEF Paid
  <2>2. w \in OfSubscription(x)'
    BY <1>3, <1>10 DEF OfSubscription, Exists
  <2>3. hook[e].got.version = sub[x].version => hook[e].got.status = sub[x].status
    BY <1>5 DEF Fresh
  <2>4. CASE hook[e].got.version = sub[x].version
    BY <2>1, <2>2, <2>3, <2>4
  <2>5. CASE hook[e].got.version # sub[x].version
    <3>1. hook[e].got.version < sub[x].version /\ e.version # sub[x].version
      BY <1>1, <1>5, <2>5 DEF Fresh
    <3>2. Changed(x, sub[x].version) # e
      BY <3>1 DEF Changed
    <3>3. Changed(x, sub[x].version) \notin due
      BY <1>2, <2>1, <3>2
    <3>4. PICK r \in OfSubscription(x) : hire[r].asOf = sub[x].version /\ hire[r].status = PeriodStatus(sub[x].status)
      BY <2>1, <3>3 DEF MonthInv, HireIsCurrent
    <3>5. r \in Hire /\ Exists(r) /\ hire[r].sub = x
      BY <3>4, RowsExist
    <3>6. r # w
      BY <1>5, <1>10, <3>1, <3>4, <3>5
    <3>7. hire'[r] = hire[r] /\ r \in OfSubscription(x)'
      BY <3>5, <3>6 DEF OfSubscription, Exists
    <3>8. QED
      BY <2>1, <3>4, <3>7
  <2>6. QED
    BY <2>4, <2>5
<1>13. ASSUME LoneMonth, NEW r \in Hire, hire[r].sub # NoSession, hire'[r].sub = hire[r].sub
       PROVE  hire'[r].asOf >= hire[r].asOf
  <2>1. CASE r = w
    BY <1>4, <1>5, <1>10, <1>13, <2>1
  <2>2. CASE r # w
    BY <1>4, <2>2
  <2>3. QED
    BY <2>1, <2>2
<1>14. QED
  BY <1>6, <1>7, <1>8, <1>9, <1>11, <1>12, <1>13 DEF MonthInv

LEMMA ApplyKeepsMonth ==
  ASSUME TypeInv, TypeInv', MonthInv, NEW e \in Event, ApplySubscription(e)
  PROVE  /\ MonthInv'
         /\ LoneMonth => \A r \in Hire : hire[r].sub # NoSession /\ hire'[r].sub = hire[r].sub
                           => hire'[r].asOf >= hire[r].asOf
<1> DEFINE x == e.of  status == PeriodStatus(hook[e].got.status)  asOf == hook[e].got.version
           Goal == /\ MonthInv'
                   /\ LoneMonth => \A r \in Hire : hire[r].sub # NoSession /\ hire'[r].sub = hire[r].sub
                                     => hire'[r].asOf >= hire[r].asOf
<1>1. /\ e \in SubscriptionEvent /\ hook[e].pc = "write" /\ Commit(e) /\ x \in Monthly /\ x \notin Daily /\ x # NoSession
      /\ FoundInv(e) /\ Paid(x) /\ \A r \in Hire : RowInv(r)
  <2>1. e \in SubscriptionEvent /\ hook[e].pc = "write" /\ Commit(e)
    BY DEF ApplySubscription, Working
  <2>2. e \in due /\ e.tells = "CHANGE" /\ x \in Monthly
    BY <2>1, EventFields DEF MonthInv, TurnInv, HooksDue
  <2>3. QED
    BY <2>1, <2>2, ConstantsAssumption DEF MonthInv, SubInv, RowsInv, Session
<1>2. status \in Status \cup {"DELETED"} /\ status \in Status /\ asOf \in 0..MaxVersion
  BY StatusesAreStatuses, FoundRow DEF Hook, Subscription
<1>3. ASSUME NEW w \in Hire, NEW row \in Row, hire'[w] = row, \A r \in Hire \ {w} : hire'[r] = hire[r],
             row.status = status, row.asOf = asOf,
             row.sub \in Monthly, Paid(row.sub), row.session \notin Daily,
             hire[w].status # "NONE" => hire[w].session \notin Daily,
             (Exists(w) /\ row.sub = hire[w].sub) \/ OfSubscription(row.sub) \subseteq {w},
             LoneMonth => row.sub = x
      PROVE  Goal
  BY <1>1, <1>3, StateWritten
<1> HIDE DEF Goal, status, asOf
<1>4. ASSUME NEW w \in {hook[e].linked}, w # 0, Exists(w), hire' = [hire EXCEPT ![w] = Told(@, status, @.sub, asOf)]
      PROVE  Goal
  <2> DEFINE row == Told(hire[w], status, hire[w].sub, asOf)
  <2>1. w \in Hire /\ hire[w].session \notin Daily /\ hire[w].sub # NoSession
    BY <1>1, <1>4, FoundRow DEF FoundInv
  <2>2. hire[w] \in Row /\ hire[w].sub \in Monthly /\ Paid(hire[w].sub)
    BY <1>1, <2>1, RowFields DEF RowInv
  <2>3. row \in Row /\ row.status = status /\ row.asOf = asOf /\ row.sub = hire[w].sub /\ row.session = hire[w].session
    <3>1. hire[w].sub \in Monthly \cup {NoSession}
      BY <2>2
    <3>2. QED
      BY <1>2, <2>2, <3>1, ToldFields
  <2>4. hire'[w] = row /\ \A r \in Hire \ {w} : hire'[r] = hire[r]
    BY <1>4, <2>1 DEF TypeInv, TableOK
  <2>5. LoneMonth => hire[w].sub = x
    BY <1>1, <1>4 DEF MonthInv, LoneInv
  <2> HIDE DEF row
  <2>6. QED
    BY <1>3, <1>4, <2>1, <2>2, <2>3, <2>4, <2>5
<1>5. ASSUME NEW w \in {hook[e].by}, w # 0, Exists(w), OfSubscription(x) \subseteq {w},
             hire' = [hire EXCEPT ![w] = Told(@, status, x, asOf)]
      PROVE  Goal
  <2> DEFINE row == Told(hire[w], status, x, asOf)
  <2>1. w \in Hire /\ hire[w].session \notin Daily /\ hire[w] \in Row
    BY <1>1, <1>5, FoundRow DEF FoundInv
  <2>2. row \in Row /\ row.status = status /\ row.asOf = asOf /\ row.sub = x /\ row.session = hire[w].session
    <3>1. x \in Monthly \cup {NoSession}
      BY <1>1
    <3>2. QED
      BY <1>2, <2>1, <3>1, ToldFields
  <2>3. hire'[w] = row /\ \A r \in Hire \ {w} : hire'[r] = hire[r]
    BY <1>5, <2>1 DEF TypeInv, TableOK
  <2> HIDE DEF row
  <2>4. QED
    BY <1>1, <1>3, <1>5, <2>1, <2>2, <2>3
<1>6. ASSUME OfSubscription(x) = {}, Create([status |-> status, session |-> NoSession, sub |-> x, asOf |-> asOf])
      PROVE  Goal
  <2> DEFINE row == [status |-> status, session |-> NoSession, sub |-> x, asOf |-> asOf]
  <2>1. /\ row \in Row /\ row.status = status /\ row.status # "NONE" /\ row.asOf = asOf /\ row.sub = x
        /\ row.session = NoSession /\ NoSession \notin Daily
    BY <1>1, <1>2, ConstantsAssumption DEF Row, Status, Session
  <2>2. Create(row)
    BY <1>6
  <2> HIDE DEF row
  <2>3. PICK w \in Hire : hire'[w] = row /\ hire[w].status = "NONE" /\ \A r \in Hire \ {w} : hire'[r] = hire[r]
    BY <2>1, <2>2, Created DEF TypeInv
  <2>4. QED
    BY <1>1, <1>3, <1>6, <2>1, <2>3
<1>7. Goal
  BY <1>4, <1>5, <1>6 DEF ApplySubscription, status, asOf
<1>8. QED
  BY <1>7 DEF Goal

LEMMA FindBySessionKeepsMonth ==
  ASSUME TypeInv, MonthInv, NEW e \in Event, NEW by \in {0} \cup Hire, NEW linked \in {0} \cup Hire,
         FindBySession(e, by, linked)
  PROVE  MonthInv'
<1> DEFINE h == [pc |-> "write", got |-> NoSub, by |-> by, linked |-> linked,
                 read |-> IF by = 0 THEN "NONE" ELSE hire[by].status]
<1>1. hook' = [hook EXCEPT ![e] = h] /\ UNCHANGED <<session, sub, due, hire>>
  BY DEF FindBySession, stripe, table
<1>2. e \in due /\ e \in SessionEvent /\ e \notin SubscriptionEvent /\ e.of \in Session
  BY EventFields DEF FindBySession
<1>3. by # 0 => by \in Hire /\ hire[by].status \in Status /\ hire[by].session = e.of
  BY RowsExist DEF FindBySession, Finds, Exists
<1>4. linked # 0 => /\ linked \in Hire /\ e.of \in Monthly /\ e.tells = "PAID" /\ hire[linked].sub = e.of
                    /\ e.of # NoSession
  BY RowsExist, ConstantsAssumption DEF FindBySession, Finds, SubscriptionOf, Session
<1>5. linked # 0 => hire[linked].session \notin Daily
  BY <1>4 DEF MonthInv, RowsInv, RowInv
<1>6. h \in Hook /\ h.pc = "write" /\ h.by = by /\ h.linked = linked
  BY <1>3, HookStates DEF Hook
<1> HIDE DEF h
<1>7. QED
  BY <1>1, <1>2, <1>3, <1>4, <1>5, <1>6, TurnKeepsMonth

LEMMA FindBySubscriptionKeepsMonth ==
  ASSUME TypeInv, MonthInv, NEW e \in Event, NEW by \in {0} \cup Hire, NEW linked \in {0} \cup Hire,
         FindBySubscription(e, by, linked)
  PROVE  MonthInv'
<1> DEFINE h == [pc |-> "write", got |-> hook[e].got, by |-> by, linked |-> linked, read |-> "NONE"]
<1>1. hook' = [hook EXCEPT ![e] = h] /\ UNCHANGED <<session, sub, due, hire>> /\ hook[e].pc = "find"
  BY DEF FindBySubscription, stripe, table, Working
<1>2. /\ e \in SubscriptionEvent /\ e.of \in Monthly /\ e.of \notin Daily /\ e.of # NoSession /\ e.tells = "CHANGE"
      /\ e \in due
  BY <1>1, EventFields, ConstantsAssumption DEF TypeInv, HookOK, MonthInv, TurnInv, HooksDue, Session
<1>3. h \in Hook /\ h.pc = "write" /\ h.by = by /\ h.linked = linked /\ h.got = hook[e].got
  BY DEF Hook, TypeInv, HookOK
<1>4. by # 0 => by \in Hire /\ hire[by].session \notin Daily
  <2>1. by # 0 => by \in Latest
    BY DEF FindBySubscription, Finds
  <2>2. QED
    BY <2>1, RowsExist, ConstantsAssumption DEF Session
<1>5. linked # 0 => linked \in Hire /\ hire[linked].sub = e.of
  BY RowsExist DEF FindBySubscription, Finds
<1>6. linked # 0 => hire[linked].session \notin Daily
  BY <1>2, <1>5 DEF MonthInv, RowsInv, RowInv
<1>7. Fresh(e, h.got) /\ \A f \in SubscriptionEvent : f.of = e.of /\ hook[f].pc # "idle" => f = e
  BY <1>1, <1>2, <1>3 DEF MonthInv, TurnInv
<1>8. LoneMonth => \A r \in Hire : hire[r].sub = e.of => hire[r].asOf <= h.got.version
  BY <1>1, <1>2, <1>3 DEF MonthInv, LoneInv, NotAheadOf
<1> HIDE DEF h
<1>9. QED
  BY <1>1, <1>2, <1>3, <1>4, <1>5, <1>6, <1>7, <1>8, TurnKeepsMonth

LEMMA TurnsKeepMonth ==
  ASSUME TypeInv, MonthInv, NEW e \in Event,
         LockSubscription(e) \/ FetchSubscription(e) \/ FetchFails(e) \/ Refused(e) \/ HookDies(e)
  PROVE  MonthInv'
<1>1. UNCHANGED <<session, sub, due, hire>>
  BY DEF LockSubscription, FetchSubscription, FetchFails, Refused, HookDies, stripe, table
<1>2. CASE hook' = [hook EXCEPT ![e] = Idle]
  <2> DEFINE h == Idle
  <2>1. h \in Hook /\ h.pc = "idle" /\ hook' = [hook EXCEPT ![e] = h]
    BY <1>2, HookStates
  <2> HIDE DEF h
  <2>2. QED
    BY <1>1, <2>1, TurnKeepsMonth
<1>3. CASE LockSubscription(e)
  <2> DEFINE h == Locked
  <2>1. h \in Hook /\ h.pc = "fetch" /\ hook' = [hook EXCEPT ![e] = h]
    BY <1>3, HookStates DEF LockSubscription
  <2>2. e \in due /\ \A f \in SubscriptionEvent : f.of = e.of => hook[f].pc = "idle"
    BY <1>3 DEF LockSubscription, Working
  <2> HIDE DEF h
  <2>3. QED
    BY <1>1, <2>1, <2>2, TurnKeepsMonth
<1>4. CASE FetchSubscription(e)
  <2> DEFINE h == Fetched(sub[e.of])
  <2>1. e \in SubscriptionEvent /\ hook[e].pc = "fetch" /\ e.of \in Monthly /\ e \in due
    BY <1>4, EventFields DEF TypeInv, HookOK, FetchSubscription, Working, MonthInv, TurnInv, HooksDue
  <2>2. sub[e.of] \in Subscription /\ e.version \in Nat
    BY <2>1, EventFields, ConstantsAssumption DEF TypeInv, StripeOK
  <2>3. h \in Hook /\ h.pc = "find" /\ h.got = sub[e.of] /\ hook' = [hook EXCEPT ![e] = h]
    BY <1>4, <2>2, HookStates DEF FetchSubscription
  <2> HIDE DEF h
  <2>4. Fresh(e, h.got)
    <3>1. e.version <= sub[e.of].version
      BY <2>1 DEF MonthInv, SubInv
    <3>2. sub[e.of].version \in Nat
      BY <2>2, ConstantsAssumption DEF Subscription
    <3>3. QED
      BY <2>3, <3>1, <3>2 DEF Fresh
  <2>5. \A f \in SubscriptionEvent : f.of = e.of /\ hook[f].pc # "idle" => f = e
    BY <2>1 DEF MonthInv, TurnInv
  <2>6. ASSUME LoneMonth, NEW r \in Hire, hire[r].sub = e.of
        PROVE  hire[r].asOf <= h.got.version
    <3>1. e.of # NoSession
      BY <2>1, ConstantsAssumption DEF Session
    <3>2. QED
      BY <2>3, <2>6, <3>1 DEF MonthInv, LoneInv, NotAhead
  <2>7. QED
    BY <1>1, <2>1, <2>3, <2>4, <2>5, <2>6, TurnKeepsMonth
<1>5. QED
  BY <1>2, <1>3, <1>4 DEF FetchFails, Refused, HookDies

\* A session of any plan is over, or one of a day goes on; no subscription changes.
LEMMA SessionKeepsMonth ==
  ASSUME TypeInv, TypeInv', MonthInv, UNCHANGED <<sub, hire, hook>>, NEW s \in Session,
         NEW what \in {"EXPIRED", "PROCESSING", "PAID", "FAILED"},
         s \in Monthly => what = "EXPIRED" /\ session[s] # "PAID",
         session' = [session EXCEPT ![s] = what], due' = due \cup {Tell(s, what)}
  PROVE  MonthInv'
<1>1. /\ Tell(s, what) \in SessionEvent /\ Tell(s, what) \notin SubscriptionEvent
      /\ Tell(s, what).of = s /\ Tell(s, what).tells = what
  BY TellIsEvent, EventFields
<1>2. ASSUME NEW x \in Monthly
      PROVE  session'[x] # "PROCESSING" /\ (sub'[x].status # "none" => session'[x] = "PAID")
  <2>1. session'[x] = IF x = s THEN what ELSE session[x]
    BY DEF TypeInv, StripeOK, Session
  <2>2. session[x] # "PROCESSING" /\ (sub[x].status # "none" => session[x] = "PAID")
    BY DEF MonthInv, SubInv, Paid
  <2>3. QED
    BY <2>1, <2>2
<1>3. ASSUME NEW e \in due' \ due
      PROVE  /\ e \notin SubscriptionEvent
             /\ ~(e.of \in Monthly /\ e.tells \in {"PAID", "CHANGE"})
  BY <1>1
<1>4. StripeOK' /\ due \subseteq due'
  BY DEF TypeInv
<1>5. QED
  BY <1>2, <1>3, <1>4, StripeKeepsMonth

LEMMA ProviderKeepsMonth ==
  ASSUME TypeInv, TypeInv', MonthInv, Provider
  PROVE  MonthInv'
<1>1. StripeOK /\ StripeOK' /\ UNCHANGED <<hire, hook>>
  BY DEF TypeInv, Provider, Pay, PaymentSettles, SessionLapses, SubscriptionChanges, table
<1>2. /\ Monthly \subseteq Session
      /\ \A x \in Monthly : /\ session[x] # "PROCESSING" /\ (Paid(x) <=> sub[x].version > 0)
                            /\ (Paid(x) => session[x] = "PAID")
      /\ \A x \in Monthly : sub[x].version \in Nat
  BY ConstantsAssumption DEF Session, MonthInv, SubInv, TypeInv, StripeOK, Subscription
<1>3. ASSUME NEW s \in Session, NEW status \in {"PAID", "PROCESSING"}, Pay(s, status)
      PROVE  MonthInv'
  <2>1. CASE s \notin Monthly
    BY <1>1, <1>3, <2>1, SessionKeepsMonth DEF Pay
  <2>2. CASE s \in Monthly
    <3> DEFINE new == [status |-> "active", version |-> 1]
    <3>1. /\ status = "PAID" /\ session' = [session EXCEPT ![s] = status] /\ session[s] = "OPEN"
          /\ sub' = [sub EXCEPT ![s] = new] /\ due' = due \cup {Tell(s, status), Changed(s, 1)}
      BY <1>3, <2>2 DEF Pay
    <3>2. new.status = "active" /\ new.version = 1
      OBVIOUS
    <3> HIDE DEF new
    <3>3. Tell(s, status) \notin SubscriptionEvent /\ Tell(s, status).of = s
      BY TellIsEvent, EventFields
    <3>4. Changed(s, 1).of = s /\ Changed(s, 1).version = 1
      BY <2>2, ChangedIsEvent, ConstantsAssumption
    <3>5. sub'[s] = new /\ \A x \in Monthly \ {s} : sub'[x] = sub[x]
      BY <1>1, <2>2, <3>1 DEF StripeOK
    <3>6. sub[s].version = 0
      BY <1>2, <2>2, <3>1
    <3>7. session'[s] = "PAID" /\ \A x \in Monthly \ {s} : session'[x] = session[x]
      BY <1>1, <1>2, <2>2, <3>1 DEF StripeOK
    <3>8. \A x \in Monthly : session'[x] # "PROCESSING" /\ (sub'[x].status # "none" => session'[x] = "PAID")
      BY <1>2, <3>5, <3>7 DEF Paid
    <3>9. \A x \in Monthly : \/ sub'[x] = sub[x]
                             \/ /\ sub'[x].version > sub[x].version /\ sub'[x].status # "none"
                                /\ Changed(x, sub'[x].version) \in due'
      BY <3>1, <3>2, <3>5, <3>6
    <3>10. \A e \in due' \ due : e \in {Tell(s, status), Changed(s, 1)}
      BY <3>1
    <3>11. ASSUME NEW e \in due' \ due
           PROVE  /\ e \in SubscriptionEvent => e.version <= sub'[e.of].version
                  /\ sub'[e.of].status # "none"
      BY <3>2, <3>3, <3>4, <3>5, <3>10
    <3>12. due \subseteq due'
      BY <3>1
    <3>13. QED
      BY <1>1, <3>8, <3>9, <3>11, <3>12, StripeKeepsMonth
  <2>3. QED
    BY <2>1, <2>2
<1>4. ASSUME NEW s \in Session, NEW status \in {"PAID", "FAILED"}, PaymentSettles(s, status)
      PROVE  MonthInv'
  <2>1. s \notin Monthly
    BY <1>2, <1>4 DEF PaymentSettles
  <2>2. QED
    BY <1>1, <1>4, <2>1, SessionKeepsMonth DEF PaymentSettles
<1>5. ASSUME NEW s \in Session, SessionLapses(s)
      PROVE  MonthInv'
  BY <1>1, <1>5, SessionKeepsMonth DEF SessionLapses, Expire
<1>6. ASSUME NEW x \in Monthly, NEW status \in {"active", "past_due", "canceled"}, SubscriptionChanges(x, status)
      PROVE  MonthInv'
  <2> DEFINE n == sub[x].version + 1
             new == [status |-> status, version |-> n]
  <2>1. /\ sub' = [sub EXCEPT ![x] = new] /\ due' = due \cup {Changed(x, n)} /\ UNCHANGED session
        /\ sub[x].status # "none" /\ sub[x].version < MaxVersion
    BY <1>6 DEF SubscriptionChanges
  <2>2. new.status # "none" /\ new.version = n
    OBVIOUS
  <2> HIDE DEF new
  <2>3. n \in 1..MaxVersion /\ n > sub[x].version
    BY <1>2, <2>1, ConstantsAssumption
  <2>4. Changed(x, n).of = x /\ Changed(x, n).version = n
    BY <2>3, ChangedIsEvent
  <2>5. sub'[x] = new /\ \A y \in Monthly \ {x} : sub'[y] = sub[y]
    BY <1>1, <2>1 DEF StripeOK
  <2>6. \A y \in Monthly : session'[y] # "PROCESSING" /\ (sub'[y].status # "none" => session'[y] = "PAID")
    BY <1>2, <2>1, <2>5 DEF Paid
  <2> HIDE DEF n
  <2>7. \A y \in Monthly : \/ sub'[y] = sub[y]
                           \/ /\ sub'[y].version > sub[y].version /\ sub'[y].status # "none"
                              /\ Changed(y, sub'[y].version) \in due'
    BY <2>1, <2>2, <2>3, <2>5
  <2>8. ASSUME NEW e \in due' \ due
        PROVE  /\ e \in SubscriptionEvent => e.version <= sub'[e.of].version
               /\ sub'[e.of].status # "none"
    <3>1. e = Changed(x, n)
      BY <2>1
    <3>2. QED
      BY <2>2, <2>3, <2>4, <2>5, <3>1
  <2>9. due \subseteq due'
    BY <2>1
  <2>10. QED
    BY <1>1, <2>6, <2>7, <2>8, <2>9, StripeKeepsMonth
<1>7. QED
  BY <1>3, <1>4, <1>5, <1>6 DEF Provider

LEMMA CheckoutKeepsMonth ==
  ASSUME TypeInv, TypeInv', MonthInv, NEW d \in Desk, Checkout(d)
  PROVE  MonthInv'
<1>1. CASE UNCHANGED <<stripe, table, hook>>
  BY <1>1, MonthFrame DEF stripe, table
<1>2. CASE PersistHire(d)
  BY <1>2, PersistKeepsMonth
<1>3. ASSUME NEW s \in Session, Expire(s), UNCHANGED <<hire, hook>>
      PROVE  MonthInv'
  BY <1>3, SessionKeepsMonth DEF Expire
<1>4. ASSUME NEW s \in Session, CreateSession(d, s)
      PROVE  MonthInv'
  <2>1. session' = [session EXCEPT ![s] = "OPEN"] /\ session[s] = "NONE" /\ UNCHANGED <<sub, due, hire, hook>>
    BY <1>4 DEF CreateSession, table
  <2>2. ASSUME NEW x \in Monthly
        PROVE  session'[x] # "PROCESSING" /\ (sub'[x].status # "none" => session'[x] = "PAID")
    <3>1. session'[x] = IF x = s THEN "OPEN" ELSE session[x]
      BY <2>1 DEF TypeInv, StripeOK, Session
    <3>2. session[x] # "PROCESSING" /\ (sub[x].status # "none" => session[x] = "PAID")
      BY DEF MonthInv, SubInv, Paid
    <3>3. QED
      BY <2>1, <3>1, <3>2
  <2>3. StripeOK' /\ due \subseteq due' /\ due' \ due = {}
    BY <2>1 DEF TypeInv
  <2>4. QED
    BY <2>1, <2>2, <2>3, StripeKeepsMonth
<1>5. ASSUME NEW s \in Session, CloseOne(d, s)
      PROVE  MonthInv'
  BY <1>1, <1>3, <1>5 DEF CloseOne, Leave, table
<1>6. QED
  BY <1>1, <1>2, <1>4, <1>5 DEF Checkout, BeginCheckout, ListSessions, PersistTooLate, CheckoutFails, CheckoutTimesOut, Leave

LEMMA MonthKept ==
  ASSUME TypeInv, TypeInv', MonthInv, [Next]_vars
  PROVE  MonthInv'
<1>1. CASE UNCHANGED vars
  BY <1>1, MonthFrame DEF vars, stripe, table
<1>2. CASE Provider
  BY <1>2, ProviderKeepsMonth
<1>3. ASSUME NEW e \in Event, Handles(e) \/ FetchFails(e) \/ HookDies(e)
      PROVE  MonthInv'
  BY <1>3, FindBySessionKeepsMonth, FindBySubscriptionKeepsMonth, TurnsKeepMonth, ApplyDayKeepsMonth,
     LinkKeepsMonth, ApplyKeepsMonth DEF Handles
<1>4. due \subseteq Event
  BY DEF TypeInv, StripeOK
<1>5. QED
  BY <1>1, <1>2, <1>3, <1>4, CheckoutKeepsMonth, ExpiryKeepsMonth DEF Next

\* No row goes back, while one month at most was paid.
RowsGoOn ==
  LoneMonth => \A r \in Hire : hire[r].sub # NoSession /\ hire'[r].sub = hire[r].sub
                 => hire'[r].asOf >= hire[r].asOf

LEMMA SameAsOf ==
  ASSUME TypeInv, \A r \in Hire : hire[r].sub = NoSession \/ hire'[r].asOf = hire[r].asOf
  PROVE  RowsGoOn
<1>1. \A r \in Hire : hire[r].asOf \in Nat
  BY RowFields, ConstantsAssumption
<1>2. QED
  BY <1>1 DEF RowsGoOn

LEMMA CreatedGoesOn ==
  ASSUME TypeInv, MonthInv, NEW row \in Row, row.status # "NONE", Create(row)
  PROVE  RowsGoOn
<1>1. PICK w \in Hire : hire[w].status = "NONE" /\ \A r \in Hire \ {w} : hire'[r] = hire[r]
  BY Created DEF TypeInv
<1>2. hire[w].sub = NoSession
  BY <1>1 DEF MonthInv, RowsInv, RowInv
<1>3. QED
  BY <1>1, <1>2, SameAsOf

\* Only the fetched state of a subscription moves a row, and ApplyKeepsMonth bounds it.
LEMMA RowsOnlyGoOn ==
  ASSUME TypeInv, TypeInv', MonthInv, [Next]_vars
  PROVE  RowsGoOn
<1>1. hire \in [Hire -> Row] /\ NoSession \in Monthly \cup {NoSession} /\ 0 \in 0..MaxVersion
  BY ConstantsAssumption DEF TypeInv, TableOK
<1>2. CASE UNCHANGED hire
  BY <1>2, SameAsOf
<1>3. ASSUME NEW d \in Desk, PersistHire(d)
      PROVE  RowsGoOn
  <2> DEFINE row == Pending(desk[d].keep, NoSession)
  <2>1. desk[d].keep \in Session
    BY <1>3 DEF TypeInv, DeskOK, PersistHire, At
  <2>2. row \in Row /\ row.status # "NONE"
    BY <1>1, <2>1, PendingFields
  <2>3. Create(row) \/ UNCHANGED hire
    BY <1>3 DEF PersistHire, table
  <2> HIDE DEF row
  <2>4. QED
    BY <1>2, <2>2, <2>3, CreatedGoesOn
<1>4. ASSUME NEW e \in Event, ApplyDay(e)
      PROVE  RowsGoOn
  <2>1. e.of \in Session
    BY <1>4, EventFields
  <2>2. ASSUME NEW by \in {hook[e].by}, NEW t \in Status,
               hire' = [hire EXCEPT ![by] = Told(@, t, @.sub, @.asOf)]
        PROVE  \A r \in Hire : hire'[r].asOf = hire[r].asOf
    BY <1>1, <2>2 DEF Told
  <2>3. CASE \E t \in Status : hire' = [hire EXCEPT ![hook[e].by] = Told(@, t, @.sub, @.asOf)]
    BY <2>2, <2>3, SameAsOf
  <2>4. CASE Create(Told(Pending(e.of, NoSession), OneTime(e.tells), NoSession, 0))
    <3> DEFINE row == Told(Pending(e.of, NoSession), OneTime(e.tells), NoSession, 0)
    <3>1. Pending(e.of, NoSession) \in Row
      BY <1>1, <2>1, PendingFields
    <3>2. OneTime(e.tells) \in Status \cup {"DELETED"}
      BY StatusesAreStatuses
    <3>3. row \in Row /\ row.status # "NONE"
      BY <1>1, <3>1, <3>2, ToldTyped
    <3>4. Create(row)
      BY <2>4
    <3> HIDE DEF row
    <3>5. QED
      BY <3>3, <3>4, CreatedGoesOn
  <2>5. QED
    BY <1>4, <2>3, <2>4, StatusesAreStatuses DEF ApplyDay
<1>5. ASSUME NEW e \in Event, LinkMonth(e)
      PROVE  RowsGoOn
  <2> DEFINE s == e.of  x == SubscriptionOf(e)  by == hook[e].by  linked == hook[e].linked
  <2>1. s \in Session /\ x \in Monthly \cup {NoSession}
    BY <1>5, EventFields DEF SubscriptionOf
  <2>2. CASE hire' = [hire EXCEPT ![by] = Linked(@, @.session, IF x = NoSession THEN @.sub ELSE x)]
    <3>1. \A r \in Hire : hire'[r].asOf = hire[r].asOf
      BY <1>1, <2>2 DEF Linked
    <3>2. QED
      BY <3>1, SameAsOf
  <2>3. CASE hire' = [r \in Hire |-> IF r = by THEN Told(hire[r], "DELETED", hire[r].sub, hire[r].asOf)
                               ELSE IF r = linked THEN Linked(hire[r], s, hire[r].sub) ELSE hire[r]]
    <3>1. \A r \in Hire : hire'[r].asOf = hire[r].asOf
      BY <1>1, <2>3 DEF Linked, Told
    <3>2. QED
      BY <3>1, SameAsOf
  <2>4. CASE hire' = [hire EXCEPT ![linked] = Linked(@, s, @.sub)]
    <3>1. \A r \in Hire : hire'[r].asOf = hire[r].asOf
      BY <1>1, <2>4 DEF Linked
    <3>2. QED
      BY <3>1, SameAsOf
  <2>5. CASE Create(Pending(s, x))
    <3> DEFINE row == Pending(s, x)
    <3>1. row \in Row /\ row.status # "NONE"
      BY <2>1, PendingFields
    <3>2. Create(row)
      BY <2>5
    <3> HIDE DEF row
    <3>3. QED
      BY <3>1, <3>2, CreatedGoesOn
  <2>6. QED
    BY <1>5, <2>2, <2>3, <2>4, <2>5 DEF LinkMonth
<1>6. ASSUME NEW e \in Event, ApplySubscription(e)
      PROVE  RowsGoOn
  BY <1>6, ApplyKeepsMonth DEF RowsGoOn
<1>7. ASSUME NEW r \in Hire, HireExpires(r)
      PROVE  RowsGoOn
  <2>1. \A q \in Hire : hire'[q].asOf = hire[q].asOf
    BY <1>1, <1>7 DEF HireExpires, Told
  <2>2. QED
    BY <2>1, SameAsOf
<1>8. ASSUME NEW e \in Event, Handles(e) \/ FetchFails(e) \/ HookDies(e)
      PROVE  RowsGoOn
  BY <1>2, <1>4, <1>5, <1>6, <1>8 DEF Handles, FindBySession, FindBySubscription, LockSubscription,
     FetchSubscription, FetchFails, HookDies, Refused, table
<1>9. ASSUME NEW d \in Desk, Checkout(d)
      PROVE  RowsGoOn
  BY <1>2, <1>3, <1>9 DEF Checkout, BeginCheckout, ListSessions, CloseOne, CreateSession, PersistTooLate,
     CheckoutFails, CheckoutTimesOut, Leave, table
<1>10. Provider \/ UNCHANGED vars => UNCHANGED hire
  BY DEF Provider, Pay, PaymentSettles, SessionLapses, SubscriptionChanges, vars, table
<1>11. due \subseteq Event
  BY DEF TypeInv, StripeOK
<1>12. QED
  BY <1>2, <1>7, <1>8, <1>9, <1>10, <1>11 DEF Next

LEMMA MonthHolds == Spec => []MonthInv
  BY TypeHolds, TypeKept, MonthInit, MonthKept, PTL DEF Spec

\* No change of a subscription is lost: once its event is recorded the hire tells of it.
\* True for any number of months, events, rows and deaths, while at most one month was paid.
THEOREM HiresAreCurrent == Spec => []HireIsCurrent
<1>1. MonthInv => HireIsCurrent
  BY DEF MonthInv
<1>2. QED
  BY <1>1, MonthHolds, PTL

\* A hire never goes back to an earlier state of its subscription, in whatever order the
\* events come.
THEOREM HiresNeverGoBack == Spec => NeverOlder
<1>1. TypeInv /\ TypeInv' /\ MonthInv /\ [Next]_vars => [RowsGoOn]_vars
  BY RowsOnlyGoOn
<1>2. QED
  BY <1>1, TypeHolds, MonthHolds, PTL DEF Spec, NeverOlder, RowsGoOn

=============================================================================
