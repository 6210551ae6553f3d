--------------------------- MODULE BoqFinalization ---------------------------
(***************************************************************************)
(* The revisions of one project's bill of quantities (BOQ): editing,       *)
(* verification, finalisation ("lock") and forking of revisions, as done   *)
(* by concurrent HTTP requests against PostgreSQL.                         *)
(*                                                                         *)
(* A request reads outside any transaction and later runs one transaction  *)
(* that claims the BOQ row by its version.  Prisma reads a record and the  *)
(* records it includes with one query each, so a read is two steps here:   *)
(*   - document reads (getBOQRecord) read the BOQ row first, then the      *)
(*     sections and items;                                                 *)
(*   - item reads (getItemRecord) read the item first, then the BOQ row.   *)
(* A transaction is one step: every writer of items updates the BOQ row    *)
(* first, and the multi-row readers are SERIALIZABLE.                      *)
(***************************************************************************)
EXTENDS Naturals, FiniteSets

CONSTANTS
  Request,          \* requests in flight
  MaxRevision,      \* bound: revisions of the project
  MaxVersion,       \* bound: versions of one revision
  Line,             \* places an item can take in a revision
  Section,          \* section codes
  Template,         \* the sections createProjectBOQ starts with
  SectionOf,        \* the section each line belongs to
  TayqanSection,    \* the section the TAYQAN work order inserts
  Qty, Rate,        \* quantities and selling rates, as data
  Critical,         \* the rates verification reports as CRITICAL
  OnTrial,          \* the company is on the trial plan
  MaxCompletedBoqs, \* TRIAL_LIMITS.maxCompletedBoqs
  Absent, Deleted,  \* a line never used, a line whose item was deleted
  Unverified,       \* evidence of source type LEGACY_UNVERIFIED
  NoPlace,          \* evidence that cites no source row
  NoSnapshot        \* no revision snapshot was recorded

Rev == 1..MaxRevision
Place == Rev \X Line

Evidence(Value) == [value: Value \cup {Unverified}, source: Place \cup {NoPlace}]

\* changed: the BOQ version whose transaction last wrote the row (updatedAt).
Item == [qty: Qty, rate: Rate, qtyEvidence: Evidence(Qty),
         rateEvidence: Evidence(Rate), changed: Nat]

Contents == [Line -> Item \cup {Absent, Deleted}]
Nothing == [l \in Line |-> Absent]

\* A critical verification exception; at: the version current when resolved.
Exception == [line: Line, value: Rate, resolved: BOOLEAN, at: Nat]

ASSUME ConstantsAssumption ==
  /\ MaxRevision \in Nat \ {0} /\ MaxVersion \in Nat \ {0}
  /\ IsFiniteSet(Request)
  /\ MaxCompletedBoqs \in Nat /\ OnTrial \in BOOLEAN
  /\ Qty \subseteq Nat /\ Rate \subseteq Nat /\ Critical \subseteq Rate
  /\ Template \subseteq Section /\ TayqanSection \in Section
  /\ SectionOf \in [Line -> Section]

ASSUME AtomsAssumption ==
  /\ Absent # Deleted /\ Absent \notin Item /\ Deleted \notin Item
  /\ Unverified \notin Qty \cup Rate
  /\ NoPlace \notin Place
  /\ NoSnapshot \notin [sections: SUBSET Section, items: Contents]

VARIABLES
  version,         \* BOQ.version, 0 while the revision does not exist
  verified,        \* BOQ.verifiedVersion, 0 for null
  locked,          \* BOQ.isLocked (status LOCKED is set with it)
  priced,          \* BOQ.pricingMode = PRICED
  sections,        \* the section codes of each revision
  items,           \* the items of each revision with their evidence rows
  exceptions,      \* the critical verification exceptions
  snapshot,        \* BOQRevisionSnapshot with its frozen evidence
  currentRevision, \* Project.currentRevisionNumber
  completed,       \* CompanyTrialUsage.boqsCompleted
  pc, seen,        \* where each request is, and what it has read
  attested         \* history: places whose quantity evidence a person gave

boqVars == <<version, verified, locked, priced, sections, items, exceptions,
             snapshot, currentRevision>>
requestVars == <<pc, seen>>
vars == <<boqVars, completed, requestVars, attested>>

PC == {"idle", "itemRead", "itemReady", "docRead", "docReady",
       "tayqanChecked", "lockCheck", "lockTx", "record"}

Seen == [rev: Rev, version: Nat, priced: BOOLEAN, items: Contents]
NothingSeen == [rev |-> 1, version |-> 0, priced |-> TRUE, items |-> Nothing]

Exists(r) == version[r] > 0
Live(its) == {l \in Line : its[l] \in Item}
Latest(r) == Exists(r) /\ \A s \in Rev : Exists(s) => s <= r

TypeOK ==
  /\ version \in [Rev -> Nat] /\ verified \in [Rev -> Nat]
  /\ locked \in [Rev -> BOOLEAN] /\ priced \in [Rev -> BOOLEAN]
  /\ sections \in [Rev -> SUBSET Section] /\ items \in [Rev -> Contents]
  /\ exceptions \in [Rev -> SUBSET Exception]
  /\ snapshot \in [Rev -> [sections: SUBSET Section, items: Contents]
                             \cup {NoSnapshot}]
  /\ currentRevision \in Rev /\ completed \in Nat
  /\ pc \in [Request -> PC] /\ seen \in [Request -> Seen]
  /\ attested \subseteq Place

-----------------------------------------------------------------------------
(* Evidence rows.                                                          *)

NoEvidence == [value |-> Unverified, source |-> NoPlace]
Manual(v) == [value |-> v, source |-> NoPlace]

\* Evidence of value v copied from the row e of the item at place q: confirmed
\* exactly when e is, whatever value e was confirmed for.
CopyOf(e, v, q) ==
  [value |-> IF e.value = Unverified THEN Unverified ELSE v, source |-> q]

\* An item migrated from before evidence was recorded.
LegacyItem ==
  [qty: Qty, rate: Rate, qtyEvidence: {NoEvidence}, rateEvidence: {NoEvidence},
   changed: {1}]

\* WRONG NewItem: no quantity evidence row is written with it.
NewItemBare(q, x, v) ==
  [qty |-> q, rate |-> x, qtyEvidence |-> NoPlace, rateEvidence |-> Manual(x),
   changed |-> v]

NewItem(q, x, v) ==
  [qty |-> q, rate |-> x, qtyEvidence |-> Manual(q), rateEvidence |-> Manual(x),
   changed |-> v]

\* WRONG Deletable: looks for citations in the same revision only.
DeletableInRevision(gone) ==
  \A r \in {q[1] : q \in gone} : \A l \in {k \in Line : <<r, k>> \notin gone} :
    items[r][l] \in Item =>
      {items[r][l].qtyEvidence.source, items[r][l].rateEvidence.source} \cap gone = {}

\* WRONG Deletable: nothing stops a deletion.
DeletableAlways(gone) == TRUE

\* Foreign keys of evidence rows are ON DELETE RESTRICT: the items at the places
\* gone cannot go while the evidence of an item that stays cites one of them.
\* (One of them that cites another may block it too, in some row orders.)
Deletable(gone) ==
  \A q \in Place \ gone : items[q[1]][q[2]] \in Item =>
    {items[q[1]][q[2]].qtyEvidence.source,
     items[q[1]][q[2]].rateEvidence.source} \cap gone = {}

-----------------------------------------------------------------------------
(* Reads.                                                                  *)

Done(p) == /\ pc' = [pc EXCEPT ![p] = "idle"]
           /\ seen' = [seen EXCEPT ![p] = NothingSeen]

\* getItemRecord, first query: the item.
ReadItem(p, r, l) ==
  /\ pc[p] = "idle"
  /\ items[r][l] \in Item
  /\ pc' = [pc EXCEPT ![p] = "itemRead"]
  /\ seen' = [seen EXCEPT ![p] = [NothingSeen EXCEPT
                 !.rev = r, !.items = [Nothing EXCEPT ![l] = items[r][l]]]]
  /\ UNCHANGED <<boqVars, completed, attested>>

\* getItemRecord, later query: the BOQ row; then assertBOQEditable.
ReadItemBoq(p) ==
  LET r == seen[p].rev IN
  /\ pc[p] = "itemRead"
  /\ ~locked[r]
  /\ pc' = [pc EXCEPT ![p] = "itemReady"]
  /\ seen' = [seen EXCEPT ![p].version = version[r]]
  /\ UNCHANGED <<boqVars, completed, attested>>

\* getBOQRecord, first query: the BOQ row; then assertBOQEditable.
ReadBoq(p, r) ==
  /\ pc[p] = "idle"
  /\ Exists(r) /\ ~locked[r]
  /\ pc' = [pc EXCEPT ![p] = "docRead"]
  /\ seen' = [seen EXCEPT ![p] = [NothingSeen EXCEPT
                 !.rev = r, !.version = version[r], !.priced = priced[r]]]
  /\ UNCHANGED <<boqVars, completed, attested>>

\* getBOQRecord, later queries: the items.
ReadBoqItems(p) ==
  /\ pc[p] = "docRead"
  /\ pc' = [pc EXCEPT ![p] = "docReady"]
  /\ seen' = [seen EXCEPT ![p].items = items[seen[p].rev]]
  /\ UNCHANGED <<boqVars, completed, attested>>

\* The request fails: a failed claim, a rejected input, a serialization error,
\* or its process dies.  Whatever transaction it had not committed is gone.
Abandon(p) ==
  /\ pc[p] # "idle"
  /\ Done(p)
  /\ UNCHANGED <<boqVars, completed, attested>>

-----------------------------------------------------------------------------
(* Writers: each claims the version it has read, in the transaction that   *)
(* writes the items.                                                       *)

\* WRONG Claim: takes a locked revision.
ClaimLocked(p) ==
  LET r == seen[p].rev IN
  /\ version[r] = seen[p].version
  /\ version[r] < MaxVersion
  /\ version' = [version EXCEPT ![r] = @ + 1]
  /\ verified' = [verified EXCEPT ![r] = 0]

\* WRONG Claim: leaves the version as it is.
ClaimWithoutIncrement(p) ==
  LET r == seen[p].rev IN
  /\ ~locked[r] /\ version[r] = seen[p].version
  /\ verified' = [verified EXCEPT ![r] = 0]
  /\ UNCHANGED version

\* claimEditableBOQ, and the inlined claims of updateBOQ and recalculateBOQ.
Claim(p) ==
  LET r == seen[p].rev IN
  /\ ~locked[r] /\ version[r] = seen[p].version
  /\ version[r] < MaxVersion
  /\ version' = [version EXCEPT ![r] = @ + 1]
  /\ verified' = [verified EXCEPT ![r] = 0]

\* The commit of a writer: the revision's items become its.
\* Exceptions of deleted items go with them (ON DELETE CASCADE).
Write(p, its) ==
  LET r == seen[p].rev IN
  /\ Claim(p)
  /\ items' = [items EXCEPT ![r] = its]
  /\ exceptions' = [exceptions EXCEPT ![r] = {e \in @ : its[e.line] \in Item}]
  /\ Done(p)
  /\ UNCHANGED <<locked, snapshot, currentRevision, completed>>

\* updateBOQItem with a new quantity q and rate x (or the ones read): every
\* commercial field is written back.  Evidence is written for a value that differs
\* from the item as it was read, and for one the caller gives the provenance of
\* (a confirmed calculation, a catalogue rate) or changes the unit or margin of.
UpdateItem(p, l, q, x, given) ==
  LET r == seen[p].rev
      it == seen[p].items[l]
      cur == items[r][l]
      told == given \cup (IF q # it.qty THEN {"qty"} ELSE {})
                    \cup (IF x # it.rate THEN {"rate"} ELSE {}) IN
  /\ pc[p] = "itemReady" /\ it \in Item /\ cur \in Item
  /\ Write(p, [items[r] EXCEPT ![l] =
       [qty |-> q, rate |-> x,
        qtyEvidence |-> IF "qty" \in told THEN Manual(q) ELSE cur.qtyEvidence,
        rateEvidence |-> IF "rate" \in told THEN Manual(x) ELSE cur.rateEvidence,
        changed |-> version[r] + 1]])
  /\ attested' = IF "qty" \in told THEN attested \cup {<<r, l>>} ELSE attested
  /\ UNCHANGED <<priced, sections>>

\* confirmBOQItemIntegrity: evidence for the values read; the database's
\* trigger rejects evidence that does not match the stored item.
ConfirmItem(p, l) ==
  LET r == seen[p].rev
      it == seen[p].items[l]
      cur == items[r][l] IN
  /\ pc[p] = "itemReady" /\ it \in Item /\ cur \in Item
  /\ it.qty = cur.qty /\ it.rate = cur.rate
  /\ Write(p, [items[r] EXCEPT ![l].qtyEvidence = Manual(it.qty),
                               ![l].rateEvidence = Manual(it.rate)])
  /\ attested' = attested \cup {<<r, l>>}
  /\ UNCHANGED <<priced, sections>>

\* deleteBOQItem.
DeleteItem(p, l) ==
  LET r == seen[p].rev IN
  /\ pc[p] = "itemReady" /\ seen[p].items[l] \in Item /\ items[r][l] \in Item
  /\ Deletable({<<r, l>>})
  /\ Write(p, [items[r] EXCEPT ![l] = Deleted])
  /\ attested' = attested \ {<<r, l>>}
  /\ UNCHANGED <<priced, sections>>

\* duplicateBOQItem to a free line k of the same section: values as read,
\* evidence copied from the rows the transaction finds.
DuplicateItem(p, l, k) ==
  LET r == seen[p].rev
      it == seen[p].items[l]
      cur == items[r][l] IN
  /\ pc[p] = "itemReady" /\ it \in Item /\ cur \in Item
  /\ items[r][k] = Absent /\ SectionOf[k] = SectionOf[l]
  /\ Write(p, [items[r] EXCEPT ![k] =
       [qty |-> it.qty, rate |-> it.rate,
        qtyEvidence |-> CopyOf(cur.qtyEvidence, it.qty, <<r, l>>),
        rateEvidence |-> CopyOf(cur.rateEvidence, it.rate, <<r, l>>),
        changed |-> version[r] + 1]])
  /\ attested' = IF <<r, l>> \in attested /\ cur.qtyEvidence.value = it.qty
                 THEN attested \cup {<<r, k>>} ELSE attested
  /\ UNCHANGED <<priced, sections>>

\* createBOQItem: its section read is a document read whose items it ignores.
CreateItem(p, l, q, x) ==
  LET r == seen[p].rev IN
  /\ pc[p] = "docReady"
  /\ items[r][l] = Absent /\ SectionOf[l] \in sections[r]
  /\ Write(p, [items[r] EXCEPT ![l] = NewItem(q, x, version[r] + 1)])
  /\ attested' = attested \cup {<<r, l>>}
  /\ UNCHANGED <<priced, sections>>

\* recalculateBOQ rewrites the derived amounts of every item.
Recalculate(p) ==
  LET r == seen[p].rev IN
  /\ pc[p] = "docReady"
  /\ \A l \in Live(seen[p].items) : items[r][l] \in Item
  /\ Write(p, [l \in Line |-> IF seen[p].items[l] \in Item
                              THEN [items[r][l] EXCEPT !.changed = version[r] + 1]
                              ELSE items[r][l]])
  /\ UNCHANGED <<priced, sections, attested>>

\* What updateBOQ's syncSectionItems makes of one line, for a client document
\* that gives the line d: <<quantity, rate>>, or nothing ("omit").
Synced(it, d, v) ==
  IF d = <<>> THEN IF it \in Item THEN Deleted ELSE it
  ELSE IF it \in Item
  THEN IF it.qty = d[1] /\ it.rate = d[2] THEN it ELSE
       [qty |-> d[1], rate |-> d[2],
        qtyEvidence |-> IF d[1] # it.qty THEN Manual(d[1]) ELSE it.qtyEvidence,
        rateEvidence |-> IF d[2] # it.rate THEN Manual(d[2]) ELSE it.rateEvidence,
        changed |-> v]
  ELSE IF it = Absent THEN NewItem(d[1], d[2], v) ELSE it

\* updateBOQ: a document that lists some sections, creating those the revision
\* does not have; the items of the others stay.
UpdateDocument(p, listed, doc, mode) ==
  LET r == seen[p].rev
      its == [l \in Line |-> IF SectionOf[l] \in listed
                             THEN Synced(seen[p].items[l], doc[l], version[r] + 1)
                             ELSE items[r][l]]
      gone == {l \in Line : items[r][l] \in Item /\ its[l] = Deleted}
      given == {l \in Live(its) : \/ items[r][l] \notin Item
                                  \/ its[l].qty # items[r][l].qty} IN
  /\ pc[p] = "docReady"
  /\ Deletable({r} \X gone)
  /\ Write(p, its)
  /\ sections' = [sections EXCEPT ![r] = @ \cup listed]
  /\ priced' = [priced EXCEPT ![r] = mode]
  /\ attested' = (attested \cup ({r} \X given)) \ ({r} \X gone)

\* createBOQSection.
CreateSection(p, c) ==
  LET r == seen[p].rev IN
  /\ pc[p] = "docReady" /\ c \notin sections[r]
  /\ Write(p, items[r])
  /\ sections' = [sections EXCEPT ![r] = @ \cup {c}]
  /\ UNCHANGED <<priced, attested>>

\* updateBOQSection: a section's title, code and order are not told apart here.
UpdateSection(p, c) ==
  LET r == seen[p].rev IN
  /\ pc[p] = "docReady" /\ c \in sections[r]
  /\ Write(p, items[r])
  /\ UNCHANGED <<priced, sections, attested>>

\* WRONG DeleteSection: the section goes, its items stay.
DeleteSectionOnly(p, c) ==
  LET r == seen[p].rev IN
  /\ pc[p] = "docReady" /\ c \in sections[r]
  /\ Write(p, items[r])
  /\ sections' = [sections EXCEPT ![r] = @ \ {c}]
  /\ UNCHANGED <<priced, attested>>

\* deleteBOQSection: the items of the section go with it.
DeleteSection(p, c) ==
  LET r == seen[p].rev
      gone == {l \in Live(items[r]) : SectionOf[l] = c} IN
  /\ pc[p] = "docReady" /\ c \in sections[r]
  /\ Deletable({r} \X gone)
  /\ Write(p, [l \in Line |-> IF l \in gone THEN Deleted ELSE items[r][l]])
  /\ sections' = [sections EXCEPT ![r] = @ \ {c}]
  /\ attested' = attested \ ({r} \X gone)
  /\ UNCHANGED priced

-----------------------------------------------------------------------------
(* The TAYQAN work order: checks the revision, then inserts its section    *)
(* outside any claim.                                                      *)

TayqanCheck(p, r) ==
  /\ pc[p] = "idle"
  /\ Exists(r) /\ ~locked[r]
  /\ pc' = [pc EXCEPT ![p] = "tayqanChecked"]
  /\ seen' = [seen EXCEPT ![p] = [NothingSeen EXCEPT !.rev = r]]
  /\ UNCHANGED <<boqVars, completed, attested>>

TayqanInsertSection(p) ==
  /\ pc[p] = "tayqanChecked"
  /\ sections' = [sections EXCEPT ![seen[p].rev] = @ \cup {TayqanSection}]
  /\ Done(p)
  /\ UNCHANGED <<version, verified, locked, priced, items, exceptions,
                 snapshot, currentRevision, completed, attested>>

-----------------------------------------------------------------------------
(* Verification.                                                           *)

\* runVerification's critical findings: no item or rate rule applies to an
\* unpriced document.
Findings(its, mode) ==
  IF mode THEN {<<l, its[l].rate>> : l \in {k \in Live(its) : its[k].rate \in Critical}}
  ELSE {}

Key(e) == <<e.line, e.value>>

\* WRONG Kept: keeps a resolution whose item was written since.
KeptRegardless(excs, its, mode) ==
  {e \in excs : e.resolved /\ Key(e) \in Findings(its, mode)}

\* A resolution survives a verification run while its finding does, and its
\* item has not been written since.
Kept(excs, its, mode) ==
  {e \in excs : /\ e.resolved
                /\ Key(e) \in Findings(its, mode)
                /\ its[e.line].changed <= e.at}

Raised(excs, its, mode) ==
  {[line |-> f[1], value |-> f[2], resolved |-> FALSE, at |-> 0] :
     f \in Findings(its, mode) \ {Key(e) : e \in Kept(excs, its, mode)}}

\* runBOQVerification; the lock route goes on to lockBOQ.
Verify(p, next) ==
  LET r == seen[p].rev
      its == seen[p].items IN
  /\ pc[p] = "docReady"
  /\ ~locked[r] /\ version[r] = seen[p].version
  /\ verified' = [verified EXCEPT ![r] = seen[p].version]
  /\ exceptions' = [exceptions EXCEPT ![r] =
       Kept(@, its, seen[p].priced) \cup Raised(@, its, seen[p].priced)]
  /\ pc' = [pc EXCEPT ![p] = next]
  /\ seen' = [seen EXCEPT ![p] = [NothingSeen EXCEPT
                 !.rev = IF next = "idle" THEN NothingSeen.rev ELSE r]]
  /\ UNCHANGED <<version, locked, priced, sections, items, snapshot,
                 currentRevision, completed, attested>>

\* resolveVerificationException: one transaction that locks the BOQ row.
Resolve(r, e) ==
  /\ ~locked[r]
  /\ e \in exceptions[r] /\ ~e.resolved
  /\ exceptions' = [exceptions EXCEPT ![r] =
       (@ \ {e}) \cup {[e EXCEPT !.resolved = TRUE, !.at = version[r]]}]
  /\ UNCHANGED <<version, verified, locked, priced, sections, items, snapshot,
                 currentRevision, completed, requestVars, attested>>

-----------------------------------------------------------------------------
(* Finalisation.                                                           *)

Traceable(it, mode) ==
  /\ it.qty > 0
  /\ it.qtyEvidence.value = it.qty
  /\ mode => it.rateEvidence.value = it.rate

\* WRONG LockCheck: does not ask for the allowance.
LockCheckUnasked(p) ==
  /\ pc[p] = "lockCheck"
  /\ ~locked[seen[p].rev]
  /\ pc' = [pc EXCEPT ![p] = "lockTx"]
  /\ UNCHANGED <<boqVars, completed, seen, attested>>

\* lockBOQ before its transaction: the early return for a locked revision, and
\* the trial allowance (canCreateBoq).
LockCheck(p) ==
  /\ pc[p] = "lockCheck"
  /\ ~locked[seen[p].rev]
  /\ OnTrial => completed < MaxCompletedBoqs
  /\ pc' = [pc EXCEPT ![p] = "lockTx"]
  /\ UNCHANGED <<boqVars, completed, seen, attested>>

\* WRONG Lockable: forgets that a critical exception may be open.
LockableUnanswered(r) ==
  /\ verified[r] # 0 /\ verified[r] = version[r]
  /\ Live(items[r]) # {}
  /\ \A l \in Live(items[r]) : Traceable(items[r][l], priced[r])

\* WRONG Lockable: forgets the verification, trusts the exceptions on record.
LockableUnverified(r) ==
  /\ Live(items[r]) # {}
  /\ \A l \in Live(items[r]) : Traceable(items[r][l], priced[r])
  /\ \A e \in exceptions[r] : e.resolved

Lockable(r) ==
  /\ verified[r] # 0 /\ verified[r] = version[r]
  /\ Live(items[r]) # {}
  /\ \A l \in Live(items[r]) : Traceable(items[r][l], priced[r])
  /\ \A e \in exceptions[r] : e.resolved

\* WRONG Lock: freezes what the request had read before its transaction.
LockSnapshottingEarlierRead(p) ==
  LET r == seen[p].rev IN
  /\ pc[p] = "lockTx"
  /\ ~locked[r] /\ Lockable(r)
  /\ locked' = [locked EXCEPT ![r] = TRUE]
  /\ snapshot' = [snapshot EXCEPT ![r] =
                    [sections |-> sections[r], items |-> seen[p].items]]
  /\ pc' = [pc EXCEPT ![p] = "record"]
  /\ UNCHANGED <<version, verified, priced, sections, items, exceptions,
                 currentRevision, completed, seen, attested>>

\* lockBOQ's transaction.
Lock(p) ==
  LET r == seen[p].rev IN
  /\ pc[p] = "lockTx"
  /\ ~locked[r] /\ Lockable(r)
  /\ locked' = [locked EXCEPT ![r] = TRUE]
  /\ snapshot' = [snapshot EXCEPT ![r] =
                    [sections |-> sections[r], items |-> items[r]]]
  /\ pc' = [pc EXCEPT ![p] = "record"]
  /\ UNCHANGED <<version, verified, priced, sections, items, exceptions,
                 currentRevision, completed, seen, attested>>

\* The transaction finds the revision locked by another request: it returns,
\* and the request counts the completion all the same.
LockFoundLocked(p) ==
  /\ pc[p] = "lockTx" /\ locked[seen[p].rev]
  /\ pc' = [pc EXCEPT ![p] = "record"]
  /\ UNCHANGED <<boqVars, completed, seen, attested>>

\* WRONG RecordCompleted: retries a count whose answer was lost.
RecordCompletedRetried(p) ==
  /\ pc[p] = "record"
  /\ completed' = IF OnTrial THEN completed + 1 ELSE completed
  /\ UNCHANGED <<boqVars, requestVars, attested>>

\* recordBoqCompleted.
RecordCompleted(p) ==
  /\ pc[p] = "record"
  /\ completed' = IF OnTrial THEN completed + 1 ELSE completed
  /\ Done(p)
  /\ UNCHANGED <<boqVars, attested>>

-----------------------------------------------------------------------------
(* New revisions.                                                          *)

\* createProjectBOQ, for a project without one.
CreateProjectBoq ==
  /\ \A r \in Rev : ~Exists(r)
  /\ version' = [version EXCEPT ![1] = 1]
  /\ sections' = [sections EXCEPT ![1] = Template]
  /\ UNCHANGED <<verified, locked, priced, items, exceptions, snapshot,
                 currentRevision, completed, requestVars, attested>>

\* WRONG AddRevision: the project is not told.
AddRevisionUntold(r, secs, its, mode) ==
  /\ r \in Rev
  /\ version' = [version EXCEPT ![r] = 1]
  /\ sections' = [sections EXCEPT ![r] = secs]
  /\ items' = [items EXCEPT ![r] = its]
  /\ priced' = [priced EXCEPT ![r] = mode]
  /\ UNCHANGED <<verified, locked, exceptions, snapshot, completed, requestVars,
                 currentRevision>>

AddRevision(r, secs, its, mode) ==
  /\ r \in Rev
  /\ version' = [version EXCEPT ![r] = 1]
  /\ sections' = [sections EXCEPT ![r] = secs]
  /\ items' = [items EXCEPT ![r] = its]
  /\ priced' = [priced EXCEPT ![r] = mode]
  /\ currentRevision' = r
  /\ UNCHANGED <<verified, locked, exceptions, snapshot, completed, requestVars>>

\* createBOQRevision from the latest revision, locked or not.
CreateRevision(r) ==
  LET copy(l) == [items[r][l] EXCEPT
        !.qtyEvidence = CopyOf(@, items[r][l].qty, <<r, l>>),
        !.rateEvidence = CopyOf(@, items[r][l].rate, <<r, l>>),
        !.changed = 1] IN
  /\ Latest(r)
  /\ AddRevision(r + 1, sections[r],
       [l \in Line |-> IF items[r][l] \in Item THEN copy(l) ELSE Absent], priced[r])
  /\ attested' = attested \cup
       {<<r + 1, l>> : l \in {k \in Live(items[r]) :
          <<r, k>> \in attested /\ items[r][k].qtyEvidence.value = items[r][k].qty}}

\* The platform owner's sample revision: the next number, 1 for a project without
\* a BOQ; one section, no items.
CreateSampleRevision ==
  \E r \in Rev, c \in Section :
    /\ IF r = 1 THEN \A s \in Rev : ~Exists(s) ELSE Latest(r - 1)
    /\ AddRevision(r, {c}, Nothing, TRUE)
    /\ UNCHANGED attested

-----------------------------------------------------------------------------

\* A project without a BOQ, or with a migrated one whose evidence is unverified.
Init ==
  /\ \E v \in {0, 1}, its \in [Line -> LegacyItem \cup {Absent}] :
       /\ v = 0 => its = Nothing
       /\ {SectionOf[l] : l \in Live(its)} \subseteq Template
       /\ version = [r \in Rev |-> IF r = 1 THEN v ELSE 0]
       /\ items = [r \in Rev |-> IF r = 1 THEN its ELSE Nothing]
       /\ sections = [r \in Rev |-> IF r = 1 /\ v = 1 THEN Template ELSE {}]
  /\ verified = [r \in Rev |-> 0]
  /\ locked = [r \in Rev |-> FALSE]
  /\ priced = [r \in Rev |-> TRUE]
  /\ exceptions = [r \in Rev |-> {}]
  /\ snapshot = [r \in Rev |-> NoSnapshot]
  /\ currentRevision = 1 /\ completed = 0
  /\ pc = [p \in Request |-> "idle"] /\ seen = [p \in Request |-> NothingSeen]
  /\ attested = {}

ItemRequest(p) ==
  \/ \E r \in Rev, l \in Line : ReadItem(p, r, l)
  \/ ReadItemBoq(p)
  \/ \E l \in Line :
       \/ \E q \in Qty, x \in Rate, given \in SUBSET {"qty", "rate"} :
            UpdateItem(p, l, q, x, given)
       \/ ConfirmItem(p, l)
       \/ DeleteItem(p, l)
       \/ \E k \in Line : DuplicateItem(p, l, k)

DocumentRequest(p) ==
  \/ \E r \in Rev : ReadBoq(p, r)
  \/ ReadBoqItems(p)
  \/ \E l \in Line, q \in Qty, x \in Rate : CreateItem(p, l, q, x)
  \/ Recalculate(p)
  \/ \E listed \in SUBSET Section, doc \in [Line -> (Qty \X Rate) \cup {<<>>}],
        mode \in BOOLEAN : UpdateDocument(p, listed, doc, mode)
  \/ \E c \in Section : CreateSection(p, c) \/ UpdateSection(p, c) \/ DeleteSection(p, c)
  \/ Verify(p, "idle")

LockRequest(p) ==
  \/ Verify(p, "lockCheck")
  \/ LockCheck(p) \/ Lock(p) \/ LockFoundLocked(p) \/ RecordCompleted(p)

TayqanRequest(p) ==
  \/ \E r \in Rev : TayqanCheck(p, r)
  \/ TayqanInsertSection(p)

Next ==
  \/ \E p \in Request :
       \/ ItemRequest(p) \/ DocumentRequest(p) \/ LockRequest(p)
       \/ TayqanRequest(p) \/ Abandon(p)
  \/ \E r \in Rev : \E e \in exceptions[r] : Resolve(r, e)
  \/ CreateProjectBoq
  \/ \E r \in Rev : CreateRevision(r)
  \/ CreateSampleRevision

Spec == Init /\ [][Next]_vars

-----------------------------------------------------------------------------
(* Properties.                                                             *)

\* A finding of the revision as it stands that a person resolved after the last
\* write of its item.
Answered(r, f) ==
  \E e \in exceptions[r] :
    Key(e) = f /\ e.resolved /\ e.at >= items[r][e.line].changed

\* What lockBOQ promises of a revision it locks: it is not empty, every
\* item's evidence is for the values it has, and every critical finding of these
\* very values was answered.
Acceptable(r) ==
  /\ Live(items[r]) # {}
  /\ \A l \in Live(items[r]) : Traceable(items[r][l], priced[r])
  /\ \A f \in Findings(items[r], priced[r]) : Answered(r, f)

\* While verifiedVersion is set, the verification result is about the revision as
\* it stands: every finding of its current items is on record, and no
\* resolution predates the item it excuses (runBOQVerification, claimEditableBOQ).
VerificationCurrent ==
  \A r \in Rev : verified[r] # 0 =>
    /\ verified[r] = version[r]
    /\ \A f \in Findings(items[r], priced[r]) : \E e \in exceptions[r] : Key(e) = f
    /\ \A e \in exceptions[r] : e.resolved => e.at >= items[r][e.line].changed

\* Items live in sections their revision has: an item written into a section, a
\* section deleted under a request that read it, a document that lists new
\* sections (createPreparedBOQItem, deleteBOQSection, updateBOQ).
SectionsHoldItems ==
  \A r \in Rev : {SectionOf[l] : l \in Live(items[r])} \subseteq sections[r]

\* A lock is counted at most once by each request in flight: outside the lock's
\* transaction, a request that finds the lock made counts it again, but none counts a
\* lock twice and none that starts later counts it (lockBOQ's early returns).
CountedPerLock ==
  completed <= Cardinality(Request) * Cardinality({r \in Rev : locked[r]})

\* A locked revision is acceptable, whatever requests ran between its
\* verification and its lock (lockBOQ reads nothing the verification read).
LockedIsAcceptable ==
  \A r \in Rev : locked[r] => Acceptable(r) /\ verified[r] = version[r]

\* Exactly the locked revisions have a snapshot, and the items and evidence it
\* froze are still the revision's (lockBOQ, freezeRevisionItemEvidence).
SnapshotIsContent ==
  \A r \in Rev : IF locked[r]
                  THEN snapshot[r] # NoSnapshot /\ snapshot[r].items = items[r]
                  ELSE snapshot[r] = NoSnapshot

\* No request, however stale what it read, changes the items, the evidence, the
\* verification or the snapshot of a locked revision, or unlocks it.
LockedFrozen ==
  [][\A r \in Rev : locked[r] =>
       /\ locked'[r] /\ snapshot'[r] = snapshot[r] /\ items'[r] = items[r]
       /\ exceptions'[r] = exceptions[r] /\ priced'[r] = priced[r]
       /\ version'[r] = version[r] /\ verified'[r] = verified[r]]_vars

\* A request that read the whole document and whose claim would succeed holds the
\* items of the revision as they are: updateBOQ, recalculateBOQ and
\* runBOQVerification decide on what they read.
DocumentClaimIsFresh ==
  \A p \in Request : LET r == seen[p].rev IN
    pc[p] = "docReady" /\ ~locked[r] /\ version[r] = seen[p].version
      => seen[p].items = items[r] /\ seen[p].priced = priced[r]

\* The inductive invariant behind the four above: what a row can hold before it
\* is verified, and what a read that has not been claimed yet can still mean.

\* A revision that does not exist yet carries nothing of a former one.
UnbornClean ==
  \A r \in Rev : ~Exists(r) =>
    ~locked[r] /\ verified[r] = 0 /\ exceptions[r] = {} /\ snapshot[r] = NoSnapshot

\* Items are dated by versions the BOQ has had, and exceptions name items it has.
RowsDated ==
  \A r \in Rev :
    /\ \A l \in Live(items[r]) : items[r][l].changed <= version[r]
    /\ \A e \in exceptions[r] : e.line \in Live(items[r])

\* A document read is of a version the BOQ has had; while it still has it, what was
\* read is what is there.
DocumentReads ==
  \A p \in Request : pc[p] \in {"docRead", "docReady"} =>
    LET r == seen[p].rev IN
    /\ seen[p].version \in 1..version[r]
    /\ seen[p].version = version[r] =>
         /\ seen[p].priced = priced[r]
         /\ pc[p] = "docReady" => seen[p].items = items[r]

Inductive ==
  /\ TypeOK /\ UnbornClean /\ RowsDated /\ DocumentReads
  /\ VerificationCurrent /\ LockedIsAcceptable /\ SnapshotIsContent

\* Evidence never cites an item that is gone, so the chain of copies behind a
\* value can be followed to its start, across revisions.
CitedItemsExist ==
  \A q \in Place : items[q[1]][q[2]] \in Item =>
    \A s \in {items[q[1]][q[2]].qtyEvidence.source,
              items[q[1]][q[2]].rateEvidence.source} \ {NoPlace} :
      items[s[1]][s[2]] \in Item

\* Project.currentRevisionNumber names the newest revision, and revisions are
\* numbered without a gap, by whichever of its three writers.
RevisionsContiguous ==
  \A r \in Rev : Exists(r) => Exists(currentRevision) /\ r <= currentRevision
                              /\ \A s \in 1..r : Exists(s)

\* The trial allowance is checked before the lock's transaction and spent after it, so
\* it can be overrun: by one less than the requests in flight and never by more,
\* however often a lock is found done by another (canCreateBoq, recordBoqCompleted).
AllowanceOverrun ==
  completed > 0 => OnTrial /\ completed < MaxCompletedBoqs + Cardinality(Request)

\* The inductive invariant behind the properties on places, numbers and counts, on
\* top of the one above.

\* A revision number not used yet has no items a citation or a section could miss.
UnbornEmpty == \A r \in Rev : ~Exists(r) => Live(items[r]) = {}

\* A project that has revisions points at one; one that has none, at the first.
CurrentNamed == Exists(currentRevision) \/ currentRevision = 1

\* A request about to count a completion has seen its revision locked.
CountsALock == \A p \in Request : pc[p] = "record" => locked[seen[p].rev]

\* Requests that have passed the allowance and not counted yet.
Counting == {p \in Request : pc[p] \in {"lockTx", "record"}}

\* Requests about to count a lock that is made.
CountingLocks == {p \in Counting : locked[seen[p].rev]}

CountsBounded ==
  completed + Cardinality(CountingLocks)
    <= Cardinality(Request) * Cardinality({r \in Rev : locked[r]})

AllowanceSpent ==
  LET spent == completed + Cardinality(Counting) IN
  IF OnTrial THEN spent = 0 \/ spent < MaxCompletedBoqs + Cardinality(Request)
  ELSE completed = 0

InductiveContents ==
  /\ UnbornEmpty /\ CitedItemsExist /\ SectionsHoldItems
  /\ RevisionsContiguous /\ CurrentNamed
  /\ CountsBounded /\ CountsALock /\ AllowanceSpent

-----------------------------------------------------------------------------
(* The requests implement the ledger: whatever they read and however they      *)
(* interleave, a revision goes final only as reviewed and acceptable content.  *)

Reviewed(r) ==
  /\ verified[r] # 0 /\ verified[r] = version[r]
  /\ \A f \in Findings(items[r], priced[r]) : Answered(r, f)

Content(r) == [items |-> items[r], priced |-> priced[r]]

LedgerAcceptable(c) ==
  /\ Live(c.items) # {}
  /\ \A l \in Live(c.items) : Traceable(c.items[l], c.priced)

LedgerRecord(r) ==
  IF snapshot[r] = NoSnapshot THEN NoSnapshot
  ELSE [items |-> snapshot[r].items, priced |-> priced[r]]

Ledger == INSTANCE BoqLedger WITH
  Revision <- Rev, None <- NoSnapshot, Acceptable <- LedgerAcceptable,
  content <- [r \in Rev |-> Content(r)],
  reviewed <- [r \in Rev |-> Reviewed(r)],
  final <- locked,
  record <- [r \in Rev |-> LedgerRecord(r)]

\* Every behaviour of the requests is one of the ledger (claimEditableBOQ,
\* runBOQVerification, resolveVerificationException and lockBOQ together).
ImplementsLedger == Ledger!Spec

-----------------------------------------------------------------------------
(* What a comment of the repository says and the code does not keep.        *)

\* "never claim the old source as newly reviewed": an item whose quantity counts as
\* confirmed had that quantity entered or confirmed by a person, or copied
\* from an item that had.
EvidenceAttested ==
  \A r \in Rev : \A l \in Live(items[r]) :
    items[r][l].qtyEvidence.value = items[r][l].qty => <<r, l>> \in attested
=============================================================================
