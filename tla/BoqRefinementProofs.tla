------------------------- MODULE BoqRefinementProofs -------------------------
(* The requests of BoqFinalization implement BoqLedger, for every value of   *)
(* the constants.                                                            *)
EXTENDS BoqFinalizationProofs

\* A step that leaves what the ledger sees of a revision.
SameEntry(r) ==
  /\ version'[r] = version[r] /\ verified'[r] = verified[r]
  /\ priced'[r] = priced[r] /\ items'[r] = items[r]
  /\ exceptions'[r] = exceptions[r] /\ snapshot'[r] = snapshot[r]

LEMMA SameEntryMaps ==
  ASSUME NEW r \in Rev, SameEntry(r)
  PROVE  /\ Reviewed(r)' = Reviewed(r) /\ Content(r)' = Content(r)
         /\ LedgerRecord(r)' = LedgerRecord(r)
  BY DEF SameEntry, Reviewed, Answered, Content, LedgerRecord

\* A step that touches no revision the ledger sees stutters.
LEMMA StutterMaps ==
  ASSUME \A r \in Rev : SameEntry(r), locked' = locked
  PROVE  UNCHANGED Ledger!vars
  BY SameEntryMaps DEF Ledger!vars

\* An edit of an unlocked revision that unverifies it, and touches no other.
LEMMA EditMaps ==
  ASSUME NEW r \in Rev, ~locked[r], locked' = locked, verified'[r] = 0,
         snapshot'[r] = NoSnapshot, snapshot[r] = NoSnapshot,
         \A s \in Rev \ {r} : SameEntry(s)
  PROVE  Ledger!Next
<1>1. [s \in Rev |-> Content(s)]'
        = [[s \in Rev |-> Content(s)] EXCEPT ![r] = [s \in Rev |-> Content(s)]'[r]]
  BY SameEntryMaps
<1>2. Reviewed(r)' = FALSE
  BY DEF Reviewed
<1>3. [s \in Rev |-> Reviewed(s)]' = [[s \in Rev |-> Reviewed(s)] EXCEPT ![r] = FALSE]
  BY <1>2, SameEntryMaps
<1>4. [s \in Rev |-> LedgerRecord(s)]' = [s \in Rev |-> LedgerRecord(s)]
  BY SameEntryMaps DEF LedgerRecord
<1>5. Ledger!Edit(r)
  BY <1>1, <1>3, <1>4 DEF Ledger!Edit
<1>6. QED
  BY <1>5 DEF Ledger!Next

\* A change of verification alone is a review.
LEMMA ReviewMaps ==
  ASSUME NEW r \in Rev, ~locked[r], locked' = locked,
         priced' = priced, items' = items, snapshot' = snapshot,
         \A s \in Rev \ {r} : SameEntry(s)
  PROVE  Ledger!Next
<1>1. [s \in Rev |-> Content(s)]' = [s \in Rev |-> Content(s)]
  BY DEF Content
<1>2. [s \in Rev |-> Reviewed(s)]'
        = [[s \in Rev |-> Reviewed(s)] EXCEPT ![r] = Reviewed(r)']
  BY SameEntryMaps
<1>3. [s \in Rev |-> LedgerRecord(s)]' = [s \in Rev |-> LedgerRecord(s)]
  BY DEF LedgerRecord
<1>4. Reviewed(r)' \in BOOLEAN
  BY DEF Reviewed
<1>5. Ledger!Review(r)
  BY <1>1, <1>2, <1>3, <1>4 DEF Ledger!Review
<1>6. QED
  BY <1>5 DEF Ledger!Next
\* A lock finds the revision reviewed: that verifiedVersion is the current version, and
\* no exception is open, is all it looks at.
LEMMA LockMaps ==
  ASSUME TypeOK, VerificationCurrent, SnapshotIsContent, NEW p \in Request, Lock(p)
  PROVE  Ledger!Next
<1>1. PICK r \in Rev : r = seen[p].rev
  BY DEF TypeOK, Seen
<1>2. /\ ~locked[r] /\ Lockable(r) /\ locked' = [locked EXCEPT ![r] = TRUE]
      /\ snapshot' = [snapshot EXCEPT ![r] = [sections |-> sections[r], items |-> items[r]]]
      /\ UNCHANGED <<version, verified, priced, items, exceptions>>
  BY <1>1 DEF Lock
<1>3. Reviewed(r)
  <2>1. ASSUME NEW f \in Findings(items[r], priced[r])
        PROVE  Answered(r, f)
    BY <1>2 DEF Answered, Lockable, VerificationCurrent
  <2>2. QED
    BY <1>2, <2>1 DEF Reviewed, Lockable
<1>4. LedgerAcceptable(Content(r))
  BY <1>2 DEF LedgerAcceptable, Content, Lockable
<1>5. UNCHANGED <<[s \in Rev |-> Content(s)], [s \in Rev |-> Reviewed(s)]>>
  BY <1>2 DEF Content, Reviewed, Answered
<1>6. [s \in Rev |-> LedgerRecord(s)]'
        = [[s \in Rev |-> LedgerRecord(s)] EXCEPT ![r] = Content(r)]
  <2>1. LedgerRecord(r)' = Content(r)
    <3>1. snapshot'[r] = [sections |-> sections[r], items |-> items[r]]
      BY <1>2 DEF TypeOK
    <3>2. snapshot'[r] \in [sections: SUBSET Section, items: Contents]
      BY <3>1 DEF TypeOK
    <3>3. snapshot'[r] # NoSnapshot
      BY <3>2, AtomsAssumption
    <3>4. QED
      BY <1>2, <3>1, <3>3 DEF LedgerRecord, Content
  <2>2. \A s \in Rev \ {r} : LedgerRecord(s)' = LedgerRecord(s)
    BY <1>2 DEF TypeOK, LedgerRecord
  <2>3. QED
    BY <2>1, <2>2
<1>7. Ledger!Finalize(r)
  BY <1>2, <1>3, <1>4, <1>5, <1>6 DEF Ledger!Finalize
<1>8. QED
  BY <1>7 DEF Ledger!Next

\* A new revision is an edit of one the ledger has as an unreviewed draft.
LEMMA BirthMaps ==
  ASSUME TypeOK, UnbornClean, NEW r \in Rev, ~Exists(r), version' = [version EXCEPT ![r] = 1],
         \A s \in Rev \ {r} : items'[s] = items[s] /\ priced'[s] = priced[s],
         UNCHANGED <<verified, locked, exceptions, snapshot>>
  PROVE  Ledger!Next
<1>1. ~locked[r] /\ verified'[r] = 0 /\ snapshot[r] = NoSnapshot /\ snapshot'[r] = NoSnapshot
  BY DEF UnbornClean
<1>2. \A s \in Rev \ {r} : SameEntry(s)
  BY DEF TypeOK, SameEntry
<1>3. QED
  BY <1>1, <1>2, EditMaps

\* Every step of the requests is a step of the ledger, or none.
LEMMA StepMaps ==
  ASSUME Inductive, Next
  PROVE  Ledger!Next \/ UNCHANGED Ledger!vars
<1> USE RevType
<1>0. /\ TypeOK /\ UnbornClean /\ VerificationCurrent /\ SnapshotIsContent
      /\ \A p \in Request : seen[p].rev \in Rev
  BY DEF Inductive, TypeOK, Seen
<1>s. ASSUME UNCHANGED <<version, verified, locked, priced, items, exceptions, snapshot>>
      PROVE  UNCHANGED Ledger!vars
  BY <1>s, StutterMaps DEF SameEntry
<1>1. ASSUME NEW p \in Request, ItemRequest(p) \/ (DocumentRequest(p) /\ ~Verify(p, "idle"))
      PROVE  Ledger!Next \/ UNCHANGED Ledger!vars
  <2>1. CASE UNCHANGED boqVars
    BY <2>1, <1>s DEF boqVars
  <2>2. ASSUME NEW its, Write(p, its),
               \A s \in Rev \ {seen[p].rev} : priced'[s] = priced[s]
        PROVE  Ledger!Next
    <3>1. PICK r \in Rev : r = seen[p].rev
      BY <1>0
    <3>2. ~locked[r] /\ locked' = locked /\ verified'[r] = 0 /\ snapshot' = snapshot
      BY <2>2, <3>1, <1>0 DEF TypeOK, Write, Claim
    <3>3. snapshot[r] = NoSnapshot
      BY <1>0, <3>2 DEF SnapshotIsContent
    <3>4. \A s \in Rev \ {r} : SameEntry(s)
      BY <2>2, <3>1, <1>0 DEF TypeOK, Write, Claim, SameEntry
    <3>5. QED
      BY <3>2, <3>3, <3>4, EditMaps
  <2>3. QED
    BY <1>0, <1>1, <2>1, <2>2, EditsWrite
<1>2. ASSUME NEW p \in Request, NEW next, Verify(p, next)
      PROVE  Ledger!Next
  <2>1. PICK r \in Rev : r = seen[p].rev
    BY <1>0
  <2>2. /\ ~locked[r] /\ locked' = locked /\ priced' = priced /\ items' = items
        /\ snapshot' = snapshot
    BY <1>2, <2>1 DEF Verify
  <2>3. \A s \in Rev \ {r} : SameEntry(s)
    BY <1>0, <1>2, <2>1 DEF TypeOK, Verify, SameEntry
  <2>4. QED
    BY <2>2, <2>3, ReviewMaps
<1>3. ASSUME NEW p \in Request, Lock(p)
      PROVE  Ledger!Next
  BY <1>0, <1>3, LockMaps
<1>4. ASSUME NEW p \in Request, LockCheck(p) \/ LockFoundLocked(p) \/ RecordCompleted(p)
                               \/ TayqanRequest(p) \/ Abandon(p)
      PROVE  UNCHANGED Ledger!vars
  BY <1>4, <1>s DEF LockCheck, LockFoundLocked, RecordCompleted, TayqanRequest,
                    TayqanCheck, TayqanInsertSection, Abandon, boqVars
<1>5. ASSUME NEW r \in Rev, NEW e \in exceptions[r], Resolve(r, e)
      PROVE  Ledger!Next
  <2>1. \A s \in Rev \ {r} : SameEntry(s)
    BY <1>0, <1>5 DEF TypeOK, Resolve, SameEntry
  <2>2. QED
    BY <1>5, <2>1, ReviewMaps DEF Resolve
<1>6. CASE CreateProjectBoq
  <2>1. /\ ~Exists(1) /\ version' = [version EXCEPT ![1] = 1]
        /\ UNCHANGED <<items, priced, verified, locked, exceptions, snapshot>>
    BY <1>6 DEF CreateProjectBoq
  <2>2. QED
    BY <1>0, <2>1, BirthMaps
<1>7. ASSUME NEW r \in Rev, ~Exists(r), NEW secs, NEW its, NEW mode,
             AddRevision(r, secs, its, mode)
      PROVE  Ledger!Next
  <2>1. /\ version' = [version EXCEPT ![r] = 1]
        /\ \A s \in Rev \ {r} : items'[s] = items[s] /\ priced'[s] = priced[s]
        /\ UNCHANGED <<verified, locked, exceptions, snapshot>>
    BY <1>0, <1>7 DEF TypeOK, AddRevision
  <2>2. QED
    BY <1>0, <1>7, <2>1, BirthMaps
<1>8. CASE \E r \in Rev : CreateRevision(r)
  <2>1. PICK r \in Rev :
          Latest(r) /\ \E secs, its, mode : AddRevision(r + 1, secs, its, mode)
    BY <1>8 DEF CreateRevision
  <2>2. r + 1 \in Rev /\ ~Exists(r + 1)
    BY <2>1, RevType DEF Latest, AddRevision
  <2>3. QED
    BY <1>7, <2>1, <2>2
<1>9. CASE CreateSampleRevision
  BY <1>7, <1>9, SampleIsNew
<1>10. QED
  BY <1>1, <1>2, <1>3, <1>4, <1>5, <1>6, <1>8, <1>9 DEF Next, LockRequest

LEMMA InitMaps == Init => Ledger!Init
  BY DEF Init, Ledger!Init, Reviewed, LedgerRecord

\* The requests implement the ledger: whatever they read and however they interleave,
\* a revision goes final only as reviewed and acceptable content, and stays so.
THEOREM RequestsImplementLedger == Spec => ImplementsLedger
<1>1. Inductive /\ [Next]_vars => [Ledger!Next]_(Ledger!vars)
  <2> SUFFICES ASSUME Inductive, [Next]_vars
               PROVE  Ledger!Next \/ UNCHANGED Ledger!vars
    OBVIOUS
  <2>1. CASE UNCHANGED vars
    BY <2>1, StutterMaps DEF vars, boqVars, SameEntry
  <2>2. QED
    BY <2>1, StepMaps
<1>2. QED
  BY <1>1, InitMaps, InductiveHolds, PTL DEF Spec, ImplementsLedger, Ledger!Spec
=============================================================================
