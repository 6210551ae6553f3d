------------------------ MODULE BoqFinalizationProofs ------------------------
(* Proofs about BoqFinalization, for every value of its constants.          *)
EXTENDS BoqFinalization, TLAPS

USE DEF Rev, Place

LEMMA RevType == Rev \subseteq Nat /\ 1 \in Rev
  BY ConstantsAssumption, SMT

\* A record that lists nothing is a legal thing to have read.
LEMMA NothingType == Nothing \in Contents /\ NothingSeen \in Seen
  BY RevType DEF Nothing, Contents, NothingSeen, Seen

\* Evidence made by hand or by copying has its type.
LEMMA EvidenceType ==
  ASSUME NEW V, NEW v \in V, NEW e \in Evidence(V), NEW q \in Place
  PROVE  /\ Manual(v) \in Evidence(V)
         /\ NoEvidence \in Evidence(V)
         /\ CopyOf(e, v, q) \in Evidence(V)
  BY DEF Evidence, Manual, NoEvidence, CopyOf

LEMMA NewItemType ==
  ASSUME NEW q \in Qty, NEW x \in Rate, NEW v \in Nat
  PROVE  NewItem(q, x, v) \in Item
  BY DEF NewItem, Item, Evidence, Manual

\* A writer that puts well-typed items keeps the types of what Write touches.
LEMMA WriteType ==
  ASSUME TypeOK, NEW p \in Request, NEW its \in Contents, Write(p, its)
  PROVE  /\ version' \in [Rev -> Nat] /\ verified' \in [Rev -> Nat]
         /\ items' \in [Rev -> Contents] /\ exceptions' \in [Rev -> SUBSET Exception]
         /\ pc' \in [Request -> PC] /\ seen' \in [Request -> Seen]
         /\ locked' \in [Rev -> BOOLEAN] /\ currentRevision' \in Rev
         /\ completed' \in Nat
         /\ snapshot' \in [Rev -> [sections: SUBSET Section, items: Contents]
                                    \cup {NoSnapshot}]
<1> DEFINE r == seen[p].rev
<1>1. r \in Rev
  BY DEF TypeOK, Seen
<1>2. version' \in [Rev -> Nat] /\ verified' \in [Rev -> Nat]
  BY <1>1 DEF TypeOK, Write, Claim
<1>3. items' \in [Rev -> Contents]
  BY <1>1 DEF TypeOK, Write
<1>4. exceptions' \in [Rev -> SUBSET Exception]
  BY <1>1 DEF TypeOK, Write
<1>5. pc' \in [Request -> PC] /\ seen' \in [Request -> Seen]
  BY NothingType DEF TypeOK, Write, Done, PC
<1>6. QED
  BY <1>2, <1>3, <1>4, <1>5 DEF TypeOK, Write

-----------------------------------------------------------------------------
(* Types.                                                                  *)

\* What an item request changes is well typed.
LEMMA ItemRequestType ==
  ASSUME TypeOK, NEW p \in Request, ItemRequest(p)
  PROVE  TypeOK'
<1> USE RevType
<1> DEFINE r == seen[p].rev
<1>r. r \in Rev /\ seen[p].items \in Contents /\ items[r] \in Contents
      /\ version[r] + 1 \in Nat
  BY DEF TypeOK, Seen
<1>1. CASE \E r0 \in Rev, l \in Line : ReadItem(p, r0, l)
  <2>1. PICK r0 \in Rev, l \in Line : ReadItem(p, r0, l)
    BY <1>1
  <2>2. [Nothing EXCEPT ![l] = items[r0][l]] \in Contents
    BY <2>1, NothingType DEF ReadItem, Contents
  <2>3. [NothingSeen EXCEPT !.rev = r0, !.items = [Nothing EXCEPT ![l] = items[r0][l]]]
          \in Seen
    BY <2>2, NothingType DEF Seen, NothingSeen
  <2>4. seen' \in [Request -> Seen]
    BY <2>1, <2>3 DEF TypeOK, ReadItem
  <2>5. pc' \in [Request -> PC]
    BY <2>1 DEF TypeOK, ReadItem, PC
  <2>6. QED
    BY <2>1, <2>4, <2>5 DEF TypeOK, ReadItem, boqVars
<1>2. CASE ReadItemBoq(p)
  <2>1. version[r] \in Nat
    BY <1>r DEF TypeOK
  <2>2. seen' \in [Request -> Seen]
    BY <1>2, <2>1 DEF TypeOK, ReadItemBoq, Seen
  <2>3. pc' \in [Request -> PC]
    BY <1>2 DEF TypeOK, ReadItemBoq, PC
  <2>4. QED
    BY <1>2, <2>2, <2>3 DEF TypeOK, ReadItemBoq, boqVars
<1>3. CASE \E l \in Line, q \in Qty, x \in Rate, given \in SUBSET {"qty", "rate"} :
            UpdateItem(p, l, q, x, given)
  <2>1. PICK l \in Line, q \in Qty, x \in Rate, given \in SUBSET {"qty", "rate"} :
            UpdateItem(p, l, q, x, given)
    BY <1>3
  <2> DEFINE it == seen[p].items[l]
             cur == items[r][l]
             told == given \cup (IF q # it.qty THEN {"qty"} ELSE {})
                           \cup (IF x # it.rate THEN {"rate"} ELSE {})
             new == [qty |-> q, rate |-> x,
               qtyEvidence |-> IF "qty" \in told THEN Manual(q) ELSE cur.qtyEvidence,
               rateEvidence |-> IF "rate" \in told THEN Manual(x) ELSE cur.rateEvidence,
               changed |-> version[r] + 1]
  <2>2. cur \in Item
    BY <2>1 DEF UpdateItem
  <2>3. Manual(q) \in Evidence(Qty) /\ Manual(x) \in Evidence(Rate)
    BY DEF Manual, Evidence
  <2>4. new \in Item
    BY <1>r, <2>2, <2>3 DEF Item
  <2>5. [items[r] EXCEPT ![l] = new] \in Contents
    BY <1>r, <2>4 DEF Contents
  <2>6. Write(p, [items[r] EXCEPT ![l] = new])
    BY <2>1 DEF UpdateItem
  <2>7. attested' \subseteq Place
    BY <2>1, <1>r DEF TypeOK, UpdateItem
  <2>8. priced' = priced /\ sections' = sections
    BY <2>1 DEF UpdateItem
  <2> HIDE DEF new, it, cur
  <2>9. QED
    BY <2>5, <2>6, <2>7, <2>8, WriteType DEF TypeOK
<1>4. CASE \E l \in Line : ConfirmItem(p, l)
  <2>1. PICK l \in Line : ConfirmItem(p, l)
    BY <1>4
  <2> DEFINE it == seen[p].items[l]
             cur == items[r][l]
             its == [items[r] EXCEPT ![l].qtyEvidence = Manual(it.qty),
                                     ![l].rateEvidence = Manual(it.rate)]
  <2>2. cur \in Item /\ it \in Item
    BY <2>1 DEF ConfirmItem
  <2>3. Manual(it.qty) \in Evidence(Qty) /\ Manual(it.rate) \in Evidence(Rate)
    BY <2>2 DEF Manual, Evidence, Item
  <2>4. its[l] \in Item
    BY <1>r, <2>2, <2>3 DEF Item, Contents
  <2>5. its \in Contents
    BY <1>r, <2>4 DEF Contents
  <2>6. Write(p, its)
    BY <2>1 DEF ConfirmItem
  <2>7. attested' \subseteq Place
    BY <2>1, <1>r DEF TypeOK, ConfirmItem
  <2>8. priced' = priced /\ sections' = sections
    BY <2>1 DEF ConfirmItem
  <2> HIDE DEF its, it, cur
  <2>9. QED
    BY <2>5, <2>6, <2>7, <2>8, WriteType DEF TypeOK
<1>5. CASE \E l \in Line : DeleteItem(p, l)
  <2>1. PICK l \in Line : DeleteItem(p, l)
    BY <1>5
  <2>2. [items[r] EXCEPT ![l] = Deleted] \in Contents
    BY <1>r DEF Contents
  <2>3. Write(p, [items[r] EXCEPT ![l] = Deleted])
    BY <2>1 DEF DeleteItem
  <2>4. attested' \subseteq Place /\ priced' = priced /\ sections' = sections
    BY <2>1 DEF TypeOK, DeleteItem
  <2>5. QED
    BY <2>2, <2>3, <2>4, WriteType DEF TypeOK
<1>6. CASE \E l \in Line, k \in Line : DuplicateItem(p, l, k)
  <2>1. PICK l \in Line, k \in Line : DuplicateItem(p, l, k)
    BY <1>6
  <2> DEFINE it == seen[p].items[l]
             cur == items[r][l]
             new == [qty |-> it.qty, rate |-> it.rate,
               qtyEvidence |-> CopyOf(cur.qtyEvidence, it.qty, <<r, l>>),
               rateEvidence |-> CopyOf(cur.rateEvidence, it.rate, <<r, l>>),
               changed |-> version[r] + 1]
  <2>2. cur \in Item /\ it \in Item
    BY <2>1 DEF DuplicateItem
  <2>3. /\ CopyOf(cur.qtyEvidence, it.qty, <<r, l>>) \in Evidence(Qty)
        /\ CopyOf(cur.rateEvidence, it.rate, <<r, l>>) \in Evidence(Rate)
    BY <1>r, <2>2 DEF CopyOf, Evidence, Item
  <2>4. new \in Item
    BY <1>r, <2>2, <2>3 DEF Item
  <2>5. [items[r] EXCEPT ![k] = new] \in Contents
    BY <1>r, <2>4 DEF Contents
  <2>6. Write(p, [items[r] EXCEPT ![k] = new])
    BY <2>1 DEF DuplicateItem
  <2>7. attested' \subseteq Place
    BY <2>1, <1>r DEF TypeOK, DuplicateItem
  <2>8. priced' = priced /\ sections' = sections
    BY <2>1 DEF DuplicateItem
  <2> HIDE DEF new, it, cur
  <2>9. QED
    BY <2>5, <2>6, <2>7, <2>8, WriteType DEF TypeOK
<1>7. QED
  BY <1>1, <1>2, <1>3, <1>4, <1>5, <1>6 DEF ItemRequest

\* So is what a verification changes, on its own or before a lock.
LEMMA VerifyType ==
  ASSUME TypeOK, NEW p \in Request, NEW next \in {"idle", "lockCheck"}, Verify(p, next)
  PROVE  TypeOK'
<1> USE RevType
<1> DEFINE r == seen[p].rev
           its == seen[p].items
<1>r. /\ r \in Rev /\ its \in Contents /\ seen[p].version \in Nat
  BY DEF TypeOK, Seen
<1>1. verified' \in [Rev -> Nat]
  BY <1>r DEF TypeOK, Verify
<1>2. ASSUME NEW excs \in SUBSET Exception, NEW m \in BOOLEAN
      PROVE  Kept(excs, its, m) \cup Raised(excs, its, m) \subseteq Exception
  <2>1. Findings(its, m) \subseteq Line \X Rate
    <3>1. \A l \in Live(its) : l \in Line /\ its[l].rate \in Rate
      BY DEF Live, Item
    <3> HIDE DEF its
    <3>2. QED
      BY <3>1 DEF Findings
  <2>2. ASSUME NEW f \in Line \X Rate
        PROVE  [line |-> f[1], value |-> f[2], resolved |-> FALSE, at |-> 0] \in Exception
    BY DEF Exception
  <2>3. QED
    BY <2>1, <2>2 DEF Kept, Raised
<1>3. exceptions' \in [Rev -> SUBSET Exception]
  <2>1. seen[p].priced \in BOOLEAN /\ exceptions[r] \in SUBSET Exception
    BY <1>r DEF TypeOK, Seen
  <2>2. Kept(exceptions[r], its, seen[p].priced)
          \cup Raised(exceptions[r], its, seen[p].priced) \in SUBSET Exception
    BY <1>2, <2>1
  <2>3. QED
    BY <1>r, <2>2 DEF TypeOK, Verify
<1>4. [NothingSeen EXCEPT !.rev = IF next = "idle" THEN NothingSeen.rev ELSE r] \in Seen
  BY <1>r, NothingType DEF Seen, NothingSeen
<1>5. seen' \in [Request -> Seen] /\ pc' \in [Request -> PC]
  BY <1>4 DEF TypeOK, Verify, PC
<1>6. QED
  BY <1>1, <1>3, <1>5 DEF TypeOK, Verify

\* So is what a document request changes.
LEMMA DocumentRequestType ==
  ASSUME TypeOK, NEW p \in Request, DocumentRequest(p)
  PROVE  TypeOK'
<1> USE RevType
<1> DEFINE r == seen[p].rev
<1>r. /\ r \in Rev /\ seen[p].items \in Contents /\ items[r] \in Contents
      /\ version[r] + 1 \in Nat /\ seen[p].version \in Nat
  BY DEF TypeOK, Seen
<1>1. CASE \E r0 \in Rev : ReadBoq(p, r0)
  <2>1. PICK r0 \in Rev : ReadBoq(p, r0)
    BY <1>1
  <2>2. [NothingSeen EXCEPT !.rev = r0, !.version = version[r0], !.priced = priced[r0]]
          \in Seen
    BY NothingType DEF TypeOK, Seen, NothingSeen
  <2>3. seen' \in [Request -> Seen] /\ pc' \in [Request -> PC]
    BY <2>1, <2>2 DEF TypeOK, ReadBoq, PC
  <2>4. QED
    BY <2>1, <2>3 DEF TypeOK, ReadBoq, boqVars
<1>2. CASE ReadBoqItems(p)
  <2>1. [seen[p] EXCEPT !.items = items[r]] \in Seen
    BY <1>r DEF TypeOK, Seen
  <2>2. seen' = [seen EXCEPT ![p] = [seen[p] EXCEPT !.items = items[r]]]
    BY <1>2 DEF ReadBoqItems
  <2>3. seen' \in [Request -> Seen]
    BY <2>1, <2>2 DEF TypeOK
  <2>4. pc' \in [Request -> PC]
    BY <1>2 DEF TypeOK, ReadBoqItems, PC
  <2>5. QED
    BY <1>2, <2>3, <2>4 DEF TypeOK, ReadBoqItems, boqVars
<1>3. CASE \E l \in Line, q \in Qty, x \in Rate : CreateItem(p, l, q, x)
  <2>1. PICK l \in Line, q \in Qty, x \in Rate : CreateItem(p, l, q, x)
    BY <1>3
  <2> DEFINE its == [items[r] EXCEPT ![l] = NewItem(q, x, version[r] + 1)]
  <2>2. its \in Contents
    BY <1>r, NewItemType DEF Contents
  <2>3. Write(p, its) /\ priced' = priced /\ sections' = sections
    BY <2>1 DEF CreateItem
  <2>4. attested' \subseteq Place
    BY <2>1, <1>r DEF TypeOK, CreateItem
  <2> HIDE DEF its
  <2>5. QED
    BY <2>2, <2>3, <2>4, WriteType DEF TypeOK
<1>4. CASE Recalculate(p)
  <2> DEFINE its == [l \in Line |-> IF seen[p].items[l] \in Item
                              THEN [items[r][l] EXCEPT !.changed = version[r] + 1]
                              ELSE items[r][l]]
  <2>1. ASSUME NEW l \in Line, seen[p].items[l] \in Item
        PROVE  [items[r][l] EXCEPT !.changed = version[r] + 1] \in Item
    <3>1. items[r][l] \in Item
      BY <1>4, <2>1 DEF Recalculate, Live
    <3>2. QED
      BY <3>1, <1>r DEF Item
  <2>2. its \in Contents
    BY <2>1, <1>r DEF Contents
  <2>3. Write(p, its) /\ UNCHANGED <<priced, sections, attested>>
    BY <1>4 DEF Recalculate
  <2> HIDE DEF its
  <2>4. QED
    BY <2>2, <2>3, WriteType DEF TypeOK
<1>5. CASE \E listed \in SUBSET Section, doc \in [Line -> (Qty \X Rate) \cup {<<>>}],
            mode \in BOOLEAN : UpdateDocument(p, listed, doc, mode)
  <2>1. PICK listed \in SUBSET Section, doc \in [Line -> (Qty \X Rate) \cup {<<>>}],
             mode \in BOOLEAN : UpdateDocument(p, listed, doc, mode)
    BY <1>5
  <2> DEFINE its == [l \in Line |-> IF SectionOf[l] \in listed
                             THEN Synced(seen[p].items[l], doc[l], version[r] + 1)
                             ELSE items[r][l]]
             gone == {l \in Line : items[r][l] \in Item /\ its[l] = Deleted}
             given == {l \in Live(its) : \/ items[r][l] \notin Item
                                         \/ its[l].qty # items[r][l].qty}
  <2>2. ASSUME NEW l \in Line
        PROVE  Synced(seen[p].items[l], doc[l], version[r] + 1)
                 \in Item \cup {Absent, Deleted}
    <3>1. CASE doc[l] = <<>>
      BY <3>1, <1>r DEF Synced, Contents
    <3>2. CASE doc[l] # <<>>
      <4>1. doc[l][1] \in Qty /\ doc[l][2] \in Rate
        BY <3>2
      <4>2. /\ Manual(doc[l][1]) \in Evidence(Qty) /\ Manual(doc[l][2]) \in Evidence(Rate)
            /\ NewItem(doc[l][1], doc[l][2], version[r] + 1) \in Item
        BY <4>1, <1>r, NewItemType DEF Manual, Evidence
      <4>3. CASE seen[p].items[l] \in Item
        BY <4>1, <4>2, <4>3, <3>2, <1>r DEF Synced, Item
      <4>4. CASE seen[p].items[l] \notin Item
        BY <4>2, <4>4, <3>2, <1>r DEF Synced, Contents
      <4>5. QED
        BY <4>3, <4>4
    <3>3. QED
      BY <3>1, <3>2
  <2>3. its \in Contents
    BY <2>2, <1>r DEF Contents
  <2>4. Write(p, its)
    BY <2>1 DEF UpdateDocument
  <2>5. sections' \in [Rev -> SUBSET Section] /\ priced' \in [Rev -> BOOLEAN]
    BY <2>1, <1>r DEF TypeOK, UpdateDocument
  <2>6. attested' = (attested \cup ({r} \X given)) \ ({r} \X gone)
    BY <2>1 DEF UpdateDocument
  <2>7. given \subseteq Line
    BY DEF Live
  <2> HIDE DEF its, given, gone
  <2>8. attested' \subseteq Place
    BY <2>6, <2>7, <1>r DEF TypeOK
  <2>9. QED
    BY <2>3, <2>4, <2>5, <2>8, WriteType DEF TypeOK
<1>6. CASE \E c \in Section : CreateSection(p, c)
  <2>1. PICK c \in Section : CreateSection(p, c)
    BY <1>6
  <2>2. Write(p, items[r]) /\ priced' = priced /\ attested' = attested
    BY <2>1 DEF CreateSection
  <2>3. sections' \in [Rev -> SUBSET Section]
    BY <2>1, <1>r DEF TypeOK, CreateSection
  <2>4. QED
    BY <2>2, <2>3, <1>r, WriteType DEF TypeOK
<1>7. CASE \E c \in Section : DeleteSection(p, c)
  <2>1. PICK c \in Section : DeleteSection(p, c)
    BY <1>7
  <2> DEFINE gone == {l \in Live(items[r]) : SectionOf[l] = c}
             its == [l \in Line |-> IF l \in gone THEN Deleted ELSE items[r][l]]
  <2>2. its \in Contents
    BY <1>r DEF Contents
  <2>3. Write(p, its) /\ priced' = priced /\ attested' = attested \ ({r} \X gone)
    BY <2>1 DEF DeleteSection
  <2>4. sections' \in [Rev -> SUBSET Section]
    BY <2>1, <1>r DEF TypeOK, DeleteSection
  <2> HIDE DEF its, gone
  <2>5. attested' \subseteq Place
    BY <2>3 DEF TypeOK
  <2>6. QED
    BY <2>2, <2>3, <2>4, <2>5, WriteType DEF TypeOK
<1>8. CASE \E c \in Section : UpdateSection(p, c)
  <2>1. Write(p, items[r]) /\ UNCHANGED <<priced, sections, attested>>
    BY <1>8 DEF UpdateSection
  <2>2. QED
    BY <2>1, <1>r, WriteType DEF TypeOK
<1>9. CASE Verify(p, "idle")
  BY <1>9, VerifyType
<1>10. QED
  BY <1>1, <1>2, <1>3, <1>4, <1>5, <1>6, <1>7, <1>8, <1>9 DEF DocumentRequest

\* So is what every other step changes.
LEMMA OtherType ==
  ASSUME TypeOK,
         \/ \E p \in Request : LockRequest(p) \/ TayqanRequest(p) \/ Abandon(p)
         \/ \E r \in Rev : \E e \in exceptions[r] : Resolve(r, e)
         \/ CreateProjectBoq
         \/ \E r \in Rev : CreateRevision(r)
         \/ CreateSampleRevision
  PROVE  TypeOK'
<1> USE RevType, NothingType
<1>1. ASSUME NEW p \in Request, Verify(p, "lockCheck")
      PROVE  TypeOK'
  BY <1>1, VerifyType
<1>2. ASSUME NEW p \in Request, LockCheck(p) \/ LockFoundLocked(p)
      PROVE  TypeOK'
  BY <1>2 DEF TypeOK, LockCheck, LockFoundLocked, PC, boqVars
<1>3. ASSUME NEW p \in Request, Lock(p)
      PROVE  TypeOK'
  <2> DEFINE r == seen[p].rev
  <2>1. r \in Rev
    BY DEF TypeOK, Seen
  <2>2. [sections |-> sections[r], items |-> items[r]]
          \in [sections: SUBSET Section, items: Contents]
    BY <2>1 DEF TypeOK
  <2>3. locked' \in [Rev -> BOOLEAN] /\ pc' \in [Request -> PC]
    BY <1>3, <2>1 DEF TypeOK, Lock, PC
  <2>4. snapshot' \in [Rev -> [sections: SUBSET Section, items: Contents]
                               \cup {NoSnapshot}]
    BY <1>3, <2>1, <2>2 DEF TypeOK, Lock
  <2>5. QED
    BY <1>3, <2>3, <2>4 DEF TypeOK, Lock
<1>4. ASSUME NEW p \in Request, RecordCompleted(p) \/ Abandon(p)
      PROVE  TypeOK'
  BY <1>4 DEF TypeOK, RecordCompleted, Abandon, Done, PC, boqVars
<1>5. ASSUME NEW p \in Request, NEW r \in Rev, TayqanCheck(p, r)
      PROVE  TypeOK'
  <2>1. [NothingSeen EXCEPT !.rev = r] \in Seen
    BY DEF Seen, NothingSeen
  <2>2. QED
    BY <1>5, <2>1 DEF TypeOK, TayqanCheck, PC, boqVars
<1>6. ASSUME NEW p \in Request, TayqanInsertSection(p)
      PROVE  TypeOK'
  <2>1. sections' \in [Rev -> SUBSET Section]
    BY <1>6, ConstantsAssumption DEF TypeOK, TayqanInsertSection
  <2>2. QED
    BY <1>6, <2>1 DEF TypeOK, TayqanInsertSection, Done, PC
<1>7. ASSUME NEW r \in Rev, NEW e \in exceptions[r], Resolve(r, e)
      PROVE  TypeOK'
  <2>0. e \in Exception /\ version[r] \in Nat
    BY DEF TypeOK
  <2>1. [e EXCEPT !.resolved = TRUE, !.at = version[r]] \in Exception
    BY <2>0 DEF Exception
  <2>2. exceptions' \in [Rev -> SUBSET Exception]
    BY <1>7, <2>1 DEF TypeOK, Resolve
  <2>3. QED
    BY <1>7, <2>2 DEF TypeOK, Resolve, requestVars
<1>8. ASSUME CreateProjectBoq
      PROVE  TypeOK'
  BY <1>8, ConstantsAssumption DEF TypeOK, CreateProjectBoq, requestVars
<1>9. ASSUME NEW r \in Rev, NEW secs \in SUBSET Section, NEW its \in Contents,
             NEW mode \in BOOLEAN, AddRevision(r, secs, its, mode),
             attested' \subseteq Place
      PROVE  TypeOK'
  BY <1>9 DEF TypeOK, AddRevision, requestVars
<1>10. ASSUME NEW r \in Rev, CreateRevision(r)
       PROVE  TypeOK'
  <2> DEFINE copy(l) == [items[r][l] EXCEPT
        !.qtyEvidence = CopyOf(@, items[r][l].qty, <<r, l>>),
        !.rateEvidence = CopyOf(@, items[r][l].rate, <<r, l>>),
        !.changed = 1]
             its == [l \in Line |-> IF items[r][l] \in Item THEN copy(l) ELSE Absent]
  <2>1. ASSUME NEW l \in Line, items[r][l] \in Item
        PROVE  copy(l) \in Item
    BY <2>1 DEF Item, CopyOf, Evidence
  <2>2. its \in Contents
    BY <2>1 DEF Contents
  <2>3. AddRevision(r + 1, sections[r], its, priced[r])
    BY <1>10 DEF CreateRevision
  <2>4. r + 1 \in Rev
    BY <2>3 DEF AddRevision
  <2>5. attested' \subseteq Place
    <3> DEFINE carried == {k \in Live(items[r]) :
             <<r, k>> \in attested /\ items[r][k].qtyEvidence.value = items[r][k].qty}
    <3>1. carried \subseteq Line
      BY DEF Live
    <3>2. attested' = attested \cup {<<r + 1, l>> : l \in carried}
      BY <1>10 DEF CreateRevision
    <3> HIDE DEF carried
    <3>3. QED
      BY <2>4, <3>1, <3>2 DEF TypeOK
  <2>6. sections[r] \in SUBSET Section /\ priced[r] \in BOOLEAN
    BY DEF TypeOK
  <2> HIDE DEF its
  <2>7. QED
    BY <1>9, <2>2, <2>3, <2>4, <2>5, <2>6
<1>11. ASSUME CreateSampleRevision
       PROVE  TypeOK'
  <2>1. PICK r \in Rev, c \in Section : AddRevision(r, {c}, Nothing, TRUE)
    BY <1>11 DEF CreateSampleRevision
  <2>2. attested' \subseteq Place
    BY <1>11 DEF TypeOK, CreateSampleRevision
  <2>3. QED
    BY <1>9, <2>1, <2>2
<1>12. QED
  BY <1>1, <1>2, <1>3, <1>4, <1>5, <1>6, <1>7, <1>8, <1>10, <1>11
     DEF LockRequest, TayqanRequest

\* The initial states are well typed.
LEMMA InitType == Init => TypeOK
<1> SUFFICES ASSUME Init PROVE TypeOK
  OBVIOUS
<1> USE RevType, NothingType
<1>1. PICK v \in {0, 1}, its \in [Line -> LegacyItem \cup {Absent}] :
        /\ version = [r \in Rev |-> IF r = 1 THEN v ELSE 0]
        /\ items = [r \in Rev |-> IF r = 1 THEN its ELSE Nothing]
        /\ sections = [r \in Rev |-> IF r = 1 /\ v = 1 THEN Template ELSE {}]
  BY DEF Init
<1>2. LegacyItem \subseteq Item
  <2>1. NoEvidence \in Evidence(Qty) /\ NoEvidence \in Evidence(Rate)
    BY DEF NoEvidence, Evidence
  <2>2. QED
    BY <2>1 DEF LegacyItem, Item
<1>3. items \in [Rev -> Contents]
  BY <1>1, <1>2 DEF Contents
<1>4. version \in [Rev -> Nat] /\ sections \in [Rev -> SUBSET Section]
  BY <1>1, ConstantsAssumption
<1>5. QED
  BY <1>3, <1>4 DEF Init, TypeOK, PC

LEMMA TypeStep == TypeOK /\ [Next]_vars => TypeOK'
<1> SUFFICES ASSUME TypeOK, [Next]_vars PROVE TypeOK'
  OBVIOUS
<1>1. CASE Next
  BY <1>1, ItemRequestType, DocumentRequestType, OtherType DEF Next
<1>2. CASE UNCHANGED vars
  BY <1>2 DEF TypeOK, vars, boqVars, requestVars
<1>3. QED
  BY <1>1, <1>2

\* Every reachable state is well typed: in particular every line of every
\* revision, read copies and snapshots included, is absent, deleted or an item
\* with both of its evidence rows.
THEOREM TypeCorrect == Spec => []TypeOK
  BY InitType, TypeStep, PTL DEF Spec

-----------------------------------------------------------------------------
(* Verification, finalisation and snapshots.                               *)

\* The inductive invariant, one revision and one request at a time.
RevisionOK(r) ==
  /\ ~Exists(r) =>
       ~locked[r] /\ verified[r] = 0 /\ exceptions[r] = {} /\ snapshot[r] = NoSnapshot
  /\ \A l \in Live(items[r]) : items[r][l].changed <= version[r]
  /\ \A e \in exceptions[r] : e.line \in Live(items[r])
  /\ verified[r] # 0 =>
       /\ verified[r] = version[r]
       /\ \A f \in Findings(items[r], priced[r]) : \E e \in exceptions[r] : Key(e) = f
       /\ \A e \in exceptions[r] : e.resolved => e.at >= items[r][e.line].changed
  /\ locked[r] => Acceptable(r) /\ verified[r] = version[r]
  /\ IF locked[r] THEN snapshot[r] # NoSnapshot /\ snapshot[r].items = items[r]
     ELSE snapshot[r] = NoSnapshot

ReadOK(p) ==
  pc[p] \in {"docRead", "docReady"} =>
    LET r == seen[p].rev IN
    /\ seen[p].version \in 1..version[r]
    /\ seen[p].version = version[r] =>
         /\ seen[p].priced = priced[r]
         /\ pc[p] = "docReady" => seen[p].items = items[r]

LEMMA InductiveParts ==
  Inductive <=> /\ TypeOK /\ (\A r \in Rev : RevisionOK(r))
                /\ \A p \in Request : ReadOK(p)
  BY DEF Inductive, RevisionOK, ReadOK, UnbornClean, RowsDated, DocumentReads,
         VerificationCurrent, LockedIsAcceptable, SnapshotIsContent

LEMMA InductivePartsPrimed ==
  ASSUME TypeOK', \A r \in Rev : RevisionOK(r)', \A p \in Request : ReadOK(p)'
  PROVE  Inductive'
  BY DEF Inductive, RevisionOK, ReadOK, UnbornClean, RowsDated, DocumentReads,
         VerificationCurrent, LockedIsAcceptable, SnapshotIsContent

\* A step leaves alone the revisions whose rows it leaves alone...
LEMMA Untouched ==
  ASSUME NEW r \in Rev, RevisionOK(r),
         version'[r] = version[r], verified'[r] = verified[r], locked'[r] = locked[r],
         priced'[r] = priced[r], items'[r] = items[r],
         exceptions'[r] = exceptions[r], snapshot'[r] = snapshot[r]
  PROVE  RevisionOK(r)'
  BY DEF RevisionOK, Exists, Acceptable, Answered

\* ...and the reads of revisions it leaves alone or gives a new version.
LEMMA UntouchedRead ==
  ASSUME TypeOK, NEW p \in Request, ReadOK(p), pc'[p] = pc[p], seen'[p] = seen[p],
         NEW r \in Rev, r = seen[p].rev, version'[r] \in Nat,
         \/ version'[r] = version[r] /\ priced'[r] = priced[r] /\ items'[r] = items[r]
         \/ version'[r] > version[r]
  PROVE  ReadOK(p)'
<1>1. version[r] \in Nat
  BY DEF TypeOK
<1>2. QED
  BY <1>1 DEF ReadOK

\* An idle request, or one that is not about a document, has read none.
LEMMA NoRead ==
  ASSUME NEW p \in Request, pc'[p] \notin {"docRead", "docReady"}
  PROVE  ReadOK(p)'
  BY DEF ReadOK

\* A step that writes no item keeps what the other requests have read.
LEMMA ReadsKept ==
  ASSUME TypeOK, UNCHANGED <<version, priced, items>>, NEW p \in Request,
         \A q \in Request : ReadOK(q), pc'[p] \notin {"docRead", "docReady"},
         \A q \in Request \ {p} : pc'[q] = pc[q] /\ seen'[q] = seen[q]
  PROVE  \A q \in Request : ReadOK(q)'
<1>1. ASSUME NEW q \in Request
      PROVE  ReadOK(q)'
  <2>1. CASE q = p
    BY <2>1, NoRead
  <2>2. CASE q # p
    <3>1. seen[q].rev \in Rev
      BY DEF TypeOK, Seen
    <3>2. version'[seen[q].rev] \in Nat
      BY <3>1 DEF TypeOK
    <3>3. QED
      BY <2>2, <3>1, <3>2, UntouchedRead
  <2>3. QED
    BY <2>1, <2>2
<1>2. QED
  BY <1>1

\* A step that only reads keeps the invariant.
LEMMA ReadOnly ==
  ASSUME TypeOK, NEW p \in Request,
         UNCHANGED <<version, verified, locked, priced, items, exceptions, snapshot>>,
         \A s \in Rev : RevisionOK(s), \A q \in Request : ReadOK(q),
         pc'[p] \notin {"docRead", "docReady"},
         \A q \in Request \ {p} : pc'[q] = pc[q] /\ seen'[q] = seen[q]
  PROVE  (\A s \in Rev : RevisionOK(s)') /\ (\A q \in Request : ReadOK(q)')
<1>1. ASSUME NEW s \in Rev
      PROVE  RevisionOK(s)'
  BY Untouched
<1>2. QED
  BY <1>1, ReadsKept

\* Every writer keeps the invariant: the claim makes the revision a new version
\* that nobody has read or verified.
LEMMA WriteKeeps ==
  ASSUME TypeOK, TypeOK', NEW p \in Request, NEW its, Write(p, its),
         \A s \in Rev : RevisionOK(s), \A q \in Request : ReadOK(q),
         \A l \in Live(its) : its[l].changed <= version[seen[p].rev] + 1,
         \A s \in Rev \ {seen[p].rev} : priced'[s] = priced[s]
  PROVE  (\A s \in Rev : RevisionOK(s)') /\ (\A q \in Request : ReadOK(q)')
<1>0. PICK r \in Rev : r = seen[p].rev
  BY DEF TypeOK, Seen
<1>r. version[r] \in Nat /\ r = seen[p].rev
  BY <1>0 DEF TypeOK
<1>1. /\ ~locked[r] /\ ~locked'[r] /\ verified'[r] = 0
      /\ version'[r] = version[r] + 1 /\ items'[r] = its
      /\ exceptions'[r] = {e \in exceptions[r] : its[e.line] \in Item}
      /\ snapshot'[r] = snapshot[r]
  BY <1>r DEF TypeOK, Write, Claim
<1>2. ASSUME NEW s \in Rev, s # r
      PROVE  RevisionOK(s)'
  <2>1. /\ version'[s] = version[s] /\ verified'[s] = verified[s]
        /\ locked'[s] = locked[s] /\ priced'[s] = priced[s] /\ items'[s] = items[s]
        /\ exceptions'[s] = exceptions[s] /\ snapshot'[s] = snapshot[s]
    BY <1>2, <1>r DEF TypeOK, Write, Claim
  <2>2. QED
    BY <2>1, Untouched
<1>3. RevisionOK(r)'
  <2>1. snapshot'[r] = NoSnapshot
    BY <1>1, <1>r DEF RevisionOK
  <2>2. \A l \in Live(items'[r]) : items'[r][l].changed <= version'[r]
    BY <1>1, <1>r
  <2>3. \A e \in exceptions'[r] : e.line \in Live(items'[r])
    <3>1. \A e \in exceptions[r] : e.line \in Line
      BY <1>r DEF TypeOK, Exception
    <3>2. QED
      BY <1>1, <3>1 DEF Live
  <2>4. version'[r] > 0
    BY <1>1, <1>r
  <2>5. QED
    BY <1>1, <2>1, <2>2, <2>3, <2>4 DEF RevisionOK, Exists
<1>4. ASSUME NEW q \in Request
      PROVE  ReadOK(q)'
  <2>1. CASE q = p
    <3>1. pc'[p] = "idle"
      BY DEF TypeOK, Write, Done
    <3>2. QED
      BY <2>1, <3>1, NoRead
  <2>2. CASE q # p
    <3>1. pc'[q] = pc[q] /\ seen'[q] = seen[q]
      BY <2>2 DEF TypeOK, Write, Done
    <3>2. seen[q].rev \in Rev /\ version'[seen[q].rev] \in Nat
      BY DEF TypeOK, Seen
    <3>3. CASE seen[q].rev = r
      <4>1. version'[seen[q].rev] > version[seen[q].rev]
        BY <1>1, <1>r, <3>3
      <4>2. QED
        BY <3>1, <3>2, <4>1, UntouchedRead
    <3>4. CASE seen[q].rev # r
      <4>1. /\ version'[seen[q].rev] = version[seen[q].rev]
            /\ priced'[seen[q].rev] = priced[seen[q].rev]
            /\ items'[seen[q].rev] = items[seen[q].rev]
        BY <1>r, <3>2, <3>4 DEF TypeOK, Write, Claim
      <4>2. QED
        BY <3>1, <3>2, <4>1, UntouchedRead
    <3>5. QED
      BY <3>3, <3>4
  <2>3. QED
    BY <2>1, <2>2
<1>5. QED
  BY <1>2, <1>3, <1>4

\* The writers that leave the pricing mode alone, and what they write.
LEMMA ItemRequestKeeps ==
  ASSUME TypeOK, TypeOK', NEW p \in Request, ItemRequest(p),
         \A s \in Rev : RevisionOK(s), \A q \in Request : ReadOK(q)
  PROVE  (\A s \in Rev : RevisionOK(s)') /\ (\A q \in Request : ReadOK(q)')
<1>0. PICK r \in Rev : r = seen[p].rev
  BY DEF TypeOK, Seen
<1>r. /\ seen[p].items \in Contents /\ items[r] \in Contents /\ version[r] \in Nat
      /\ \A l \in Live(items[r]) : items[r][l].changed \in Nat
                                 /\ items[r][l].changed <= version[r]
  BY <1>0 DEF TypeOK, Seen, RevisionOK, Live, Item
<1>w. ASSUME NEW its, Write(p, its), priced' = priced,
             \A l \in Live(its) : its[l].changed <= version[r] + 1
      PROVE  (\A s \in Rev : RevisionOK(s)') /\ (\A q \in Request : ReadOK(q)')
  BY <1>w, <1>0, WriteKeeps
<1>t. ASSUME NEW l \in Line, NEW new,
             new \in Item => new.changed <= version[r] + 1
      PROVE  LET its == [items[r] EXCEPT ![l] = new]
             IN  \A k \in Live(its) : its[k].changed <= version[r] + 1
  <2> DEFINE its == [items[r] EXCEPT ![l] = new]
  <2>1. its[l] = new /\ \A k \in Line \ {l} : its[k] = items[r][k]
    BY <1>r DEF Contents
  <2> HIDE DEF its
  <2>2. ASSUME NEW k \in Live(its)
        PROVE  its[k].changed <= version[r] + 1
    <3>1. CASE k = l
      BY <3>1, <2>1, <2>2, <1>t DEF Live
    <3>2. CASE k # l
      <4>1. k \in Live(items[r]) /\ its[k] = items[r][k]
        BY <3>2, <2>1, <2>2 DEF Live
      <4>2. QED
        BY <4>1, <1>r
    <3>3. QED
      BY <3>1, <3>2
  <2>3. QED
    BY <2>2 DEF its
<1>1. CASE (\E r0 \in Rev, l \in Line : ReadItem(p, r0, l)) \/ ReadItemBoq(p)
  <2>1. /\ UNCHANGED <<version, verified, locked, priced, items, exceptions, snapshot>>
        /\ pc'[p] \notin {"docRead", "docReady"}
        /\ \A q \in Request \ {p} : pc'[q] = pc[q] /\ seen'[q] = seen[q]
    BY <1>1 DEF TypeOK, ReadItem, ReadItemBoq, boqVars
  <2>2. QED
    BY <2>1, ReadOnly
<1>2. CASE \E l \in Line, q \in Qty, x \in Rate, given \in SUBSET {"qty", "rate"} :
            UpdateItem(p, l, q, x, given)
  <2>1. PICK l \in Line, q \in Qty, x \in Rate, given \in SUBSET {"qty", "rate"} :
            UpdateItem(p, l, q, x, given)
    BY <1>2
  <2> DEFINE it == seen[p].items[l]
             cur == items[r][l]
             told == given \cup (IF q # it.qty THEN {"qty"} ELSE {})
                           \cup (IF x # it.rate THEN {"rate"} ELSE {})
             new == [qty |-> q, rate |-> x,
               qtyEvidence |-> IF "qty" \in told THEN Manual(q) ELSE cur.qtyEvidence,
               rateEvidence |-> IF "rate" \in told THEN Manual(x) ELSE cur.rateEvidence,
               changed |-> version[r] + 1]
             its == [items[r] EXCEPT ![l] = new]
  <2>2. Write(p, its) /\ priced' = priced
    BY <2>1, <1>0 DEF UpdateItem
  <2>3. new.changed <= version[r] + 1
    BY <1>r
  <2> HIDE DEF new
  <2>4. \A k \in Live(its) : its[k].changed <= version[r] + 1
    BY <2>3, <1>t
  <2> HIDE DEF its
  <2>5. QED
    BY <2>2, <2>4, <1>w
<1>3. CASE \E l \in Line : ConfirmItem(p, l)
  <2>1. PICK l \in Line : ConfirmItem(p, l)
    BY <1>3
  <2> DEFINE new == [items[r][l] EXCEPT
                       !.qtyEvidence = Manual(seen[p].items[l].qty),
                       !.rateEvidence = Manual(seen[p].items[l].rate)]
             its == [items[r] EXCEPT ![l].qtyEvidence = Manual(seen[p].items[l].qty),
                                     ![l].rateEvidence = Manual(seen[p].items[l].rate)]
  <2>2. items[r][l] \in Item /\ Write(p, its) /\ priced' = priced
    BY <2>1, <1>0 DEF ConfirmItem
  <2>3. its = [items[r] EXCEPT ![l] = new]
    BY <1>r DEF Contents
  <2>4. new.changed = items[r][l].changed
    BY <2>2 DEF Item
  <2>5. new.changed <= version[r] + 1
    BY <2>2, <2>4, <1>r DEF Live
  <2> HIDE DEF new, its
  <2>6. QED
    BY <2>2, <2>3, <2>5, <1>t, <1>w
<1>4. CASE \E l \in Line : DeleteItem(p, l)
  <2>1. PICK l \in Line : DeleteItem(p, l)
    BY <1>4
  <2>2. Write(p, [items[r] EXCEPT ![l] = Deleted]) /\ priced' = priced
    BY <2>1, <1>0 DEF DeleteItem
  <2>3. QED
    BY <2>2, <1>t, <1>w, AtomsAssumption
<1>5. CASE \E l \in Line, k \in Line : DuplicateItem(p, l, k)
  <2>1. PICK l \in Line, k \in Line : DuplicateItem(p, l, k)
    BY <1>5
  <2> DEFINE it == seen[p].items[l]
             cur == items[r][l]
             new == [qty |-> it.qty, rate |-> it.rate,
               qtyEvidence |-> CopyOf(cur.qtyEvidence, it.qty, <<r, l>>),
               rateEvidence |-> CopyOf(cur.rateEvidence, it.rate, <<r, l>>),
               changed |-> version[r] + 1]
             its == [items[r] EXCEPT ![k] = new]
  <2>2. Write(p, its) /\ priced' = priced
    BY <2>1, <1>0 DEF DuplicateItem
  <2>3. new.changed <= version[r] + 1
    BY <1>r
  <2> HIDE DEF new
  <2>4. \A m \in Live(its) : its[m].changed <= version[r] + 1
    BY <2>3, <1>t
  <2> HIDE DEF its
  <2>5. QED
    BY <2>2, <2>4, <1>w
<1>6. QED
  BY <1>1, <1>2, <1>3, <1>4, <1>5 DEF ItemRequest
\* The writers of whole documents and sections.
LEMMA DocumentRequestKeeps ==
  ASSUME TypeOK, TypeOK', NEW p \in Request, DocumentRequest(p), ~Verify(p, "idle"),
         \A s \in Rev : RevisionOK(s), \A q \in Request : ReadOK(q)
  PROVE  (\A s \in Rev : RevisionOK(s)') /\ (\A q \in Request : ReadOK(q)')
<1>0. PICK r \in Rev : r = seen[p].rev
  BY DEF TypeOK, Seen
<1>r. /\ seen[p].items \in Contents /\ items[r] \in Contents /\ version[r] \in Nat
      /\ \A l \in Live(items[r]) : items[r][l].changed \in Nat
                                 /\ items[r][l].changed <= version[r]
  BY <1>0 DEF TypeOK, Seen, RevisionOK, Live, Item
<1>w. ASSUME NEW its, Write(p, its), \A s \in Rev \ {r} : priced'[s] = priced[s],
             \A l \in Live(its) : its[l].changed <= version[r] + 1
      PROVE  (\A s \in Rev : RevisionOK(s)') /\ (\A q \in Request : ReadOK(q)')
  BY <1>w, <1>0, WriteKeeps
<1>v. ASSUME UNCHANGED boqVars, pc[p] # "docReady", ReadOK(p)',
             \A q \in Request \ {p} : pc'[q] = pc[q] /\ seen'[q] = seen[q]
      PROVE  (\A s \in Rev : RevisionOK(s)') /\ (\A q \in Request : ReadOK(q)')
  <2>1. ASSUME NEW s \in Rev
        PROVE  RevisionOK(s)'
    BY <1>v, Untouched DEF boqVars
  <2>2. ASSUME NEW q \in Request, q # p
        PROVE  ReadOK(q)'
    <3>1. seen[q].rev \in Rev
      BY DEF TypeOK, Seen
    <3>2. version'[seen[q].rev] \in Nat
      BY <3>1 DEF TypeOK
    <3>3. QED
      BY <1>v, <2>2, <3>1, <3>2, UntouchedRead DEF boqVars
  <2>3. QED
    BY <1>v, <2>1, <2>2
<1>1. CASE \E r0 \in Rev : ReadBoq(p, r0)
  <2>1. PICK r0 \in Rev : ReadBoq(p, r0)
    BY <1>1
  <2>2. /\ pc'[p] = "docRead"
        /\ seen'[p] = [NothingSeen EXCEPT !.rev = r0, !.version = version[r0],
                                          !.priced = priced[r0]]
    BY <2>1 DEF TypeOK, ReadBoq
  <2>3. /\ seen'[p].rev = r0 /\ seen'[p].version = version[r0]
        /\ seen'[p].priced = priced[r0]
    BY <2>2 DEF NothingSeen
  <2>4. version[r0] \in 1..version[r0]
    <3>1. version[r0] \in Nat /\ version[r0] > 0
      BY <2>1 DEF TypeOK, ReadBoq, Exists
    <3>2. QED
      BY <3>1
  <2>5. ReadOK(p)'
    BY <2>1, <2>2, <2>3, <2>4 DEF ReadOK, ReadBoq, boqVars
  <2>6. /\ UNCHANGED boqVars /\ pc[p] # "docReady"
        /\ \A q \in Request \ {p} : pc'[q] = pc[q] /\ seen'[q] = seen[q]
    BY <2>1 DEF TypeOK, ReadBoq
  <2>7. QED
    BY <2>5, <2>6, <1>v
<1>2. CASE ReadBoqItems(p)
  <2>1. /\ UNCHANGED boqVars /\ pc[p] = "docRead"
        /\ \A q \in Request \ {p} : pc'[q] = pc[q] /\ seen'[q] = seen[q]
    BY <1>2 DEF TypeOK, ReadBoqItems
  <2>2. seen'[p] = [seen[p] EXCEPT !.items = items[r]]
    BY <1>2, <1>0 DEF TypeOK, ReadBoqItems
  <2>3. /\ seen'[p].rev = r /\ seen'[p].version = seen[p].version
        /\ seen'[p].priced = seen[p].priced /\ seen'[p].items = items[r]
    BY <2>2, <1>0 DEF TypeOK, Seen
  <2>4. ReadOK(p)'
    BY <1>0, <2>1, <2>3 DEF ReadOK, boqVars
  <2>5. QED
    BY <2>1, <2>4, <1>v
<1>3. CASE \E l \in Line, q \in Qty, x \in Rate : CreateItem(p, l, q, x)
  <2>1. PICK l \in Line, q \in Qty, x \in Rate : CreateItem(p, l, q, x)
    BY <1>3
  <2> DEFINE its == [items[r] EXCEPT ![l] = NewItem(q, x, version[r] + 1)]
  <2>2. Write(p, its) /\ priced' = priced
    BY <2>1, <1>0 DEF CreateItem
  <2>3. its[l].changed = version[r] + 1 /\ \A k \in Line \ {l} : its[k] = items[r][k]
    BY <1>r DEF Contents, NewItem
  <2> HIDE DEF its
  <2>4. \A k \in Live(its) : its[k].changed <= version[r] + 1
    BY <2>3, <1>r DEF Live
  <2>5. QED
    BY <2>2, <2>4, <1>w
<1>4. CASE Recalculate(p)
  <2> DEFINE its == [l \in Line |-> IF seen[p].items[l] \in Item
                              THEN [items[r][l] EXCEPT !.changed = version[r] + 1]
                              ELSE items[r][l]]
  <2>1. Write(p, its) /\ priced' = priced
    BY <1>4, <1>0 DEF Recalculate
  <2>2. \A l \in Line : seen[p].items[l] \in Item => items[r][l] \in Item
    BY <1>4, <1>0 DEF Recalculate, Live
  <2>3. ASSUME NEW l \in Live(its)
        PROVE  its[l].changed <= version[r] + 1
    <3>1. CASE seen[p].items[l] \in Item
      <4>1. its[l] = [items[r][l] EXCEPT !.changed = version[r] + 1] /\ items[r][l] \in Item
        BY <3>1, <2>2 DEF Live
      <4>2. its[l].changed = version[r] + 1
        BY <4>1 DEF Item
      <4>3. QED
        BY <4>2, <1>r
    <3>2. CASE seen[p].items[l] \notin Item
      <4>1. its[l] = items[r][l] /\ l \in Live(items[r])
        BY <3>2 DEF Live
      <4>2. QED
        BY <4>1, <1>r
    <3>3. QED
      BY <3>1, <3>2
  <2> HIDE DEF its
  <2>4. QED
    BY <2>1, <2>3, <1>w
<1>5. CASE \E listed \in SUBSET Section, doc \in [Line -> (Qty \X Rate) \cup {<<>>}],
            mode \in BOOLEAN : UpdateDocument(p, listed, doc, mode)
  <2>1. PICK listed \in SUBSET Section, doc \in [Line -> (Qty \X Rate) \cup {<<>>}],
             mode \in BOOLEAN : UpdateDocument(p, listed, doc, mode)
    BY <1>5
  <2> DEFINE its == [l \in Line |-> IF SectionOf[l] \in listed
                             THEN Synced(seen[p].items[l], doc[l], version[r] + 1)
                             ELSE items[r][l]]
  <2>2. /\ Write(p, its) /\ \A s \in Rev \ {r} : priced'[s] = priced[s]
        /\ pc[p] = "docReady" /\ version[r] = seen[p].version
    <3>1. Write(p, its) /\ pc[p] = "docReady" /\ priced' = [priced EXCEPT ![r] = mode]
      BY <2>1, <1>0 DEF UpdateDocument
    <3>2. version[r] = seen[p].version
      BY <3>1, <1>0 DEF Write, Claim
    <3>3. QED
      BY <3>1, <3>2 DEF TypeOK
  <2>3. seen[p].items = items[r]
    BY <2>2, <1>0 DEF ReadOK
  <2>4. ASSUME NEW l \in Live(its)
        PROVE  its[l].changed <= version[r] + 1
    <3>1. CASE its[l] = items[r][l]
      BY <3>1, <1>r DEF Live
    <3>2. CASE its[l] # items[r][l]
      <4>1. l \in Line /\ its[l] = Synced(items[r][l], doc[l], version[r] + 1)
        BY <3>2, <2>3 DEF Live
      <4>2. its[l] = items[r][l] \/ its[l] = Deleted \/ its[l].changed = version[r] + 1
        BY <4>1 DEF Synced, NewItem
      <4>3. its[l].changed = version[r] + 1
        BY <4>2, <3>2, AtomsAssumption DEF Live
      <4>4. QED
        BY <4>3, <1>r
    <3>3. QED
      BY <3>1, <3>2
  <2> HIDE DEF its
  <2>5. QED
    BY <2>2, <2>4, <1>w
<1>6. CASE \E c \in Section : CreateSection(p, c) \/ UpdateSection(p, c)
  <2>1. Write(p, items[r]) /\ priced' = priced
    BY <1>6, <1>0 DEF CreateSection, UpdateSection
  <2>2. \A l \in Live(items[r]) : items[r][l].changed <= version[r] + 1
    BY <1>r
  <2>3. QED
    BY <2>1, <2>2, <1>w
<1>7. CASE \E c \in Section : DeleteSection(p, c)
  <2>1. PICK c \in Section : DeleteSection(p, c)
    BY <1>7
  <2> DEFINE gone == {l \in Live(items[r]) : SectionOf[l] = c}
             its == [l \in Line |-> IF l \in gone THEN Deleted ELSE items[r][l]]
  <2>2. Write(p, its) /\ priced' = priced
    BY <2>1, <1>0 DEF DeleteSection
  <2>3. \A l \in Live(its) : its[l] = items[r][l] /\ l \in Live(items[r])
    BY AtomsAssumption DEF Live
  <2> HIDE DEF its, gone
  <2>4. \A l \in Live(its) : its[l].changed <= version[r] + 1
    BY <2>3, <1>r
  <2>5. QED
    BY <2>2, <2>4, <1>w
<1>8. QED
  BY <1>1, <1>2, <1>3, <1>4, <1>5, <1>6, <1>7 DEF DocumentRequest
\* A verification that commits has read the revision as it is, and leaves on record
\* exactly the findings of that revision.
LEMMA VerifyKeeps ==
  ASSUME TypeOK, TypeOK', NEW p \in Request, NEW next \in {"idle", "lockCheck"},
         Verify(p, next),
         \A s \in Rev : RevisionOK(s), \A q \in Request : ReadOK(q)
  PROVE  (\A s \in Rev : RevisionOK(s)') /\ (\A q \in Request : ReadOK(q)')
<1>0. PICK r \in Rev : r = seen[p].rev
  BY DEF TypeOK, Seen
<1>1. /\ ~locked[r] /\ version[r] = seen[p].version /\ pc[p] = "docReady"
  BY <1>0 DEF Verify
<1>2. /\ seen[p].items = items[r] /\ seen[p].priced = priced[r] /\ version[r] > 0
  BY <1>0, <1>1 DEF ReadOK, TypeOK
<1> DEFINE kept == Kept(exceptions[r], items[r], priced[r])
           raised == Raised(exceptions[r], items[r], priced[r])
<1>3. /\ verified'[r] = version[r] /\ exceptions'[r] = kept \cup raised
      /\ ~locked'[r] /\ snapshot'[r] = snapshot[r] /\ items'[r] = items[r]
      /\ priced'[r] = priced[r] /\ version'[r] = version[r]
  BY <1>0, <1>1, <1>2 DEF TypeOK, Verify
<1>4. /\ \A e \in kept : e \in exceptions[r] /\ e.at >= items[r][e.line].changed
      /\ \A e \in kept : e.line \in Live(items[r])
  <2>1. \A e \in kept : /\ e \in exceptions[r] /\ e \in Exception
                        /\ items[r][e.line].changed <= e.at
    BY DEF TypeOK, Kept
  <2>2. \A e \in exceptions[r] : e.line \in Live(items[r])
    BY DEF RevisionOK
  <2>3. \A e \in kept : items[r][e.line].changed \in Nat /\ e.at \in Nat
    BY <2>1, <2>2 DEF Live, Item, Exception
  <2> HIDE DEF kept
  <2>4. QED
    BY <2>1, <2>2, <2>3
<1>5. \A f \in Findings(items[r], priced[r]) : f = <<f[1], f[2]>> /\ f[1] \in Live(items[r])
  BY DEF Findings
<1>6. \A e \in raised : ~e.resolved /\ e.line \in Live(items[r])
  BY <1>5 DEF Raised
<1>7. ASSUME NEW f \in Findings(items[r], priced[r])
      PROVE  \E e \in kept \cup raised : Key(e) = f
  <2>1. CASE f \in {Key(e) : e \in kept}
    BY <2>1
  <2>2. CASE f \notin {Key(e) : e \in kept}
    <3> DEFINE new == [line |-> f[1], value |-> f[2], resolved |-> FALSE, at |-> 0]
    <3>1. new \in raised
      BY <2>2 DEF Raised
    <3>2. Key(new) = f
      BY <1>5 DEF Key
    <3> HIDE DEF new, raised, kept
    <3>3. QED
      BY <3>1, <3>2
  <2>3. QED
    BY <2>1, <2>2
<1> HIDE DEF kept, raised
<1>8. RevisionOK(r)'
  <2>1. \A l \in Live(items'[r]) : items'[r][l].changed <= version'[r]
    BY <1>3 DEF RevisionOK
  <2>2. \A e \in exceptions'[r] : e.line \in Live(items'[r])
    BY <1>3, <1>4, <1>6
  <2>3. \A e \in exceptions'[r] : e.resolved => e.at >= items'[r][e.line].changed
    BY <1>3, <1>4, <1>6
  <2>4. \A f \in Findings(items'[r], priced'[r]) : \E e \in exceptions'[r] : Key(e) = f
    BY <1>3, <1>7
  <2>5. snapshot'[r] = NoSnapshot
    BY <1>1, <1>3 DEF RevisionOK
  <2>6. verified'[r] = version'[r] /\ version'[r] > 0 /\ ~locked'[r]
    BY <1>2, <1>3
  <2>7. QED
    BY <2>1, <2>2, <2>3, <2>4, <2>5, <2>6 DEF RevisionOK, Exists
<1>9. ASSUME NEW s \in Rev, s # r
      PROVE  RevisionOK(s)'
  <2>1. /\ version'[s] = version[s] /\ verified'[s] = verified[s]
        /\ locked'[s] = locked[s] /\ priced'[s] = priced[s] /\ items'[s] = items[s]
        /\ exceptions'[s] = exceptions[s] /\ snapshot'[s] = snapshot[s]
    BY <1>9, <1>0 DEF TypeOK, Verify
  <2>2. QED
    BY <2>1, Untouched
<1>10. \A q \in Request : ReadOK(q)'
  <2>1. /\ UNCHANGED <<version, priced, items>> /\ pc'[p] \notin {"docRead", "docReady"}
        /\ \A q \in Request \ {p} : pc'[q] = pc[q] /\ seen'[q] = seen[q]
    BY DEF TypeOK, Verify
  <2>2. QED
    BY <2>1, ReadsKept
<1>11. QED
  BY <1>8, <1>9, <1>10

\* The lock reads nothing the verification read: that verifiedVersion is the
\* current version stands for it.
LEMMA LockKeeps ==
  ASSUME TypeOK, TypeOK', NEW p \in Request, Lock(p),
         \A s \in Rev : RevisionOK(s), \A q \in Request : ReadOK(q)
  PROVE  (\A s \in Rev : RevisionOK(s)') /\ (\A q \in Request : ReadOK(q)')
<1>0. PICK r \in Rev : r = seen[p].rev
  BY DEF TypeOK, Seen
<1>1. ~locked[r] /\ Lockable(r)
  BY <1>0 DEF Lock
<1>2. /\ locked'[r] /\ snapshot'[r] = [sections |-> sections[r], items |-> items[r]]
      /\ version'[r] = version[r] /\ verified'[r] = verified[r]
      /\ priced'[r] = priced[r] /\ items'[r] = items[r] /\ exceptions'[r] = exceptions[r]
  BY <1>0 DEF TypeOK, Lock
<1>3. Acceptable(r)
  <2>1. ASSUME NEW f \in Findings(items[r], priced[r])
        PROVE  Answered(r, f)
    <3>1. PICK e \in exceptions[r] : Key(e) = f
      BY <1>1 DEF RevisionOK, Lockable
    <3>2. e.resolved /\ e.at >= items[r][e.line].changed
      BY <1>1 DEF RevisionOK, Lockable
    <3>3. QED
      BY <3>1, <3>2 DEF Answered
  <2>2. QED
    BY <1>1, <2>1 DEF Acceptable, Lockable
<1>4. snapshot'[r] # NoSnapshot
  <2>1. [sections |-> sections[r], items |-> items[r]]
          \in [sections: SUBSET Section, items: Contents]
    BY DEF TypeOK
  <2>2. QED
    BY <1>2, <2>1, AtomsAssumption
<1>5. RevisionOK(r)'
  <2>1. Acceptable(r)'
    BY <1>2, <1>3 DEF Acceptable, Answered
  <2>2. verified[r] # 0 /\ verified[r] = version[r]
    BY <1>1 DEF Lockable
  <2>3. Exists(r)'
    BY <1>2, <2>2 DEF Exists, TypeOK
  <2>4. QED
    BY <1>1, <1>2, <1>4, <2>1, <2>2, <2>3 DEF RevisionOK
<1>6. ASSUME NEW s \in Rev, s # r
      PROVE  RevisionOK(s)'
  <2>1. /\ version'[s] = version[s] /\ verified'[s] = verified[s]
        /\ locked'[s] = locked[s] /\ priced'[s] = priced[s] /\ items'[s] = items[s]
        /\ exceptions'[s] = exceptions[s] /\ snapshot'[s] = snapshot[s]
    BY <1>6, <1>0 DEF TypeOK, Lock
  <2>2. QED
    BY <2>1, Untouched
<1>7. \A q \in Request : ReadOK(q)'
  <2>1. /\ UNCHANGED <<version, priced, items>> /\ pc'[p] \notin {"docRead", "docReady"}
        /\ \A q \in Request \ {p} : pc'[q] = pc[q] /\ seen'[q] = seen[q]
    BY DEF TypeOK, Lock
  <2>2. QED
    BY <2>1, ReadsKept
<1>8. QED
  BY <1>5, <1>6, <1>7

\* A resolution is dated by the version its reader sees, no earlier than the item.
LEMMA ResolveKeeps ==
  ASSUME TypeOK, TypeOK', NEW r \in Rev, NEW e \in exceptions[r], Resolve(r, e),
         \A s \in Rev : RevisionOK(s), \A q \in Request : ReadOK(q)
  PROVE  (\A s \in Rev : RevisionOK(s)') /\ (\A q \in Request : ReadOK(q)')
<1> DEFINE answer == [e EXCEPT !.resolved = TRUE, !.at = version[r]]
<1>1. e \in Exception /\ e.line \in Live(items[r])
  BY DEF TypeOK, RevisionOK
<1>2. /\ answer.line = e.line /\ Key(answer) = Key(e) /\ answer.at = version[r]
  BY <1>1 DEF Exception, Key
<1>3. answer.at >= items[r][answer.line].changed
  <2>1. items[r][e.line].changed <= version[r]
    BY <1>1 DEF RevisionOK
  <2>2. items[r][e.line].changed \in Nat /\ version[r] \in Nat
    BY <1>1 DEF Live, Item, TypeOK
  <2> HIDE DEF answer
  <2>3. QED
    BY <1>2, <2>1, <2>2
<1>4. /\ exceptions'[r] = (exceptions[r] \ {e}) \cup {answer}
      /\ ~locked[r] /\ locked'[r] = locked[r] /\ snapshot'[r] = snapshot[r]
      /\ version'[r] = version[r] /\ verified'[r] = verified[r]
      /\ priced'[r] = priced[r] /\ items'[r] = items[r]
  BY DEF TypeOK, Resolve
<1> HIDE DEF answer
<1>5. RevisionOK(r)'
  <2>1. \A x \in exceptions'[r] : x.line \in Live(items'[r])
    BY <1>1, <1>2, <1>4 DEF RevisionOK
  <2>2. \A l \in Live(items'[r]) : items'[r][l].changed <= version'[r]
    BY <1>4 DEF RevisionOK
  <2>3. Exists(r)'
    BY <1>4 DEF RevisionOK, Exists
  <2>4. ASSUME verified'[r] # 0
        PROVE  /\ verified'[r] = version'[r]
               /\ \A f \in Findings(items'[r], priced'[r]) :
                    \E x \in exceptions'[r] : Key(x) = f
               /\ \A x \in exceptions'[r] : x.resolved =>
                    x.at >= items'[r][x.line].changed
    <3>1. verified'[r] = version'[r]
      BY <1>4, <2>4 DEF RevisionOK
    <3>2. \A f \in Findings(items[r], priced[r]) : \E x \in exceptions[r] : Key(x) = f
      BY <1>4, <2>4 DEF RevisionOK
    <3>3. \A f \in Findings(items[r], priced[r]) : \E x \in exceptions'[r] : Key(x) = f
      BY <1>2, <1>4, <3>2
    <3>4. \A x \in exceptions[r] : x.resolved => x.at >= items[r][x.line].changed
      BY <1>4, <2>4 DEF RevisionOK
    <3>5. \A x \in exceptions'[r] : x.resolved => x.at >= items[r][x.line].changed
      BY <1>3, <1>4, <3>4
    <3>6. QED
      BY <1>4, <3>1, <3>3, <3>5
  <2>5. snapshot'[r] = NoSnapshot
    BY <1>4 DEF RevisionOK
  <2>6. QED
    BY <1>4, <2>1, <2>2, <2>3, <2>4, <2>5 DEF RevisionOK
<1>6. ASSUME NEW s \in Rev, s # r
      PROVE  RevisionOK(s)'
  <2>1. /\ version'[s] = version[s] /\ verified'[s] = verified[s]
        /\ locked'[s] = locked[s] /\ priced'[s] = priced[s] /\ items'[s] = items[s]
        /\ exceptions'[s] = exceptions[s] /\ snapshot'[s] = snapshot[s]
    BY <1>6 DEF TypeOK, Resolve
  <2>2. QED
    BY <2>1, Untouched
<1>7. \A q \in Request : ReadOK(q)'
  BY DEF Resolve, requestVars, ReadOK
<1>8. QED
  BY <1>5, <1>6, <1>7
\* A revision that begins to exist carries nothing of a former one, and its items are
\* dated by its first version.
LEMMA BirthKeeps ==
  ASSUME TypeOK, TypeOK', NEW r \in Rev, ~Exists(r), version' = [version EXCEPT ![r] = 1],
         \A l \in Live(items'[r]) : items'[r][l].changed <= 1,
         \A s \in Rev \ {r} : items'[s] = items[s] /\ priced'[s] = priced[s],
         UNCHANGED <<verified, locked, exceptions, snapshot, requestVars>>,
         \A s \in Rev : RevisionOK(s), \A q \in Request : ReadOK(q)
  PROVE  (\A s \in Rev : RevisionOK(s)') /\ (\A q \in Request : ReadOK(q)')
<1>1. version[r] = 0 /\ version'[r] = 1
  <2>1. version \in [Rev -> Nat]
    BY DEF TypeOK
  <2>2. version'[r] = 1
    BY <2>1
  <2>3. version[r] \in Nat /\ ~(version[r] > 0)
    BY <2>1, ConstantsAssumption DEF Exists
  <2>4. QED
    BY <2>2, <2>3
<1>2. ASSUME NEW s \in Rev, s # r
      PROVE  RevisionOK(s)'
  <2>1. version'[s] = version[s] /\ items'[s] = items[s] /\ priced'[s] = priced[s]
    BY <1>2 DEF TypeOK
  <2>2. QED
    BY <2>1, Untouched
<1>3. RevisionOK(r)'
  <2>1. ~locked[r] /\ verified[r] = 0 /\ exceptions[r] = {} /\ snapshot[r] = NoSnapshot
    BY DEF RevisionOK
  <2>2. QED
    BY <1>1, <2>1 DEF RevisionOK, Exists
<1>4. ASSUME NEW q \in Request
      PROVE  ReadOK(q)'
  <2>1. pc'[q] = pc[q] /\ seen'[q] = seen[q]
    BY DEF requestVars
  <2>2. seen[q].rev \in Rev /\ version'[seen[q].rev] \in Nat
    BY DEF TypeOK, Seen
  <2>3. CASE seen[q].rev = r
    BY <1>1, <2>1, <2>2, <2>3, UntouchedRead
  <2>4. CASE seen[q].rev # r
    <3>1. /\ version'[seen[q].rev] = version[seen[q].rev]
          /\ priced'[seen[q].rev] = priced[seen[q].rev]
          /\ items'[seen[q].rev] = items[seen[q].rev]
      BY <2>2, <2>4 DEF TypeOK
    <3>2. QED
      BY <2>1, <2>2, <3>1, UntouchedRead
  <2>5. QED
    BY <2>3, <2>4
<1>5. QED
  BY <1>2, <1>3, <1>4

\* A sample revision takes a number not used yet: the first, or the newest's successor.
LEMMA SampleIsNew ==
  ASSUME CreateSampleRevision
  PROVE  \E r \in Rev, c \in Section :
           /\ ~Exists(r) /\ AddRevision(r, {c}, Nothing, TRUE)
           /\ \/ r = 1 /\ \A s \in Rev : ~Exists(s)
              \/ r - 1 \in Rev /\ Latest(r - 1)
<1>1. PICK r \in Rev, c \in Section :
        /\ IF r = 1 THEN \A s \in Rev : ~Exists(s) ELSE Latest(r - 1)
        /\ AddRevision(r, {c}, Nothing, TRUE)
  BY DEF CreateSampleRevision
<1>2. CASE r = 1
  BY <1>1, <1>2
<1>3. CASE r # 1
  <2>1. r - 1 \in Rev /\ ~(r <= r - 1)
    BY <1>3, ConstantsAssumption DEF Rev
  <2>2. ~Exists(r)
    BY <1>1, <1>3, <2>1 DEF Latest
  <2>3. QED
    BY <1>1, <1>3, <2>1, <2>2
<1>4. QED
  BY <1>2, <1>3

LEMMA NewRevisionKeeps ==
  ASSUME TypeOK, TypeOK',
         CreateProjectBoq \/ (\E r \in Rev : CreateRevision(r)) \/ CreateSampleRevision,
         \A s \in Rev : RevisionOK(s), \A q \in Request : ReadOK(q)
  PROVE  (\A s \in Rev : RevisionOK(s)') /\ (\A q \in Request : ReadOK(q)')
<1> USE RevType
<1>n. ASSUME NEW r \in Rev, Latest(r), r + 1 \in Rev
      PROVE  ~Exists(r + 1)
  BY <1>n DEF Latest
<1>1. CASE CreateProjectBoq
  <2>1. /\ ~Exists(1) /\ version' = [version EXCEPT ![1] = 1]
        /\ UNCHANGED <<items, priced, verified, locked, exceptions, snapshot, requestVars>>
    BY <1>1 DEF CreateProjectBoq
  <2>2. version[1] = 0
    BY <2>1 DEF TypeOK, Exists
  <2>3. \A l \in Live(items'[1]) : items'[1][l].changed <= 1
    <3>1. \A l \in Live(items[1]) : items[1][l].changed \in Nat
                                  /\ items[1][l].changed <= version[1]
      BY DEF RevisionOK, Live, Item
    <3>2. QED
      BY <2>1, <2>2, <3>1
  <2>4. QED
    BY <2>1, <2>3, BirthKeeps
<1>2. CASE \E r \in Rev : CreateRevision(r)
  <2>1. PICK r \in Rev : CreateRevision(r)
    BY <1>2
  <2> DEFINE copy(l) == [items[r][l] EXCEPT
        !.qtyEvidence = CopyOf(@, items[r][l].qty, <<r, l>>),
        !.rateEvidence = CopyOf(@, items[r][l].rate, <<r, l>>),
        !.changed = 1]
             its == [l \in Line |-> IF items[r][l] \in Item THEN copy(l) ELSE Absent]
  <2>2. AddRevision(r + 1, sections[r], its, priced[r]) /\ Latest(r)
    BY <2>1 DEF CreateRevision
  <2>3. r + 1 \in Rev
    BY <2>2 DEF AddRevision
  <2>4. ~Exists(r + 1)
    BY <1>n, <2>2, <2>3
  <2>5. \A l \in Live(its) : its[l].changed <= 1
    <3>1. ASSUME NEW l \in Live(its)
          PROVE  its[l].changed = 1
      <4>1. l \in Line /\ items[r][l] \in Item /\ its[l] = copy(l)
        BY AtomsAssumption DEF Live
      <4>2. copy(l).changed = 1
        BY <4>1 DEF Item
      <4>3. QED
        BY <4>1, <4>2
    <3> HIDE DEF its
    <3>2. QED
      BY <3>1
  <2> HIDE DEF its
  <2>6. /\ version' = [version EXCEPT ![r + 1] = 1] /\ items'[r + 1] = its
        /\ \A s \in Rev \ {r + 1} : items'[s] = items[s] /\ priced'[s] = priced[s]
        /\ UNCHANGED <<verified, locked, exceptions, snapshot, requestVars>>
    BY <2>2, <2>3 DEF TypeOK, AddRevision
  <2>7. QED
    BY <2>3, <2>4, <2>5, <2>6, BirthKeeps
<1>3. CASE CreateSampleRevision
  <2>1. PICK r \in Rev, c \in Section : ~Exists(r) /\ AddRevision(r, {c}, Nothing, TRUE)
    BY <1>3, SampleIsNew
  <2>2. /\ version' = [version EXCEPT ![r] = 1] /\ items'[r] = Nothing
        /\ \A s \in Rev \ {r} : items'[s] = items[s] /\ priced'[s] = priced[s]
        /\ UNCHANGED <<verified, locked, exceptions, snapshot, requestVars>>
    BY <2>1 DEF TypeOK, AddRevision
  <2>3. Live(Nothing) = {}
    BY AtomsAssumption DEF Live, Nothing
  <2>4. QED
    BY <2>1, <2>2, <2>3, BirthKeeps
<1>4. QED
  BY <1>1, <1>2, <1>3

\* The steps that leave items, verification and locks alone.
LEMMA BystanderKeeps ==
  ASSUME TypeOK, TypeOK', NEW p \in Request,
         LockCheck(p) \/ LockFoundLocked(p) \/ RecordCompleted(p) \/ TayqanRequest(p)
           \/ Abandon(p),
         \A s \in Rev : RevisionOK(s), \A q \in Request : ReadOK(q)
  PROVE  (\A s \in Rev : RevisionOK(s)') /\ (\A q \in Request : ReadOK(q)')
<1>1. /\ UNCHANGED <<version, verified, locked, priced, items, exceptions, snapshot>>
      /\ pc'[p] \notin {"docRead", "docReady"}
      /\ \A q \in Request \ {p} : pc'[q] = pc[q] /\ seen'[q] = seen[q]
  BY DEF TypeOK, LockCheck, LockFoundLocked, RecordCompleted, TayqanRequest,
         TayqanCheck, TayqanInsertSection, Abandon, Done, boqVars
<1>2. QED
  BY <1>1, ReadOnly

\* A migrated revision is dated by its first version, and nothing is verified.
LEMMA InitInductive == Init => Inductive
<1> SUFFICES ASSUME Init PROVE Inductive
  OBVIOUS
<1>1. PICK v \in {0, 1}, its \in [Line -> LegacyItem \cup {Absent}] :
        /\ v = 0 => its = Nothing
        /\ version = [r \in Rev |-> IF r = 1 THEN v ELSE 0]
        /\ items = [r \in Rev |-> IF r = 1 THEN its ELSE Nothing]
  BY DEF Init
<1>2. TypeOK
  BY InitType
<1>3. ASSUME NEW r \in Rev
      PROVE  RevisionOK(r)
  <2>1. /\ ~locked[r] /\ verified[r] = 0 /\ exceptions[r] = {} /\ snapshot[r] = NoSnapshot
    BY DEF Init
  <2>2. \A l \in Live(items[r]) : items[r][l].changed <= version[r]
    <3>1. Live(Nothing) = {}
      BY AtomsAssumption DEF Live, Nothing
    <3>2. CASE r = 1 /\ v = 1
      <4>1. \A l \in Live(items[r]) : items[r][l] \in LegacyItem
        BY <1>1, <3>2, AtomsAssumption DEF Live
      <4>2. \A l \in Live(items[r]) : items[r][l].changed = 1
        BY <4>1 DEF LegacyItem
      <4>3. QED
        BY <1>1, <3>2, <4>2
    <3>3. CASE ~(r = 1 /\ v = 1)
      BY <1>1, <3>1, <3>3
    <3>4. QED
      BY <3>2, <3>3
  <2>3. QED
    BY <2>1, <2>2 DEF RevisionOK
<1>4. \A p \in Request : ReadOK(p)
  BY DEF Init, ReadOK
<1>5. QED
  BY <1>2, <1>3, <1>4, InductiveParts

LEMMA InductiveStep == Inductive /\ [Next]_vars => Inductive'
<1> SUFFICES ASSUME Inductive, [Next]_vars PROVE Inductive'
  OBVIOUS
<1>1. TypeOK /\ (\A s \in Rev : RevisionOK(s)) /\ \A q \in Request : ReadOK(q)
  BY InductiveParts
<1>2. TypeOK'
  BY <1>1, TypeStep
<1>3. CASE UNCHANGED vars
  BY <1>3 DEF vars, boqVars, requestVars, Inductive, TypeOK, UnbornClean, RowsDated,
              DocumentReads, VerificationCurrent, LockedIsAcceptable, SnapshotIsContent,
              Exists, Acceptable, Answered
<1>4. CASE Next
  <2>1. (\A s \in Rev : RevisionOK(s)') /\ (\A q \in Request : ReadOK(q)')
    <3>1. ASSUME NEW p \in Request, ItemRequest(p)
          PROVE  (\A s \in Rev : RevisionOK(s)') /\ (\A q \in Request : ReadOK(q)')
      BY <1>1, <1>2, <3>1, ItemRequestKeeps
    <3>2. ASSUME NEW p \in Request, DocumentRequest(p)
          PROVE  (\A s \in Rev : RevisionOK(s)') /\ (\A q \in Request : ReadOK(q)')
      BY <1>1, <1>2, <3>2, DocumentRequestKeeps, VerifyKeeps
    <3>3. ASSUME NEW p \in Request, LockRequest(p)
          PROVE  (\A s \in Rev : RevisionOK(s)') /\ (\A q \in Request : ReadOK(q)')
      BY <1>1, <1>2, <3>3, VerifyKeeps, LockKeeps, BystanderKeeps DEF LockRequest
    <3>4. ASSUME NEW p \in Request, TayqanRequest(p) \/ Abandon(p)
          PROVE  (\A s \in Rev : RevisionOK(s)') /\ (\A q \in Request : ReadOK(q)')
      BY <1>1, <1>2, <3>4, BystanderKeeps
    <3>5. ASSUME NEW r \in Rev, NEW e \in exceptions[r], Resolve(r, e)
          PROVE  (\A s \in Rev : RevisionOK(s)') /\ (\A q \in Request : ReadOK(q)')
      BY <1>1, <1>2, <3>5, ResolveKeeps
    <3>6. CASE CreateProjectBoq \/ (\E r \in Rev : CreateRevision(r)) \/ CreateSampleRevision
      BY <1>1, <1>2, <3>6, NewRevisionKeeps
    <3>7. QED
      BY <1>4, <3>1, <3>2, <3>3, <3>4, <3>5, <3>6 DEF Next
  <2>2. QED
    BY <1>2, <2>1, InductivePartsPrimed
<1>5. QED
  BY <1>3, <1>4

\* The strengthening behind the properties below holds in every reachable state.
THEOREM InductiveHolds == Spec => []Inductive
  BY InitInductive, InductiveStep, PTL DEF Spec

\* A set verifiedVersion means that the findings of the revision as it stands are
\* on record, whatever requests ran since the verification read it.
THEOREM VerifiedIsCurrent == Spec => []VerificationCurrent
<1>1. Inductive => VerificationCurrent
  BY DEF Inductive
<1>2. QED
  BY <1>1, InductiveHolds, PTL

\* Only acceptable revisions are locked, and a locked one stays acceptable.
THEOREM FinalIsAcceptable == Spec => []LockedIsAcceptable
<1>1. Inductive => LockedIsAcceptable
  BY DEF Inductive
<1>2. QED
  BY <1>1, InductiveHolds, PTL

\* The snapshot of a locked revision is of the items and evidence it still has.
THEOREM SnapshotIsFaithful == Spec => []SnapshotIsContent
<1>1. Inductive => SnapshotIsContent
  BY DEF Inductive
<1>2. QED
  BY <1>1, InductiveHolds, PTL

\* The version a document writer claims vouches for all it read, although it read the
\* revision in two steps.
THEOREM ClaimedDocumentIsFresh == Spec => []DocumentClaimIsFresh
<1>1. Inductive => DocumentClaimIsFresh
  BY DEF Inductive, DocumentReads, DocumentClaimIsFresh
<1>2. QED
  BY <1>1, InductiveHolds, PTL
-----------------------------------------------------------------------------
(* Locked revisions never change.                                          *)

\* A request that edits writes once, to the revision it has read, or reads on.
LEMMA EditsWrite ==
  ASSUME TypeOK, NEW p \in Request,
         \/ ItemRequest(p)
         \/ DocumentRequest(p) /\ ~Verify(p, "idle")
  PROVE  \/ UNCHANGED boqVars
         \/ /\ \E its : Write(p, its)
            /\ \A s \in Rev \ {seen[p].rev} : priced'[s] = priced[s]
<1>1. CASE \E r0 \in Rev, l \in Line : ReadItem(p, r0, l)
  BY <1>1 DEF ReadItem
<1>2. CASE ReadItemBoq(p) \/ ReadBoqItems(p) \/ \E r0 \in Rev : ReadBoq(p, r0)
  BY <1>2 DEF ReadItemBoq, ReadBoqItems, ReadBoq
<1>3. CASE \E l \in Line, q \in Qty, x \in Rate, given \in SUBSET {"qty", "rate"} :
            UpdateItem(p, l, q, x, given)
  BY <1>3 DEF UpdateItem
<1>4. CASE \E l \in Line : ConfirmItem(p, l)
  BY <1>4 DEF ConfirmItem
<1>5. CASE \E l \in Line : DeleteItem(p, l)
  BY <1>5 DEF DeleteItem
<1>6. CASE \E l \in Line, k \in Line : DuplicateItem(p, l, k)
  BY <1>6 DEF DuplicateItem
<1>7. CASE \E l \in Line, q \in Qty, x \in Rate : CreateItem(p, l, q, x)
  BY <1>7 DEF CreateItem
<1>8. CASE Recalculate(p)
  BY <1>8 DEF Recalculate
<1>9. CASE \E listed \in SUBSET Section, doc \in [Line -> (Qty \X Rate) \cup {<<>>}],
             mode \in BOOLEAN : UpdateDocument(p, listed, doc, mode)
  <2>1. PICK listed \in SUBSET Section, doc \in [Line -> (Qty \X Rate) \cup {<<>>}],
             mode \in BOOLEAN : UpdateDocument(p, listed, doc, mode)
    BY <1>9
  <2>2. PICK its : Write(p, its)
    BY <2>1 DEF UpdateDocument
  <2>3. priced' = [priced EXCEPT ![seen[p].rev] = mode]
    BY <2>1 DEF UpdateDocument
  <2>4. \A s \in Rev \ {seen[p].rev} : priced'[s] = priced[s]
    BY <2>3 DEF TypeOK
  <2>5. QED
    BY <2>2, <2>4
<1>10. CASE \E c \in Section : CreateSection(p, c) \/ UpdateSection(p, c)
  BY <1>10 DEF CreateSection, UpdateSection
<1>11. CASE \E c \in Section : DeleteSection(p, c)
  BY <1>11 DEF DeleteSection
<1>12. QED
  BY <1>1, <1>2, <1>3, <1>4, <1>5, <1>6, <1>7, <1>8, <1>9, <1>10, <1>11
     DEF ItemRequest, DocumentRequest

\* What a step leaves of a locked revision.
Frozen(r) ==
  /\ locked'[r] /\ snapshot'[r] = snapshot[r] /\ items'[r] = items[r]
  /\ exceptions'[r] = exceptions[r] /\ priced'[r] = priced[r]
  /\ version'[r] = version[r] /\ verified'[r] = verified[r]

\* A writer's claim refuses a locked revision, so what it writes is another one.
LEMMA WriteFreezes ==
  ASSUME TypeOK, NEW p \in Request, NEW its, Write(p, its), NEW r \in Rev, locked[r],
         \A s \in Rev \ {seen[p].rev} : priced'[s] = priced[s]
  PROVE  Frozen(r)
<1>1. r # seen[p].rev
  BY DEF Write, Claim
<1>2. QED
  BY <1>1 DEF TypeOK, Write, Claim, Frozen

LEMMA FrozenStep ==
  ASSUME TypeOK, UnbornClean, Next, NEW r \in Rev, locked[r]
  PROVE  Frozen(r)
<1>0. ASSUME NEW p \in Request
      PROVE  seen[p].rev \in Rev
  BY DEF TypeOK, Seen
<1>1. ASSUME NEW p \in Request, ItemRequest(p) \/ (DocumentRequest(p) /\ ~Verify(p, "idle"))
      PROVE  Frozen(r)
  <2>1. CASE UNCHANGED boqVars
    BY <2>1 DEF boqVars, Frozen
  <2>2. QED
    BY <1>1, <2>1, EditsWrite, WriteFreezes
<1>2. ASSUME NEW p \in Request, NEW next, Verify(p, next)
      PROVE  Frozen(r)
  <2>1. r # seen[p].rev
    BY <1>2 DEF Verify
  <2>2. QED
    BY <1>0, <1>2, <2>1 DEF TypeOK, Verify, Frozen
<1>3. ASSUME NEW p \in Request, Lock(p)
      PROVE  Frozen(r)
  <2>1. r # seen[p].rev
    BY <1>3 DEF Lock
  <2>2. QED
    BY <1>0, <1>3, <2>1 DEF TypeOK, Lock, Frozen
<1>4. ASSUME NEW p \in Request, LockCheck(p) \/ LockFoundLocked(p) \/ RecordCompleted(p)
                               \/ TayqanRequest(p) \/ Abandon(p)
      PROVE  Frozen(r)
  BY <1>4 DEF LockCheck, LockFoundLocked, RecordCompleted, TayqanRequest, TayqanCheck,
              TayqanInsertSection, Abandon, Frozen, boqVars
<1>5. ASSUME NEW s \in Rev, NEW e \in exceptions[s], Resolve(s, e)
      PROVE  Frozen(r)
  <2>1. r # s
    BY <1>5 DEF Resolve
  <2>2. QED
    BY <1>5, <2>1 DEF TypeOK, Resolve, Frozen
<1>6. Exists(r)
  BY DEF UnbornClean
<1>7. CASE CreateProjectBoq
  BY <1>6, <1>7 DEF CreateProjectBoq
<1>8. ASSUME NEW s, ~Exists(s), NEW secs, NEW its, NEW mode,
             AddRevision(s, secs, its, mode)
      PROVE  Frozen(r)
  <2>1. r # s
    BY <1>6, <1>8
  <2>2. QED
    BY <1>8, <2>1 DEF TypeOK, AddRevision, Frozen
<1>9. CASE \E s \in Rev : CreateRevision(s)
  <2>1. PICK s \in Rev :
          Latest(s) /\ \E secs, its, mode : AddRevision(s + 1, secs, its, mode)
    BY <1>9 DEF CreateRevision
  <2>2. ~Exists(s + 1)
    BY <2>1, RevType DEF Latest, AddRevision
  <2>3. QED
    BY <1>8, <2>1, <2>2
<1>10. CASE CreateSampleRevision
  BY <1>8, <1>10, SampleIsNew
<1>11. QED
  BY <1>1, <1>2, <1>3, <1>4, <1>5, <1>7, <1>9, <1>10 DEF Next, LockRequest

\* No request, however stale what it has read, changes a locked revision's items,
\* evidence, exceptions, pricing mode, verification or snapshot, or unlocks it.
THEOREM LockedStaysFrozen == Spec => LockedFrozen
<1>1. Inductive /\ [Next]_vars =>
        [\A r \in Rev : locked[r] =>
           /\ locked'[r] /\ snapshot'[r] = snapshot[r] /\ items'[r] = items[r]
           /\ exceptions'[r] = exceptions[r] /\ priced'[r] = priced[r]
           /\ version'[r] = version[r] /\ verified'[r] = verified[r]]_vars
  <2> SUFFICES ASSUME Inductive, Next, NEW r \in Rev, locked[r]
               PROVE  Frozen(r)
    BY DEF Frozen
  <2>1. QED
    BY FrozenStep DEF Inductive
<1>2. QED
  BY <1>1, InductiveHolds, PTL DEF Spec, LockedFrozen
=============================================================================
