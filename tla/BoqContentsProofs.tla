-------------------------- MODULE BoqContentsProofs --------------------------
(* Proofs about BoqFinalization that relate revisions to one another and to  *)
(* their project: which items evidence cites, which sections hold items, how *)
(* revisions are numbered, and what the trial allowance counts.              *)
EXTENDS BoqFinalizationProofs, FiniteSetTheorems

USE DEF Rev, Place

-----------------------------------------------------------------------------
(* Places: what a writer may do to citations and sections.                 *)

\* The places whose items an item's evidence was copied from.
Citations(it) == {it.qtyEvidence.source, it.rateEvidence.source} \ {NoPlace}

\* The lines of revision r that lose their item when its items become its.
Gone(r, its) == {l \in Live(items[r]) : its[l] \notin Item}

\* A write of its to revision r that leaves no citation without its item and no item
\* without its section: no item that is cited goes, and what remains or is new cites no
\* more than it did, or items of the same revision that stay.
Sound(r, its) ==
  /\ Exists(r)
  /\ Deletable({r} \X Gone(r, its))
  /\ \A l \in Live(its) :
       \/ l \in Live(items[r]) /\ Citations(its[l]) \subseteq Citations(items[r][l])
       \/ Citations(its[l]) \subseteq {r} \X (Live(items[r]) \cap Live(its))
  /\ \A l \in Live(its) : SectionOf[l] \in sections'[r]
  /\ \A s \in Rev \ {r} : sections'[s] = sections[s]

Places == UnbornEmpty /\ CitedItemsExist /\ SectionsHoldItems

\* A citation of an item that stays, in any revision, is of an item that stays.
LEMMA CitationStays ==
  ASSUME TypeOK, CitedItemsExist, NEW r \in Rev, NEW its, Deletable({r} \X Gone(r, its)),
         NEW q \in Place, items[q[1]][q[2]] \in Item, q \notin {r} \X Gone(r, its),
         NEW s \in Citations(items[q[1]][q[2]])
  PROVE  /\ s \in Place /\ items[s[1]][s[2]] \in Item
         /\ s[1] = r => its[s[2]] \in Item
<1>1. s \in Place
  BY DEF Citations, Item, Evidence
<1>2. items[s[1]][s[2]] \in Item
  BY DEF Citations, CitedItemsExist
<1>3. s \notin {r} \X Gone(r, its)
  BY DEF Deletable, Citations
<1>4. ASSUME s[1] = r
      PROVE  its[s[2]] \in Item
  <2>1. s[2] \in Line /\ s = <<r, s[2]>> /\ items[r][s[2]] \in Item
    BY <1>1, <1>2, <1>4
  <2>2. s[2] \notin Gone(r, its)
    BY <1>3, <2>1
  <2>3. QED
    BY <2>1, <2>2 DEF Gone, Live
<1>5. QED
  BY <1>1, <1>2, <1>4

\* A sound write keeps citations, sections and unused numbers in order.
LEMMA SoundKeeps ==
  ASSUME TypeOK, TypeOK', Places, NEW r \in Rev, NEW its, Sound(r, its),
         items' = [items EXCEPT ![r] = its], version'[r] > 0,
         \A s \in Rev \ {r} : version'[s] = version[s]
  PROVE  Places'
<1>1. items'[r] = its /\ \A s \in Rev \ {r} : items'[s] = items[s]
  BY DEF TypeOK
<1>2. UnbornEmpty'
  BY <1>1 DEF Places, UnbornEmpty, Exists
<1>3. SectionsHoldItems'
  BY <1>1 DEF Places, SectionsHoldItems, Sound
<1>4. CitedItemsExist'
  <2> SUFFICES ASSUME NEW q \in Place, items'[q[1]][q[2]] \in Item,
                      NEW s \in Citations(items'[q[1]][q[2]])
               PROVE  items'[s[1]][s[2]] \in Item
    BY DEF CitedItemsExist, Citations
  <2>1. q[1] \in Rev /\ q[2] \in Line /\ q = <<q[1], q[2]>>
    OBVIOUS
  <2>2. ASSUME items[q[1]][q[2]] \in Item, q \notin {r} \X Gone(r, its),
               s \in Citations(items[q[1]][q[2]])
        PROVE  items'[s[1]][s[2]] \in Item
    <3>1. /\ s \in Place /\ items[s[1]][s[2]] \in Item
          /\ s[1] = r => its[s[2]] \in Item
      BY <2>2, CitationStays DEF Places, Sound
    <3>2. QED
      BY <1>1, <3>1
  <2>3. CASE q[1] # r
    BY <1>1, <2>1, <2>2, <2>3
  <2>4. CASE q[1] = r
    <3>1. q[2] \in Live(its)
      BY <1>1, <2>1, <2>4 DEF Live
    <3>2. CASE q[2] \in Live(items[r]) /\ Citations(its[q[2]]) \subseteq Citations(items[r][q[2]])
      <4>1. q \notin {r} \X Gone(r, its)
        BY <2>1, <2>4, <3>1 DEF Gone, Live
      <4>2. items[q[1]][q[2]] \in Item /\ s \in Citations(items[q[1]][q[2]])
        BY <1>1, <2>4, <3>2 DEF Live
      <4>3. QED
        BY <2>2, <4>1, <4>2
    <3>3. CASE Citations(its[q[2]]) \subseteq {r} \X (Live(items[r]) \cap Live(its))
      BY <1>1, <2>4, <3>3 DEF Live
    <3>4. QED
      BY <3>1, <3>2, <3>3 DEF Sound
  <2>5. QED
    BY <2>3, <2>4
<1>5. QED
  BY <1>2, <1>3, <1>4 DEF Places

\* What every writer's commit leaves to show: that its items are a sound write.
LEMMA WriteKeepsPlaces ==
  ASSUME TypeOK, TypeOK', Places, NEW p \in Request, NEW its, Write(p, its),
         Sound(seen[p].rev, its)
  PROVE  Places'
<1>1. PICK r \in Rev : r = seen[p].rev
  BY DEF TypeOK, Seen
<1>2. /\ items' = [items EXCEPT ![r] = its]
      /\ version'[r] = version[r] + 1 /\ version[r] \in Nat
      /\ \A s \in Rev \ {r} : version'[s] = version[s]
  BY <1>1 DEF TypeOK, Write, Claim
<1>3. version'[r] > 0
  BY <1>2
<1>4. QED
  BY <1>1, <1>2, <1>3, SoundKeeps

\* A step that writes no item, ends no revision and takes no section away.
LEMMA PlacesUntouched ==
  ASSUME TypeOK, Places, items' = items,
         \A r \in Rev : Exists(r) => Exists(r)',
         \A r \in Rev : sections[r] \subseteq sections'[r] \/ ~Exists(r)
  PROVE  Places'
<1>1. UnbornEmpty' /\ CitedItemsExist'
  BY DEF Places, UnbornEmpty, CitedItemsExist
<1>2. SectionsHoldItems'
  BY DEF Places, SectionsHoldItems, UnbornEmpty
<1>3. QED
  BY <1>1, <1>2 DEF Places


\* A line that gets an item or loses the one it had.
LEMMA OneLineSound ==
  ASSUME TypeOK, Places, NEW r \in Rev, NEW l \in Line, NEW new,
         sections' = sections, Exists(r),
         \/ /\ new \in Item /\ SectionOf[l] \in sections[r]
            /\ \/ items[r][l] \in Item /\ Citations(new) \subseteq Citations(items[r][l])
               \/ Citations(new) \subseteq {r} \X (Live(items[r]) \ {l})
         \/ new \notin Item /\ items[r][l] \in Item /\ Deletable({<<r, l>>})
  PROVE  Sound(r, [items[r] EXCEPT ![l] = new])
<1> DEFINE its == [items[r] EXCEPT ![l] = new]
<1>1. its[l] = new /\ \A k \in Line \ {l} : its[k] = items[r][k]
  BY DEF TypeOK, Contents
<1> HIDE DEF its
<1>2. \A k \in Live(its) : SectionOf[k] \in sections'[r]
  BY <1>1 DEF Places, SectionsHoldItems, Live
<1>3. Deletable({r} \X Gone(r, its))
  <2>1. CASE new \in Item
    <3>1. {r} \X Gone(r, its) = {}
      BY <1>1, <2>1 DEF Gone, Live
    <3>2. QED
      BY <3>1 DEF Deletable
  <2>2. CASE new \notin Item
    <3>1. {r} \X Gone(r, its) = {<<r, l>>}
      BY <1>1, <2>2 DEF Gone, Live
    <3>2. QED
      BY <2>2, <3>1
  <2>3. QED
    BY <2>1, <2>2
<1>4. ASSUME NEW k \in Live(its)
      PROVE  \/ k \in Live(items[r]) /\ Citations(its[k]) \subseteq Citations(items[r][k])
             \/ Citations(its[k]) \subseteq {r} \X (Live(items[r]) \cap Live(its))
  <2>1. CASE k # l
    BY <1>1, <1>4, <2>1 DEF Live
  <2>2. CASE k = l /\ items[r][l] \in Item /\ Citations(new) \subseteq Citations(items[r][l])
    BY <1>1, <2>2 DEF Live
  <2>3. CASE k = l /\ Citations(new) \subseteq {r} \X (Live(items[r]) \ {l})
    <3>1. Live(items[r]) \ {l} \subseteq Live(items[r]) \cap Live(its)
      BY <1>1 DEF Live
    <3>2. QED
      BY <1>1, <2>3, <3>1
  <2>4. its[k] \in Item
    BY <1>4 DEF Live
  <2>5. QED
    BY <1>1, <2>1, <2>2, <2>3, <2>4
<1>5. QED
  BY <1>2, <1>3, <1>4 DEF Sound, its

\* The writers of one item.  An update keeps or drops citations, a confirmation drops
\* them, and a duplicate cites the item it was made from.
LEMMA ItemRequestSound ==
  ASSUME TypeOK, Places, NEW p \in Request, ItemRequest(p)
  PROVE  \/ UNCHANGED boqVars
         \/ \E its : Write(p, its) /\ Sound(seen[p].rev, its)
<1>0. PICK r \in Rev : r = seen[p].rev
  BY DEF TypeOK, Seen
<1>r. items[r] \in Contents /\ seen[p].items \in Contents /\ version[r] + 1 \in Nat
  <2>1. items[r] \in Contents /\ seen[p].items \in Contents
    BY DEF TypeOK, Seen
  <2>2. version[r] \in Nat
    BY DEF TypeOK
  <2>3. QED
    BY <2>1, <2>2
<1>x. ASSUME NEW l \in Line, items[r][l] \in Item
      PROVE  Exists(r) /\ SectionOf[l] \in sections[r]
  BY <1>x DEF Places, UnbornEmpty, SectionsHoldItems, Live
<1>1. CASE ReadItemBoq(p) \/ \E r0 \in Rev, l \in Line : ReadItem(p, r0, l)
  BY <1>1 DEF ReadItem, ReadItemBoq
<1>2. ASSUME NEW l \in Line, NEW q \in Qty, NEW x \in Rate,
             NEW given \in SUBSET {"qty", "rate"}, UpdateItem(p, l, q, x, given)
      PROVE  \E its : Write(p, its) /\ Sound(r, its)
  <2> DEFINE it == seen[p].items[l]
             cur == items[r][l]
             told == given \cup (IF q # it.qty THEN {"qty"} ELSE {})
                           \cup (IF x # it.rate THEN {"rate"} ELSE {})
             new == [qty |-> q, rate |-> x,
               qtyEvidence |-> IF "qty" \in told THEN Manual(q) ELSE cur.qtyEvidence,
               rateEvidence |-> IF "rate" \in told THEN Manual(x) ELSE cur.rateEvidence,
               changed |-> version[r] + 1]
  <2>1. cur \in Item /\ Write(p, [items[r] EXCEPT ![l] = new]) /\ sections' = sections
    BY <1>0, <1>2 DEF UpdateItem
  <2>2. new \in Item
    <3>1. Manual(q) \in Evidence(Qty) /\ Manual(x) \in Evidence(Rate)
      BY DEF Manual, Evidence
    <3>2. QED
      BY <1>r, <2>1, <3>1 DEF Item
  <2>3. Citations(new) \subseteq Citations(cur)
    BY DEF Citations, Manual
  <2> HIDE DEF new
  <2>4. Sound(r, [items[r] EXCEPT ![l] = new])
    BY <1>x, <2>1, <2>2, <2>3, OneLineSound
  <2>5. QED
    BY <2>1, <2>4
<1>3. ASSUME NEW l \in Line, ConfirmItem(p, l)
      PROVE  \E its : Write(p, its) /\ Sound(r, its)
  <2> DEFINE it == seen[p].items[l]
             cur == items[r][l]
             new == [cur EXCEPT !.qtyEvidence = Manual(it.qty),
                                !.rateEvidence = Manual(it.rate)]
             its == [items[r] EXCEPT ![l].qtyEvidence = Manual(it.qty),
                                     ![l].rateEvidence = Manual(it.rate)]
  <2>1. it \in Item /\ cur \in Item /\ Write(p, its) /\ sections' = sections
    BY <1>0, <1>3 DEF ConfirmItem
  <2>2. its = [items[r] EXCEPT ![l] = new]
    BY <1>r DEF Contents
  <2>3. new \in Item
    <3>1. Manual(it.qty) \in Evidence(Qty) /\ Manual(it.rate) \in Evidence(Rate)
      BY <2>1 DEF Manual, Evidence, Item
    <3>2. QED
      BY <2>1, <3>1 DEF Item
  <2>4. Citations(new) = {}
    BY <2>1 DEF Citations, Manual, Item
  <2> HIDE DEF new, its
  <2>5. Sound(r, [items[r] EXCEPT ![l] = new])
    BY <1>x, <2>1, <2>3, <2>4, OneLineSound
  <2>6. QED
    BY <2>1, <2>2, <2>5
<1>4. ASSUME NEW l \in Line, DeleteItem(p, l)
      PROVE  \E its : Write(p, its) /\ Sound(r, its)
  <2>1. /\ items[r][l] \in Item /\ Deletable({<<r, l>>}) /\ sections' = sections
        /\ Write(p, [items[r] EXCEPT ![l] = Deleted])
    BY <1>0, <1>4 DEF DeleteItem
  <2>2. Sound(r, [items[r] EXCEPT ![l] = Deleted])
    BY <1>x, <2>1, OneLineSound, AtomsAssumption
  <2>3. QED
    BY <2>1, <2>2
<1>5. ASSUME NEW l \in Line, NEW k \in Line, DuplicateItem(p, l, k)
      PROVE  \E its : Write(p, its) /\ Sound(r, its)
  <2> DEFINE it == seen[p].items[l]
             cur == items[r][l]
             new == [qty |-> it.qty, rate |-> it.rate,
               qtyEvidence |-> CopyOf(cur.qtyEvidence, it.qty, <<r, l>>),
               rateEvidence |-> CopyOf(cur.rateEvidence, it.rate, <<r, l>>),
               changed |-> version[r] + 1]
  <2>1. /\ it \in Item /\ cur \in Item /\ items[r][k] = Absent
        /\ SectionOf[k] = SectionOf[l]
        /\ Write(p, [items[r] EXCEPT ![k] = new]) /\ sections' = sections
    BY <1>0, <1>5 DEF DuplicateItem
  <2>2. new \in Item
    <3>1. /\ CopyOf(cur.qtyEvidence, it.qty, <<r, l>>) \in Evidence(Qty)
          /\ CopyOf(cur.rateEvidence, it.rate, <<r, l>>) \in Evidence(Rate)
      BY <2>1 DEF CopyOf, Evidence, Item
    <3>2. QED
      BY <1>r, <2>1, <3>1 DEF Item
  <2>3. l # k
    BY <2>1, AtomsAssumption
  <2>4. Citations(new) \subseteq {r} \X (Live(items[r]) \ {k})
    BY <2>1, <2>3 DEF Citations, CopyOf, Live
  <2> HIDE DEF new
  <2>5. Sound(r, [items[r] EXCEPT ![k] = new])
    BY <1>x, <2>1, <2>2, <2>4, OneLineSound
  <2>6. QED
    BY <2>1, <2>5
<1>6. QED
  BY <1>0, <1>1, <1>2, <1>3, <1>4, <1>5 DEF ItemRequest

\* What a document gives a line: an item that cites no more than the one it replaces, or
\* nothing where there was nothing or the item is to go.
LEMMA SyncedItem ==
  ASSUME NEW it \in Item \cup {Absent, Deleted}, NEW d \in (Qty \X Rate) \cup {<<>>},
         NEW v \in Nat, NEW new, new = Synced(it, d, v)
  PROVE  /\ it \in Item => new \in Item \cup {Deleted}
         /\ new \in Item => \/ it \in Item /\ Citations(new) \subseteq Citations(it)
                            \/ Citations(new) = {}
<1>1. CASE d = <<>>
  BY <1>1, AtomsAssumption DEF Synced
<1>2. CASE d # <<>>
  <2>1. d[1] \in Qty /\ d[2] \in Rate
    BY <1>2
  <2>2. /\ Manual(d[1]) \in Evidence(Qty) /\ Manual(d[2]) \in Evidence(Rate)
        /\ NewItem(d[1], d[2], v) \in Item
    BY <2>1, NewItemType DEF Manual, Evidence
  <2>3. CASE it \in Item
    <3>1. new \in Item
      BY <1>2, <2>1, <2>2, <2>3 DEF Synced, Item
    <3>2. Citations(new) \subseteq Citations(it)
      BY <1>2, <2>3 DEF Synced, Citations, Manual
    <3>3. QED
      BY <2>3, <3>1, <3>2
  <2>4. CASE it \notin Item
    <3>1. new = NewItem(d[1], d[2], v) \/ new = it
      BY <1>2, <2>4 DEF Synced
    <3>2. Citations(NewItem(d[1], d[2], v)) = {}
      BY DEF Citations, NewItem, Manual
    <3>3. QED
      BY <2>4, <3>1, <3>2
  <2>5. QED
    BY <2>3, <2>4
<1>3. QED
  BY <1>1, <1>2

\* The writers of documents and sections: what a claimed document read is what the
\* revision holds, so that a stale document cannot bring a citation back.
LEMMA DocumentRequestSound ==
  ASSUME TypeOK, DocumentReads, Places, NEW p \in Request, DocumentRequest(p)
  PROVE  \/ UNCHANGED boqVars
         \/ \E its : Write(p, its) /\ Sound(seen[p].rev, its)
         \/ Verify(p, "idle")
<1>0. PICK r \in Rev : r = seen[p].rev
  BY DEF TypeOK, Seen
<1>r. items[r] \in Contents /\ version[r] + 1 \in Nat
  <2>1. items[r] \in Contents /\ version[r] \in Nat
    BY DEF TypeOK
  <2>2. QED
    BY <2>1
<1>x. ASSUME NEW l \in Line, items[r][l] \in Item
      PROVE  SectionOf[l] \in sections[r]
  BY <1>x DEF Places, SectionsHoldItems, Live
<1>d. ASSUME pc[p] = "docReady"
      PROVE  /\ Exists(r)
             /\ version[r] = seen[p].version => seen[p].items = items[r]
  <2>1. seen[p].version \in 1..version[r] /\ version[r] \in Nat
    BY <1>0, <1>d DEF DocumentReads, TypeOK
  <2>2. version[r] = seen[p].version => seen[p].items = items[r]
    BY <1>0, <1>d DEF DocumentReads
  <2>3. QED
    BY <2>1, <2>2 DEF Exists
<1>1. CASE ReadBoqItems(p) \/ \E r0 \in Rev : ReadBoq(p, r0)
  BY <1>1 DEF ReadBoqItems, ReadBoq
<1>2. ASSUME NEW l \in Line, NEW q \in Qty, NEW x \in Rate, CreateItem(p, l, q, x)
      PROVE  \E its : Write(p, its) /\ Sound(r, its)
  <2> DEFINE new == NewItem(q, x, version[r] + 1)
  <2>1. /\ pc[p] = "docReady" /\ SectionOf[l] \in sections[r] /\ sections' = sections
        /\ Write(p, [items[r] EXCEPT ![l] = new])
    BY <1>0, <1>2 DEF CreateItem
  <2>2. new \in Item
    BY <1>r, NewItemType
  <2>3. Citations(new) = {}
    BY DEF Citations, NewItem, Manual
  <2> HIDE DEF new
  <2>4. Sound(r, [items[r] EXCEPT ![l] = new])
    BY <1>d, <2>1, <2>2, <2>3, OneLineSound
  <2>5. QED
    BY <2>1, <2>4
<1>3. ASSUME Recalculate(p)
      PROVE  \E its : Write(p, its) /\ Sound(r, its)
  <2> DEFINE its == [l \in Line |-> IF seen[p].items[l] \in Item
                              THEN [items[r][l] EXCEPT !.changed = version[r] + 1]
                              ELSE items[r][l]]
  <2>1. /\ pc[p] = "docReady" /\ Write(p, its) /\ sections' = sections
        /\ \A l \in Line : seen[p].items[l] \in Item => items[r][l] \in Item
    BY <1>0, <1>3 DEF Recalculate, Live
  <2>2. ASSUME NEW l \in Line, items[r][l] \in Item
        PROVE  its[l] \in Item /\ Citations(its[l]) = Citations(items[r][l])
    <3>1. /\ [items[r][l] EXCEPT !.changed = version[r] + 1] \in Item
          /\ Citations([items[r][l] EXCEPT !.changed = version[r] + 1])
               = Citations(items[r][l])
      BY <1>r, <2>2 DEF Item, Citations
    <3>2. QED
      BY <2>2, <3>1
  <2>3. ASSUME NEW l \in Line, items[r][l] \notin Item
        PROVE  its[l] \notin Item
    BY <2>1, <2>3
  <2> HIDE DEF its
  <2>4. {r} \X Gone(r, its) = {}
    BY <2>2 DEF Gone, Live
  <2>5. Deletable({r} \X Gone(r, its))
    BY <2>4 DEF Deletable
  <2>6. Sound(r, its)
    BY <1>d, <1>x, <2>1, <2>2, <2>3, <2>5 DEF Sound, Live
  <2>7. QED
    BY <2>1, <2>6
<1>4. ASSUME NEW listed \in SUBSET Section, NEW doc \in [Line -> (Qty \X Rate) \cup {<<>>}],
             NEW mode \in BOOLEAN, UpdateDocument(p, listed, doc, mode)
      PROVE  \E its : Write(p, its) /\ Sound(r, its)
  <2> DEFINE its == [l \in Line |-> IF SectionOf[l] \in listed
                             THEN Synced(seen[p].items[l], doc[l], version[r] + 1)
                             ELSE items[r][l]]
             gone == {l \in Line : items[r][l] \in Item /\ its[l] = Deleted}
  <2>1. /\ pc[p] = "docReady" /\ Write(p, its) /\ Deletable({r} \X gone)
        /\ sections' = [sections EXCEPT ![r] = @ \cup listed]
    BY <1>0, <1>4 DEF UpdateDocument
  <2>2. seen[p].items = items[r]
    BY <1>0, <1>d, <2>1 DEF Write, Claim
  <2>3. ASSUME NEW l \in Line
        PROVE  /\ items[r][l] \in Item => its[l] \in Item \cup {Deleted}
               /\ its[l] \in Item =>
                    \/ items[r][l] \in Item /\ Citations(its[l]) \subseteq Citations(items[r][l])
                    \/ Citations(its[l]) = {}
               /\ its[l] \in Item => items[r][l] \in Item \/ SectionOf[l] \in listed
    <3>1. items[r][l] \in Item \cup {Absent, Deleted} /\ doc[l] \in (Qty \X Rate) \cup {<<>>}
      BY <1>r DEF Contents
    <3>2. CASE SectionOf[l] \in listed
      <4>1. its[l] = Synced(items[r][l], doc[l], version[r] + 1)
        BY <2>2, <3>2
      <4> HIDE DEF its
      <4>2. QED
        BY <1>r, <3>1, <3>2, <4>1, SyncedItem
    <3>3. CASE SectionOf[l] \notin listed
      BY <3>3
    <3>4. QED
      BY <3>2, <3>3
  <2> HIDE DEF its
  <2>4. gone = Gone(r, its)
    BY <2>3, AtomsAssumption DEF Gone, Live
  <2>5. sections'[r] = sections[r] \cup listed
        /\ \A s \in Rev \ {r} : sections'[s] = sections[s]
    BY <2>1 DEF TypeOK
  <2>6. Sound(r, its)
    BY <1>d, <1>x, <2>1, <2>3, <2>4, <2>5 DEF Sound, Live
  <2>7. QED
    BY <2>1, <2>6
<1>5. ASSUME NEW c \in Section, CreateSection(p, c) \/ UpdateSection(p, c)
      PROVE  \E its : Write(p, its) /\ Sound(r, its)
  <2>1. /\ pc[p] = "docReady" /\ Write(p, items[r])
        /\ \/ sections' = [sections EXCEPT ![r] = @ \cup {c}]
           \/ sections' = sections
    BY <1>0, <1>5 DEF CreateSection, UpdateSection
  <2>2. {r} \X Gone(r, items[r]) = {}
    BY DEF Gone, Live
  <2>3. Deletable({r} \X Gone(r, items[r]))
    BY <2>2 DEF Deletable
  <2>4. sections[r] \subseteq sections'[r] /\ \A s \in Rev \ {r} : sections'[s] = sections[s]
    BY <2>1 DEF TypeOK
  <2>5. Sound(r, items[r])
    BY <1>d, <1>x, <2>1, <2>3, <2>4 DEF Sound, Live
  <2>6. QED
    BY <2>1, <2>5
<1>6. ASSUME NEW c \in Section, DeleteSection(p, c)
      PROVE  \E its : Write(p, its) /\ Sound(r, its)
  <2> DEFINE gone == {l \in Live(items[r]) : SectionOf[l] = c}
             its == [l \in Line |-> IF l \in gone THEN Deleted ELSE items[r][l]]
  <2>1. /\ pc[p] = "docReady" /\ Write(p, its) /\ Deletable({r} \X gone)
        /\ sections' = [sections EXCEPT ![r] = @ \ {c}]
    BY <1>0, <1>6 DEF DeleteSection
  <2>2. \A l \in Line : its[l] \in Item =>
          items[r][l] \in Item /\ its[l] = items[r][l] /\ SectionOf[l] # c
    BY AtomsAssumption DEF Live
  <2>3. gone = Gone(r, its)
    BY AtomsAssumption DEF Gone, Live
  <2>4. sections'[r] = sections[r] \ {c} /\ \A s \in Rev \ {r} : sections'[s] = sections[s]
    BY <2>1 DEF TypeOK
  <2> HIDE DEF its, gone
  <2>5. Sound(r, its)
    BY <1>d, <1>x, <2>1, <2>2, <2>3, <2>4 DEF Sound, Live
  <2>6. QED
    BY <2>1, <2>5
<1>7. QED
  BY <1>0, <1>1, <1>2, <1>3, <1>4, <1>5, <1>6 DEF DocumentRequest

\* A revision that begins to exist cites items of other revisions, which stay.
LEMMA BirthPlaces ==
  ASSUME TypeOK, Places, NEW r \in Rev, ~Exists(r), NEW its, NEW secs,
         version' = [version EXCEPT ![r] = 1], items' = [items EXCEPT ![r] = its],
         sections' = [sections EXCEPT ![r] = secs],
         \A l \in Live(its) :
           /\ SectionOf[l] \in secs
           /\ \A s \in Citations(its[l]) : s \in Place /\ items[s[1]][s[2]] \in Item
  PROVE  Places'
<1>1. /\ items'[r] = its /\ \A s \in Rev \ {r} : items'[s] = items[s]
      /\ version'[r] = 1 /\ \A s \in Rev \ {r} : version'[s] = version[s]
      /\ sections'[r] = secs /\ \A s \in Rev \ {r} : sections'[s] = sections[s]
  BY DEF TypeOK
<1>2. ASSUME NEW s \in Place, items[s[1]][s[2]] \in Item
      PROVE  items'[s[1]][s[2]] \in Item
  <2>1. s[1] \in Rev /\ s[2] \in Live(items[s[1]])
    BY <1>2 DEF Live
  <2>2. s[1] # r
    BY <2>1 DEF Places, UnbornEmpty
  <2>3. QED
    BY <1>1, <1>2, <2>1, <2>2
<1>3. UnbornEmpty'
  BY <1>1 DEF Places, UnbornEmpty, Exists
<1>4. SectionsHoldItems'
  BY <1>1 DEF Places, SectionsHoldItems
<1>5. CitedItemsExist'
  <2> SUFFICES ASSUME NEW q \in Place, items'[q[1]][q[2]] \in Item,
                      NEW s \in Citations(items'[q[1]][q[2]])
               PROVE  items'[s[1]][s[2]] \in Item
    BY DEF CitedItemsExist, Citations
  <2>1. CASE q[1] = r
    BY <1>1, <1>2, <2>1 DEF Live
  <2>2. CASE q[1] # r
    <3>1. items[q[1]][q[2]] \in Item /\ s \in Citations(items[q[1]][q[2]])
      BY <1>1, <2>2
    <3>2. s \in Place /\ items[s[1]][s[2]] \in Item
      BY <3>1 DEF Places, CitedItemsExist, Citations, Item, Evidence
    <3>3. QED
      BY <1>2, <3>2
  <2>3. QED
    BY <2>1, <2>2
<1>6. QED
  BY <1>3, <1>4, <1>5 DEF Places

\* A fork's items cite the items they were copied from; a sample revision has none.
LEMMA NewRevisionPlaces ==
  ASSUME TypeOK, Places, NEW r \in Rev, CreateRevision(r) \/ CreateSampleRevision
  PROVE  Places'
<1>0. ASSUME NEW s, ~Exists(s), NEW secs, NEW its, NEW mode,
             AddRevision(s, secs, its, mode),
             \A l \in Live(its) :
               /\ SectionOf[l] \in secs
               /\ \A c \in Citations(its[l]) : c \in Place /\ items[c[1]][c[2]] \in Item
      PROVE  Places'
  BY <1>0, BirthPlaces DEF AddRevision
<1>1. CASE CreateRevision(r)
  <2> DEFINE copy(l) == [items[r][l] EXCEPT
               !.qtyEvidence = CopyOf(@, items[r][l].qty, <<r, l>>),
               !.rateEvidence = CopyOf(@, items[r][l].rate, <<r, l>>),
               !.changed = 1]
             its == [l \in Line |-> IF items[r][l] \in Item THEN copy(l) ELSE Absent]
  <2>1. Latest(r) /\ AddRevision(r + 1, sections[r], its, priced[r])
    BY <1>1 DEF CreateRevision
  <2>2. ASSUME NEW l \in Live(its)
        PROVE  /\ SectionOf[l] \in sections[r]
               /\ \A c \in Citations(its[l]) : c \in Place /\ items[c[1]][c[2]] \in Item
    <3>1. l \in Line /\ items[r][l] \in Item
      BY <2>2, AtomsAssumption DEF Live
    <3>2. SectionOf[l] \in sections[r]
      BY <3>1 DEF Places, SectionsHoldItems, Live
    <3>3. Citations(copy(l)) \subseteq {<<r, l>>}
      BY <3>1 DEF Citations, CopyOf, Item
    <3>4. its[l] = copy(l)
      BY <3>1
    <3> HIDE DEF its, copy
    <3>5. QED
      BY <3>1, <3>2, <3>3, <3>4
  <2> HIDE DEF its
  <2>3. ~Exists(r + 1)
    BY <2>1, RevType DEF AddRevision, Latest
  <2>4. QED
    BY <1>0, <2>1, <2>2, <2>3
<1>2. CASE CreateSampleRevision
  <2>1. PICK s \in Rev, c \in Section : ~Exists(s) /\ AddRevision(s, {c}, Nothing, TRUE)
    BY <1>2, SampleIsNew
  <2>2. Live(Nothing) = {}
    BY AtomsAssumption DEF Live, Nothing
  <2>3. QED
    BY <1>0, <2>1, <2>2
<1>3. QED
  BY <1>1, <1>2

\* Every step keeps citations, sections and unused numbers in order.
LEMMA PlacesStep ==
  ASSUME Inductive, TypeOK', Places, Next
  PROVE  Places'
<1>0. TypeOK /\ DocumentReads /\ UnbornClean
  BY DEF Inductive
<1>1. ASSUME UNCHANGED <<version, items, sections>>
      PROVE  Places'
  BY <1>0, <1>1, PlacesUntouched DEF Exists
<1>2. ASSUME NEW p \in Request, ItemRequest(p) \/ DocumentRequest(p)
      PROVE  Places'
  <2>1. CASE UNCHANGED boqVars \/ Verify(p, "idle")
    BY <1>1, <2>1 DEF boqVars, Verify
  <2>2. CASE \E its : Write(p, its) /\ Sound(seen[p].rev, its)
    BY <1>0, <2>2, WriteKeepsPlaces
  <2>3. QED
    BY <1>0, <1>2, <2>1, <2>2, ItemRequestSound, DocumentRequestSound
<1>3. ASSUME NEW p \in Request, LockRequest(p) \/ Abandon(p)
             \/ \E r \in Rev : TayqanCheck(p, r)
      PROVE  Places'
  BY <1>1, <1>3 DEF LockRequest, Verify, LockCheck, Lock, LockFoundLocked, RecordCompleted,
                    TayqanCheck, Abandon, boqVars
<1>4. ASSUME NEW p \in Request, TayqanInsertSection(p)
      PROVE  Places'
  <2>1. /\ items' = items /\ version' = version
        /\ sections' = [sections EXCEPT ![seen[p].rev] = @ \cup {TayqanSection}]
    BY <1>4 DEF TayqanInsertSection
  <2>2. \A r \in Rev : sections[r] \subseteq sections'[r]
    BY <1>0, <2>1 DEF TypeOK
  <2>3. QED
    BY <1>0, <2>1, <2>2, PlacesUntouched DEF Exists
<1>5. ASSUME NEW r \in Rev, NEW e \in exceptions[r], Resolve(r, e)
      PROVE  Places'
  BY <1>1, <1>5 DEF Resolve
<1>6. ASSUME CreateProjectBoq
      PROVE  Places'
  <2>1. /\ \A r \in Rev : ~Exists(r)
        /\ items' = items
    BY <1>6 DEF CreateProjectBoq
  <2>2. QED
    BY <1>0, <2>1, PlacesUntouched
<1>7. CASE (\E r \in Rev : CreateRevision(r)) \/ CreateSampleRevision
  BY <1>0, <1>7, NewRevisionPlaces, RevType
<1>8. QED
  BY <1>2, <1>3, <1>4, <1>5, <1>6, <1>7 DEF Next, TayqanRequest

-----------------------------------------------------------------------------
(* Numbers.                                                                *)

Numbers == RevisionsContiguous /\ CurrentNamed

\* A step that ends no revision and begins none.
LEMMA NumbersUntouched ==
  ASSUME TypeOK, Numbers, currentRevision' = currentRevision,
         \A r \in Rev : Exists(r)' = Exists(r)
  PROVE  Numbers'
<1>1. currentRevision \in Rev /\ \A r \in Rev : 1..r \subseteq Rev
  BY ConstantsAssumption DEF TypeOK
<1>2. \A r \in Rev : Exists(r)' => \A s \in 1..r : Exists(s)'
  BY <1>1 DEF Numbers, RevisionsContiguous
<1>3. QED
  BY <1>1, <1>2 DEF Numbers, RevisionsContiguous, CurrentNamed, Exists

\* A new revision takes the number after the newest one, and the project is told.
LEMMA BirthNumbers ==
  ASSUME TypeOK, TypeOK', Numbers, NEW n \in Rev,
         \/ n = 1 /\ \A s \in Rev : ~Exists(s)
         \/ n - 1 \in Rev /\ Latest(n - 1),
         version' = [version EXCEPT ![n] = 1], currentRevision' = n
  PROVE  Numbers'
<1> USE RevType
<1>1. \A r \in Rev : Exists(r)' <=> Exists(r) \/ r = n
  BY DEF TypeOK, Exists
<1>2. \A x \in Rev : x < n => Exists(x)
  <2>1. CASE n - 1 \in Rev /\ Latest(n - 1)
    <3>1. \A x \in 1..(n - 1) : Exists(x)
      BY <2>1 DEF Latest, Numbers, RevisionsContiguous
    <3>2. QED
      BY <3>1
  <2>2. QED
    BY <2>1
<1>3. ASSUME NEW r \in Rev, Exists(r)'
      PROVE  r <= n /\ \A x \in 1..r : Exists(x)'
  <2>1. r <= n
    BY <1>1, <1>3 DEF Latest
  <2>2. ASSUME NEW x \in 1..r
        PROVE  Exists(x)'
    <3>1. x \in Rev /\ (x < n \/ x = n)
      BY <2>1, ConstantsAssumption
    <3>2. QED
      BY <1>1, <1>2, <3>1
  <2>3. QED
    BY <2>1, <2>2
<1>4. Exists(n)'
  BY <1>1
<1>5. QED
  BY <1>3, <1>4 DEF Numbers, RevisionsContiguous, CurrentNamed, Exists

LEMMA NumbersStep ==
  ASSUME Inductive, TypeOK', Places, Numbers, Next
  PROVE  Numbers'
<1>0. TypeOK /\ DocumentReads
  BY DEF Inductive
<1>1. ASSUME UNCHANGED <<version, currentRevision>>
      PROVE  Numbers'
  BY <1>0, <1>1, NumbersUntouched DEF Exists
<1>2. ASSUME NEW p \in Request, ItemRequest(p) \/ DocumentRequest(p)
      PROVE  Numbers'
  <2>1. CASE UNCHANGED boqVars \/ Verify(p, "idle")
    BY <1>1, <2>1 DEF boqVars, Verify
  <2>2. ASSUME NEW its, Write(p, its), Sound(seen[p].rev, its)
        PROVE  Numbers'
    <3>1. PICK r \in Rev : r = seen[p].rev
      BY <1>0 DEF TypeOK, Seen
    <3>2. /\ Exists(r) /\ version' = [version EXCEPT ![r] = @ + 1]
          /\ currentRevision' = currentRevision
      BY <2>2, <3>1 DEF Sound, Write, Claim
    <3>3. \A x \in Rev : Exists(x)' = Exists(x)
      BY <1>0, <3>2 DEF TypeOK, Exists
    <3>4. QED
      BY <1>0, <3>2, <3>3, NumbersUntouched
  <2>3. QED
    BY <1>0, <1>2, <2>1, <2>2, ItemRequestSound, DocumentRequestSound
<1>3. ASSUME NEW p \in Request, LockRequest(p) \/ TayqanRequest(p) \/ Abandon(p)
      PROVE  Numbers'
  BY <1>1, <1>3 DEF LockRequest, Verify, LockCheck, Lock, LockFoundLocked, RecordCompleted,
                    TayqanRequest, TayqanCheck, TayqanInsertSection, Abandon, boqVars
<1>4. ASSUME NEW r \in Rev, NEW e \in exceptions[r], Resolve(r, e)
      PROVE  Numbers'
  BY <1>1, <1>4 DEF Resolve
<1>5. ASSUME CreateProjectBoq
      PROVE  Numbers'
  <2>1. /\ \A r \in Rev : ~Exists(r)
        /\ version' = [version EXCEPT ![1] = 1] /\ currentRevision' = currentRevision
    BY <1>5 DEF CreateProjectBoq
  <2>2. currentRevision = 1
    BY <1>0, <2>1 DEF Numbers, CurrentNamed, TypeOK
  <2>3. \A r \in Rev : Exists(r)' <=> r = 1
    BY <1>0, <2>1, RevType DEF TypeOK, Exists
  <2>4. QED
    BY <2>1, <2>2, <2>3, RevType DEF Numbers, RevisionsContiguous, CurrentNamed, Exists
<1>6. ASSUME (\E r \in Rev : CreateRevision(r)) \/ CreateSampleRevision
      PROVE  Numbers'
  <2>1. PICK n \in Rev : /\ \/ n = 1 /\ \A s \in Rev : ~Exists(s)
                            \/ n - 1 \in Rev /\ Latest(n - 1)
                         /\ version' = [version EXCEPT ![n] = 1]
                         /\ currentRevision' = n
    <3>1. CASE CreateSampleRevision
      BY <3>1, SampleIsNew DEF AddRevision
    <3>2. CASE \E r \in Rev : CreateRevision(r)
      <4>1. PICK r \in Rev : /\ Latest(r) /\ r + 1 \in Rev
                             /\ version' = [version EXCEPT ![r + 1] = 1]
                             /\ currentRevision' = r + 1
        BY <3>2 DEF CreateRevision, AddRevision
      <4>2. (r + 1) - 1 = r
        BY RevType
      <4>3. QED
        BY <4>1, <4>2
    <3>3. QED
      BY <1>6, <3>1, <3>2
  <2>2. QED
    BY <1>0, <2>1, BirthNumbers
<1>7. QED
  BY <1>2, <1>3, <1>4, <1>5, <1>6 DEF Next

-----------------------------------------------------------------------------
(* Counts.                                                                 *)

Counts == CountsBounded /\ CountsALock /\ AllowanceSpent

\* A request that is not about to count moves on, or a bystander does something else.
Elsewhere(p) ==
  /\ completed' = completed /\ locked' = locked
  /\ \E at \in PC \ {"lockTx", "record"} : pc' = [pc EXCEPT ![p] = at]
  /\ \E v : seen' = [seen EXCEPT ![p] = v]

LEMMA EditsElsewhere ==
  ASSUME TypeOK, NEW p \in Request, ItemRequest(p) \/ DocumentRequest(p)
  PROVE  Elsewhere(p)
<1>w. ASSUME NEW its, Write(p, its)
      PROVE  Elsewhere(p)
  BY <1>w DEF Write, Done, Elsewhere, PC
<1>1. CASE ItemRequest(p)
  <2>1. CASE \E r \in Rev, l \in Line : ReadItem(p, r, l)
    BY <2>1 DEF ReadItem, Elsewhere, PC, boqVars
  <2>2. CASE ReadItemBoq(p)
    <3>1. seen' = [seen EXCEPT ![p] = [seen[p] EXCEPT !.version = version[seen[p].rev]]]
      BY <2>2 DEF ReadItemBoq
    <3>2. QED
      BY <2>2, <3>1 DEF ReadItemBoq, Elsewhere, PC, boqVars
  <2>3. CASE \E l \in Line : ConfirmItem(p, l) \/ DeleteItem(p, l)
                              \/ \E k \in Line : DuplicateItem(p, l, k)
    BY <1>w, <2>3 DEF ConfirmItem, DeleteItem, DuplicateItem
  <2>4. ASSUME NEW l, NEW q, NEW x, NEW given, UpdateItem(p, l, q, x, given)
        PROVE  Elsewhere(p)
    BY <1>w, <2>4 DEF UpdateItem
  <2>5. QED
    BY <1>1, <2>1, <2>2, <2>3, <2>4 DEF ItemRequest
<1>2. CASE DocumentRequest(p)
  <2>1. CASE \E r \in Rev : ReadBoq(p, r)
    BY <2>1 DEF ReadBoq, Elsewhere, PC, boqVars
  <2>2. CASE ReadBoqItems(p)
    <3>1. seen' = [seen EXCEPT ![p] = [seen[p] EXCEPT !.items = items[seen[p].rev]]]
      BY <2>2 DEF ReadBoqItems
    <3>2. QED
      BY <2>2, <3>1 DEF ReadBoqItems, Elsewhere, PC, boqVars
  <2>3. CASE Verify(p, "idle")
    BY <2>3 DEF Verify, Elsewhere, PC
  <2>4. QED
    BY <1>w, <1>2, <2>1, <2>2, <2>3
       DEF DocumentRequest, CreateItem, Recalculate, UpdateDocument, CreateSection,
           UpdateSection, DeleteSection
<1>3. QED
  BY <1>1, <1>2

\* A step counts a completion, comes closer to it, or does neither.
LEMMA CountingSteps ==
  ASSUME TypeOK, Next
  PROVE  \/ \E p \in Request : Elsewhere(p)
         \/ UNCHANGED <<completed, locked, pc, seen>>
         \/ \E p \in Request : LockCheck(p) \/ Lock(p) \/ LockFoundLocked(p)
                               \/ RecordCompleted(p)
<1>1. ASSUME NEW p \in Request, Verify(p, "lockCheck") \/ TayqanRequest(p) \/ Abandon(p)
      PROVE  Elsewhere(p)
  BY <1>1 DEF Verify, TayqanRequest, TayqanCheck, TayqanInsertSection, Abandon, Done,
              Elsewhere, PC, boqVars
<1>2. ASSUME \/ \E r \in Rev : \E e \in exceptions[r] : Resolve(r, e)
             \/ CreateProjectBoq \/ (\E r \in Rev : CreateRevision(r)) \/ CreateSampleRevision
      PROVE  UNCHANGED <<completed, locked, pc, seen>>
  BY <1>2 DEF Resolve, CreateProjectBoq, CreateRevision, CreateSampleRevision, AddRevision,
              requestVars
<1>3. QED
  BY <1>1, <1>2, EditsElsewhere DEF Next, LockRequest

Locks == {r \in Rev : locked[r]}

LEMMA CountingFinite ==
  ASSUME TypeOK
  PROVE  /\ IsFiniteSet(Counting) /\ Cardinality(Counting) \in Nat
         /\ IsFiniteSet(CountingLocks) /\ Cardinality(CountingLocks) \in Nat
         /\ IsFiniteSet(Locks) /\ Cardinality(Locks) \in Nat
         /\ Cardinality(Request) \in Nat /\ completed \in Nat /\ MaxCompletedBoqs \in Nat
<1>1. IsFiniteSet(Counting) /\ IsFiniteSet(CountingLocks)
  <2>1. Counting \subseteq Request /\ CountingLocks \subseteq Request
    BY DEF Counting, CountingLocks
  <2>2. QED
    BY <2>1, ConstantsAssumption, FS_Subset
<1>2. IsFiniteSet(Rev)
  BY ConstantsAssumption, FS_Interval DEF Rev
<1>3. IsFiniteSet(Locks)
  BY <1>2, FS_Subset DEF Locks
<1>4. QED
  BY <1>1, <1>3, ConstantsAssumption, FS_CardinalityType DEF TypeOK

\* No step makes the counts of the locks made, and those about to be made, more than the
\* requests in flight for each lock: a lock makes room for all of them at once.
LEMMA CountsBoundedStep ==
  ASSUME TypeOK, TypeOK', Counts, Next
  PROVE  CountsBounded'
<1> DEFINE N == Cardinality(Request)
<1>0. /\ CountsBounded <=> completed + Cardinality(CountingLocks) <= N * Cardinality(Locks)
      /\ CountsBounded' <=> completed' + Cardinality(CountingLocks')
                               <= N * Cardinality(Locks')
  BY DEF CountsBounded, Locks
<1>n. N \in Nat
  BY CountingFinite
<1>c. CountsBounded
  BY DEF Counts
<1>k. ASSUME completed' = completed, Locks' = Locks, CountingLocks' \subseteq CountingLocks
      PROVE  CountsBounded'
  <2>1. Cardinality(CountingLocks') <= Cardinality(CountingLocks)
        /\ Cardinality(CountingLocks') \in Nat
    BY <1>k, CountingFinite, FS_Subset, FS_CardinalityType
  <2>2. N * Cardinality(Locks) \in Nat
    BY <1>n, CountingFinite
  <2> HIDE DEF N
  <2>3. QED
    BY <1>0, <1>c, <1>k, <2>1, <2>2, CountingFinite
<1>1. ASSUME NEW p \in Request, Elsewhere(p)
      PROVE  CountsBounded'
  <2>1. /\ completed' = completed /\ locked' = locked
        /\ pc'[p] \notin {"lockTx", "record"}
        /\ \A q \in Request \ {p} : pc'[q] = pc[q] /\ seen'[q] = seen[q]
    BY <1>1 DEF Elsewhere, TypeOK
  <2>2. CountingLocks' \subseteq CountingLocks
    BY <2>1 DEF CountingLocks, Counting
  <2>3. QED
    BY <1>k, <2>1, <2>2 DEF Locks
<1>2. CASE UNCHANGED <<completed, locked, pc, seen>>
  BY <1>2, <1>k DEF CountingLocks, Counting, Locks
<1>3. ASSUME NEW p \in Request, LockCheck(p) \/ LockFoundLocked(p)
      PROVE  CountsBounded'
  <2>1. /\ completed' = completed /\ locked' = locked /\ seen' = seen
        /\ \A q \in Request \ {p} : pc'[q] = pc[q]
        /\ pc[p] # "lockTx" => ~locked[seen[p].rev]
    BY <1>3 DEF LockCheck, LockFoundLocked, boqVars, TypeOK
  <2>2. CountingLocks' \subseteq CountingLocks
    BY <2>1 DEF CountingLocks, Counting
  <2>3. QED
    BY <1>k, <2>1, <2>2 DEF Locks
<1>4. ASSUME NEW p \in Request, Lock(p)
      PROVE  CountsBounded'
  <2> DEFINE r == seen[p].rev
  <2>1. r \in Rev /\ ~locked[r] /\ locked' = [locked EXCEPT ![r] = TRUE]
        /\ completed' = completed
    BY <1>4 DEF Lock, TypeOK, Seen, boqVars
  <2>2. Locks' = Locks \cup {r} /\ r \notin Locks
    BY <2>1 DEF Locks, TypeOK
  <2> HIDE DEF r
  <2>3. Cardinality(Locks') = Cardinality(Locks) + 1
    BY <2>2, CountingFinite, FS_AddElement
  <2>4. CountingLocks' \subseteq Request
    BY DEF CountingLocks, Counting
  <2>5. Cardinality(CountingLocks') <= N /\ Cardinality(CountingLocks') \in Nat
    BY <2>4, ConstantsAssumption, FS_Subset, FS_CardinalityType
  <2>6. N * Cardinality(Locks') = N * Cardinality(Locks) + N
        /\ N * Cardinality(Locks) \in Nat
    BY <1>n, <2>3, CountingFinite
  <2> HIDE DEF N
  <2>7. QED
    BY <1>0, <1>c, <1>n, <2>1, <2>5, <2>6, CountingFinite
<1>5. ASSUME NEW p \in Request, RecordCompleted(p)
      PROVE  CountsBounded'
  <2>1. /\ pc[p] = "record" /\ pc'[p] = "idle" /\ locked' = locked
        /\ \A q \in Request \ {p} : pc'[q] = pc[q] /\ seen'[q] = seen[q]
        /\ completed' \in {completed, completed + 1}
    BY <1>5 DEF RecordCompleted, Done, boqVars, TypeOK
  <2>2. p \in CountingLocks
    BY <2>1 DEF Counts, CountsALock, CountingLocks, Counting
  <2>3. CountingLocks' = CountingLocks \ {p}
    BY <2>1 DEF CountingLocks, Counting
  <2>4. Cardinality(CountingLocks') = Cardinality(CountingLocks) - 1
    BY <2>2, <2>3, CountingFinite, FS_RemoveElement
  <2>5. Locks' = Locks
    BY <2>1 DEF Locks
  <2>6. N * Cardinality(Locks) \in Nat
    BY <1>n, CountingFinite
  <2> HIDE DEF N
  <2>7. QED
    BY <1>0, <1>c, <2>1, <2>4, <2>5, <2>6, CountingFinite
<1>6. QED
  BY <1>1, <1>2, <1>3, <1>4, <1>5, CountingSteps

\* A step that counts nothing and brings nobody closer to counting.
LEMMA CountsUntouched ==
  ASSUME TypeOK, TypeOK', Counts, completed' = completed, Counting' \subseteq Counting,
         \A q \in Request : pc'[q] = "record" => pc[q] = "record" /\ seen'[q] = seen[q],
         \A r \in Rev : locked[r] => locked'[r]
  PROVE  CountsALock' /\ AllowanceSpent'
<1>2. CountsALock'
  BY DEF Counts, CountsALock, TypeOK, Seen
<1>3. Cardinality(Counting') <= Cardinality(Counting)
  BY CountingFinite, FS_Subset
<1>4. Cardinality(Counting') \in Nat
  BY CountingFinite, FS_Subset, FS_CardinalityType
<1>5. AllowanceSpent'
  <2>1. CASE OnTrial
    BY <1>3, <1>4, <2>1, CountingFinite DEF Counts, AllowanceSpent
  <2>2. CASE ~OnTrial
    BY <2>2 DEF Counts, AllowanceSpent
  <2>3. QED
    BY <2>1, <2>2
<1>6. QED
  BY <1>2, <1>5

\* Passing the allowance makes one more request to count, counting makes it one fewer.
LEMMA CountsStep ==
  ASSUME TypeOK, TypeOK', UnbornClean, Counts, Next
  PROVE  Counts'
<1>b. CountsBounded'
  BY CountsBoundedStep
<1>l. ASSUME NEW r \in Rev, locked[r]
      PROVE  locked'[r]
  BY <1>l, FrozenStep DEF Frozen
<1>s. ASSUME NEW p \in Request
      PROVE  seen[p].rev \in Rev
  BY DEF TypeOK, Seen
<1>1. ASSUME NEW p \in Request, Elsewhere(p)
      PROVE  Counts'
  <2>1. pc'[p] \notin {"lockTx", "record"}
        /\ \A q \in Request \ {p} : pc'[q] = pc[q] /\ seen'[q] = seen[q]
    BY <1>1 DEF Elsewhere, TypeOK
  <2>2. Counting' \subseteq Counting
    BY <2>1 DEF Counting
  <2>3. completed' = completed
    BY <1>1 DEF Elsewhere
  <2>4. QED
    BY <1>b, <1>l, <2>1, <2>2, <2>3, CountsUntouched DEF Counts
<1>2. CASE UNCHANGED <<completed, locked, pc, seen>>
  <2>1. Counting' = Counting
    BY <1>2 DEF Counting
  <2>2. QED
    BY <1>b, <1>l, <1>2, <2>1, CountsUntouched DEF Counts
<1>3. ASSUME NEW p \in Request, LockCheck(p)
      PROVE  Counts'
  <2>1. /\ completed' = completed /\ locked' = locked /\ seen' = seen
        /\ pc' = [pc EXCEPT ![p] = "lockTx"] /\ pc[p] = "lockCheck"
        /\ OnTrial => completed < MaxCompletedBoqs
    BY <1>3 DEF LockCheck, boqVars
  <2>2. Counting' = Counting \cup {p} /\ p \notin Counting
    BY <2>1 DEF Counting, TypeOK
  <2>3. CountsALock'
    BY <2>1 DEF Counts, CountsALock, TypeOK
  <2>4. Cardinality(Counting') = Cardinality(Counting) + 1
    BY <2>2, CountingFinite, FS_AddElement
  <2>5. Cardinality(Counting) < Cardinality(Request)
    <3>1. Counting \subseteq Request \ {p}
      BY <2>2 DEF Counting
    <3>2. /\ IsFiniteSet(Request \ {p})
          /\ Cardinality(Request \ {p}) = Cardinality(Request) - 1
      BY ConstantsAssumption, FS_RemoveElement
    <3>3. Cardinality(Counting) <= Cardinality(Request \ {p})
      BY <3>1, <3>2, FS_Subset
    <3>4. QED
      BY <3>2, <3>3, CountingFinite
  <2>6. AllowanceSpent'
    <3>1. CASE OnTrial
      BY <2>1, <2>4, <2>5, <3>1, CountingFinite DEF AllowanceSpent
    <3>2. CASE ~OnTrial
      BY <2>1, <3>2 DEF Counts, AllowanceSpent
    <3>3. QED
      BY <3>1, <3>2
  <2>7. QED
    BY <1>b, <2>3, <2>6 DEF Counts
<1>4. ASSUME NEW p \in Request, Lock(p) \/ LockFoundLocked(p)
      PROVE  Counts'
  <2>1. /\ completed' = completed /\ seen' = seen
        /\ pc' = [pc EXCEPT ![p] = "record"] /\ pc[p] = "lockTx"
    BY <1>4 DEF Lock, LockFoundLocked, boqVars
  <2>2. locked'[seen[p].rev]
    BY <1>4, <1>s DEF Lock, LockFoundLocked, TypeOK, boqVars
  <2>3. Counting' = Counting
    BY <2>1 DEF Counting, TypeOK
  <2>5. CountsALock'
    BY <1>l, <1>s, <2>1, <2>2 DEF Counts, CountsALock, TypeOK
  <2>6. AllowanceSpent'
    BY <2>1, <2>3 DEF Counts, AllowanceSpent
  <2>7. QED
    BY <1>b, <2>5, <2>6 DEF Counts
<1>5. ASSUME NEW p \in Request, RecordCompleted(p)
      PROVE  Counts'
  <2>1. /\ pc[p] = "record" /\ pc' = [pc EXCEPT ![p] = "idle"] /\ locked' = locked
        /\ seen' = [seen EXCEPT ![p] = NothingSeen]
        /\ completed' = IF OnTrial THEN completed + 1 ELSE completed
    BY <1>5 DEF RecordCompleted, Done, boqVars
  <2>4. CountsALock'
    BY <2>1 DEF Counts, CountsALock, TypeOK
  <2>5. p \in Counting /\ Counting' = Counting \ {p}
    BY <2>1 DEF Counting, TypeOK
  <2>6. Cardinality(Counting') = Cardinality(Counting) - 1
    BY <2>5, CountingFinite, FS_RemoveElement
  <2>7. AllowanceSpent'
    <3>1. CASE OnTrial
      <4>1. completed' + Cardinality(Counting') = completed + Cardinality(Counting)
        BY <2>1, <2>6, <3>1, CountingFinite
      <4>2. QED
        BY <3>1, <4>1 DEF Counts, AllowanceSpent
    <3>2. CASE ~OnTrial
      BY <2>1, <3>2 DEF Counts, AllowanceSpent
    <3>3. QED
      BY <3>1, <3>2
  <2>8. QED
    BY <1>b, <2>4, <2>7 DEF Counts
<1>6. QED
  BY <1>1, <1>2, <1>3, <1>4, <1>5, CountingSteps

-----------------------------------------------------------------------------

\* A migrated project has one revision at most, whose items cite nothing.
LEMMA InitContents == Init => InductiveContents
<1> SUFFICES ASSUME Init
             PROVE  InductiveContents
  OBVIOUS
<1>1. TypeOK
  BY InitType
<1>2. PICK v \in {0, 1}, its \in [Line -> LegacyItem \cup {Absent}] :
        /\ v = 0 => its = Nothing
        /\ {SectionOf[l] : l \in Live(its)} \subseteq Template
        /\ version = [r \in Rev |-> IF r = 1 THEN v ELSE 0]
        /\ items = [r \in Rev |-> IF r = 1 THEN its ELSE Nothing]
        /\ sections = [r \in Rev |-> IF r = 1 /\ v = 1 THEN Template ELSE {}]
  BY DEF Init
<1>3. Live(Nothing) = {}
  BY AtomsAssumption DEF Live, Nothing
<1>4. UnbornEmpty
  BY <1>2, <1>3 DEF UnbornEmpty, Exists
<1>5. SectionsHoldItems
  BY <1>2, <1>3, <1>4 DEF SectionsHoldItems, UnbornEmpty, Exists
<1>6. CitedItemsExist
  <2> SUFFICES ASSUME NEW q \in Place, items[q[1]][q[2]] \in Item,
                      NEW s \in {items[q[1]][q[2]].qtyEvidence.source,
                                 items[q[1]][q[2]].rateEvidence.source} \ {NoPlace}
               PROVE  FALSE
    BY DEF CitedItemsExist
  <2>1. q[1] = 1 /\ q[2] \in Live(its)
    BY <1>2, <1>3 DEF Live
  <2>2. its[q[2]] \in LegacyItem
    BY <2>1, AtomsAssumption DEF Live
  <2>3. QED
    BY <1>2, <2>1, <2>2 DEF LegacyItem, NoEvidence
<1>7. RevisionsContiguous /\ CurrentNamed
  BY <1>2, RevType DEF Init, RevisionsContiguous, CurrentNamed, Exists
<1>8. completed = 0 /\ \A p \in Request : pc[p] = "idle"
  BY DEF Init
<1>9. CountsBounded /\ CountsALock
  <2>1. CountingLocks = {}
    BY <1>8 DEF CountingLocks, Counting
  <2>2. Cardinality(CountingLocks) = 0
    BY <2>1, FS_EmptySet
  <2>3. Cardinality(Request) * Cardinality(Locks) \in Nat
    BY <1>1, CountingFinite
  <2>4. CountsBounded
    BY <1>8, <2>2, <2>3 DEF CountsBounded, Locks
  <2>5. QED
    BY <1>8, <2>4 DEF CountsALock
<1>10. AllowanceSpent
  <2>1. Counting = {}
    BY <1>8 DEF Counting
  <2>2. Cardinality(Counting) = 0
    BY <2>1, FS_EmptySet
  <2>3. QED
    BY <1>8, <2>2 DEF AllowanceSpent
<1>11. QED
  BY <1>4, <1>5, <1>6, <1>7, <1>9, <1>10 DEF InductiveContents

LEMMA ContentsStep == Inductive /\ TypeOK' /\ InductiveContents /\ [Next]_vars
                        => InductiveContents'
<1> SUFFICES ASSUME Inductive, TypeOK', InductiveContents, [Next]_vars
             PROVE  InductiveContents'
  OBVIOUS
<1>1. Places /\ Numbers /\ Counts /\ TypeOK /\ UnbornClean
  BY DEF Inductive, InductiveContents, Places, Numbers, Counts
<1>2. CASE Next
  <2>1. Places' /\ Numbers' /\ Counts'
    BY <1>1, <1>2, PlacesStep, NumbersStep, CountsStep
  <2>2. QED
    BY <2>1 DEF InductiveContents, Places, Numbers, Counts
<1>3. CASE UNCHANGED vars
  BY <1>3 DEF vars, boqVars, requestVars, InductiveContents, UnbornEmpty, CitedItemsExist,
              SectionsHoldItems, RevisionsContiguous, CurrentNamed, CountsBounded,
              CountsALock, AllowanceSpent, Counting, CountingLocks, Exists
<1>4. QED
  BY <1>2, <1>3

\* The strengthening behind the theorems below holds in every reachable state.
THEOREM InductiveContentsHolds == Spec => []InductiveContents
<1>1. Inductive => TypeOK
  BY DEF Inductive
<1>2. QED
  BY <1>1, InitContents, ContentsStep, InductiveHolds, PTL DEF Spec

\* No deletion, document or fork, and no request that read a citation before it, leaves
\* evidence that cites an item which is gone, in the same revision or in another.
THEOREM CitationsResolve == Spec => []CitedItemsExist
<1>1. InductiveContents => CitedItemsExist
  BY DEF InductiveContents
<1>2. QED
  BY <1>1, InductiveContentsHolds, PTL

\* Every item is in a section of its revision, whatever sections were inserted, listed
\* or deleted between a writer's read and its claim.
THEOREM ItemsAreInSections == Spec => []SectionsHoldItems
<1>1. InductiveContents => SectionsHoldItems
  BY DEF InductiveContents
<1>2. QED
  BY <1>1, InductiveContentsHolds, PTL

\* The project names its newest revision and none before it is missing, whichever of
\* the three writers of revisions came last.
THEOREM RevisionsAreContiguous == Spec => []RevisionsContiguous
<1>1. InductiveContents => RevisionsContiguous
  BY DEF InductiveContents
<1>2. QED
  BY <1>1, InductiveContentsHolds, PTL

\* No request in flight counts a lock twice and none that starts after a lock counts
\* it, although any number of requests may find it made after they passed the allowance.
THEOREM LocksAreCountedOnce == Spec => []CountedPerLock
<1>1. TypeOK /\ InductiveContents => CountedPerLock
  <2> SUFFICES ASSUME TypeOK, CountsBounded
               PROVE  completed <= Cardinality(Request) * Cardinality(Locks)
    BY DEF InductiveContents, CountedPerLock, Locks
  <2>1. Cardinality(Request) * Cardinality(Locks) \in Nat
    BY CountingFinite
  <2>2. QED
    BY <2>1, CountingFinite DEF CountsBounded, Locks
<1>2. QED
  BY <1>1, InductiveContentsHolds, TypeCorrect, PTL

\* However many requests lock at once, the allowance of a trial is overrun by fewer
\* than there are of them.
THEOREM OverrunIsBounded == Spec => []AllowanceOverrun
<1>1. TypeOK /\ InductiveContents => AllowanceOverrun
  <2> SUFFICES ASSUME TypeOK, AllowanceSpent, completed > 0
               PROVE  OnTrial /\ completed < MaxCompletedBoqs + Cardinality(Request)
    BY DEF InductiveContents, AllowanceOverrun
  <2>1. OnTrial
    BY ConstantsAssumption DEF AllowanceSpent
  <2>2. QED
    BY <2>1, CountingFinite DEF AllowanceSpent
<1>2. QED
  BY <1>1, InductiveContentsHolds, TypeCorrect, PTL
=============================================================================
