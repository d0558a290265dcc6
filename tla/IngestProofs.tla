----------------------------- MODULE IngestProofs -----------------------------
(***************************************************************************)
(* Theorems about Ingest, for any set of sessions, feeds and bounds: about *)
(* its runs and sweep, and then about the histories that they write.       *)
(***************************************************************************)
EXTENDS Ingest, SequenceTheorems, FiniteSetTheorems, TLAPS

(***************************************************************************)
(* What an observation writes has the type of a row, of versions that name *)
(* the run and the record, and of price events.                            *)
(***************************************************************************)
LEMMA ObserveType ==
    ASSUME NEW old \in Row \cup {Null}, NEW item \in ListingItem,
           NEW run \in Nat, NEW t \in Nat
    PROVE  LET e == Observe(old, item, run, t)
           IN /\ e \in Pending
              /\ \A k \in 1..Len(e.versions) :
                    e.versions[k].run = run /\ e.versions[k].snapshot = item
<1> DEFINE e == Observe(old, item, run, t)
<1>0. \A kind \in ObservedKinds : Observed(run, kind, item) \in Version
  BY DEF Observed, Version, ObservedVersion
<1>1. CASE old = Null
  <2>1. e.row \in Row
    BY <1>1 DEF Observe, NewRow, Row, ListingItem
  <2>2. /\ e.versions \in Seq(Version)
        /\ \A k \in 1..Len(e.versions) :
              e.versions[k].run = run /\ e.versions[k].snapshot = item
    <3>1. e.versions = <<Observed(run, "new", item)>>
      BY <1>1 DEF Observe
    <3>2. Observed(run, "new", item) \in Version
      BY <1>0 DEF ObservedKinds
    <3> QED BY <3>1, <3>2 DEF Observed
  <2>3. e.events \in Seq(PriceEvent)
    <3>1. CASE item.price = Null
      BY <1>1, <3>1 DEF Observe
    <3>2. CASE item.price # Null
      <4>1. [old |-> Null, new |-> item.price] \in PriceEvent
        BY <3>2 DEF PriceEvent, ListingItem
      <4>2. e.events = <<[old |-> Null, new |-> item.price]>>
        BY <1>1, <3>2 DEF Observe
      <4> QED BY <4>1, <4>2
    <3> QED BY <3>1, <3>2
  <2>4. e = [row |-> e.row, versions |-> e.versions, events |-> e.events]
    BY <1>1 DEF Observe
  <2> QED BY <2>1, <2>2, <2>3, <2>4 DEF Pending
<1>2. CASE old # Null
  <2>0. old \in Row
    BY <1>2
  <2>1. e.row \in Row
    BY <1>2, <2>0 DEF Observe, SeenRow, KeptPrice, Row, ListingItem
  <2>2. Kinds(old, item) \in Seq(ObservedKinds)
    <3>1. /\ "price_changed" \in ObservedKinds
          /\ "relisted" \in ObservedKinds
          /\ "updated" \in ObservedKinds
      BY DEF ObservedKinds
    <3>2. /\ <<>> \in Seq(ObservedKinds)
          /\ <<"updated">> \in Seq(ObservedKinds)
          /\ <<"relisted">> \in Seq(ObservedKinds)
          /\ <<"price_changed">> \in Seq(ObservedKinds)
          /\ <<"relisted", "price_changed">> \in Seq(ObservedKinds)
      BY <3>1
    <3>3. CASE PriceChanged(old, item)
      BY <3>2, <3>3 DEF Kinds
    <3>4. CASE ~PriceChanged(old, item) /\ OtherChanged(old, item)
      BY <3>2, <3>4 DEF Kinds
    <3>5. CASE ~PriceChanged(old, item) /\ ~OtherChanged(old, item)
      BY <3>2, <3>5 DEF Kinds
    <3> QED BY <3>3, <3>4, <3>5
  <2>3. e.versions = [k \in 1..Len(Kinds(old, item)) |->
                        Observed(run, Kinds(old, item)[k], item)]
    BY <1>2 DEF Observe, VersionsOfKinds
  <2>4. \A k \in 1..Len(Kinds(old, item)) :
           Observed(run, Kinds(old, item)[k], item) \in Version
    BY <1>0, <2>2
  <2>5. Len(Kinds(old, item)) \in Nat
    BY <2>2
  <2>6. e.versions \in Seq(Version) /\ Len(e.versions) = Len(Kinds(old, item))
    BY <2>3, <2>4, <2>5
  <2>7. \A k \in 1..Len(e.versions) :
           e.versions[k].run = run /\ e.versions[k].snapshot = item
    BY <2>3, <2>6 DEF Observed
  <2>8. e.events \in Seq(PriceEvent)
    <3>1. CASE PriceChanged(old, item)
      <4>1. [old |-> old.price, new |-> item.price] \in PriceEvent
        BY <3>1, <2>0 DEF PriceChanged, PriceEvent, ListingItem, Row
      <4>2. e.events = <<[old |-> old.price, new |-> item.price]>>
        BY <1>2, <3>1 DEF Observe
      <4> QED BY <4>1, <4>2
    <3>2. CASE ~PriceChanged(old, item)
      BY <1>2, <3>2 DEF Observe
    <3> QED BY <3>1, <3>2
  <2>9. e = [row |-> e.row, versions |-> e.versions, events |-> e.events]
    BY <1>2 DEF Observe
  <2> QED BY <2>1, <2>6, <2>7, <2>8, <2>9 DEF Pending
<1> QED BY <1>1, <1>2

(***************************************************************************)
(* A removal and a column-wise write stay rows.                            *)
(***************************************************************************)
LEMMA RemovalType ==
    ASSUME NEW old \in Row, NEW t \in Nat, NEW cutoff \in Int
    PROVE  LET e == Removal(old, t, cutoff)
           IN /\ e \in Pending
              /\ \A k \in 1..Len(e.versions) : e.versions[k].kind = "removed"
<1> DEFINE v == [run |-> Null, kind |-> "removed", seen |-> old.seen,
                 cutoff |-> cutoff]
<1>1. v \in Version
  BY DEF Version, RemovedVersion, Row
<1>2. Removal(old, t, cutoff).versions = <<v>>
  BY DEF Removal
<1>3. Removal(old, t, cutoff).row \in Row
  BY DEF Removal, Row
<1>4. Removal(old, t, cutoff) \in Pending
  <2>1. Removal(old, t, cutoff) = [row |-> Removal(old, t, cutoff).row,
                                   versions |-> <<v>>, events |-> <<>>]
    BY DEF Removal
  <2>2. <<v>> \in Seq(Version) /\ <<>> \in Seq(PriceEvent)
    BY <1>1
  <2>3. \A a \in Row, b \in Seq(Version), c \in Seq(PriceEvent) :
           [row |-> a, versions |-> b, events |-> c] \in Pending
    BY DEF Pending
  <2> HIDE DEF v
  <2> QED BY <2>1, <2>2, <2>3, <1>3
<1> QED BY <1>2, <1>4

LEMMA WriteColumnsType ==
    ASSUME NEW stored \in Row, NEW read \in Row, NEW new \in Row
    PROVE  WriteColumns(stored, read, new) \in Row
BY DEF WriteColumns, Row

LEMMA ClassifyTerminal ==
    ASSUME NEW items \in Nat, NEW fails \in Nat, NEW skipped \in Nat, NEW sizes
    PROVE  Classify(items, fails, skipped, sizes) \in Terminal
BY DEF Classify, Terminal

-------------------------------------------------------------------------------
(***************************************************************************)
(* The inductive invariant.  OpenRuns: a session has a run open, and one   *)
(* that exists, exactly between Start and the end of the run.  InHand:     *)
(* what a session has read and not written is the record it is at, or      *)
(* listings that exist; a row once read as existing still does.            *)
(* ArchivedFirst: by the time a session handles records, and writes        *)
(* versions from them, they are in the archive of its run.                 *)
(***************************************************************************)
Open == {"fetch", "archive", "items", "write", "close"}

OpenRun(w) == IF pc[w] \in Open THEN cur[w] \in 1..Len(runs) ELSE cur[w] = 0

Hand(w) ==
    /\ pc[w] = "write" => /\ pos[w] \in 1..Len(feed[w])
                          /\ feed[w][pos[w]].kind = "listing"
                          /\ DOMAIN view[w] = {feed[w][pos[w]].id}
    /\ pc[w] = "sweep" => \A i \in DOMAIN view[w] : view[w][i] # Null
    /\ \A i \in DOMAIN view[w] : view[w][i] # Null => Mine(w, i).row # Null

Backed(r, i, v) == v.kind # "removed" => <<v.run, v.snapshot>> \in r /\ v.snapshot.id = i

First(w) ==
    /\ pc[w] \in {"items", "write"} => Archived(w) \subseteq raw
    /\ \A i \in DOMAIN staged[w] : \A k \in 1..Len(staged[w][i].versions) :
          Backed(raw, i, staged[w][i].versions[k])

OpenRuns      == \A w \in Workers : OpenRun(w)
InHand        == \A w \in Workers : Hand(w)
ArchivedFirst == \A w \in Workers : First(w)

IInv == TypeOK /\ OpenRuns /\ InHand /\ ArchivedFirst /\ RawFirst

-------------------------------------------------------------------------------
(***************************************************************************)
(* What the shared parts of the actions do to the types.                   *)
(***************************************************************************)
LEMMA MineType ==
    ASSUME TypeOK, NEW w \in Workers, NEW i \in Ids
    PROVE  /\ Mine(w, i).row \in Row \cup {Null}
           /\ Mine(w, i).versions \in Seq(Version)
           /\ Mine(w, i).events \in Seq(PriceEvent)
           /\ i \in DOMAIN staged[w] => Mine(w, i).row \in Row
<1>1. CASE i \in DOMAIN staged[w]
  <2>1. staged[w][i] \in Pending
    BY <1>1 DEF TypeOK, SessionTypeOK, Partial
  <2> QED BY <1>1, <2>1 DEF Mine, Pending
<1>2. CASE i \notin DOMAIN staged[w]
  BY <1>2 DEF Mine, TypeOK, DatabaseTypeOK
<1> QED BY <1>1, <1>2

LEMMA PublishType ==
    ASSUME TypeOK, NEW w \in Workers, Publish(w)
    PROVE  /\ listings' \in [Ids -> Row \cup {Null}]
           /\ versions' \in [Ids -> Seq(Version)]
           /\ events' \in [Ids -> Seq(PriceEvent)]
<1>1. \A i \in Ids : versions[i] \in Seq(Version) /\ events[i] \in Seq(PriceEvent)
  BY DEF TypeOK, DatabaseTypeOK
<1>2. \A i \in Ids : versions[i] \o Mine(w, i).versions \in Seq(Version)
  BY <1>1, MineType, ConcatProperties
<1>3. \A i \in Ids : events[i] \o Mine(w, i).events \in Seq(PriceEvent)
  BY <1>1, MineType, ConcatProperties
<1> QED BY <1>2, <1>3, MineType DEF Publish

LEMMA EndSessionType ==
    ASSUME TypeOK, NEW w \in Workers, EndSession(w)
    PROVE  SessionTypeOK'
BY DEF TypeOK, SessionTypeOK, EndSession, Partial, Places, Nothing

LEMMA FinishRunType ==
    ASSUME TypeOK, NEW w \in Workers, cur[w] \in 1..Len(runs),
           NEW status \in Statuses, NEW items \in Nat,
           FinishRun(w, status, items)
    PROVE  runs' \in Seq(Run) /\ Len(runs') = Len(runs)
<1> DEFINE r == [status |-> status, items |-> items,
                 started |-> runs[cur[w]].started, finished |-> now]
<1>1. runs \in Seq(Run) /\ runs[cur[w]] \in Run
  BY DEF TypeOK, DatabaseTypeOK
<1>2. runs' = [runs EXCEPT ![cur[w]] = r]
  BY DEF FinishRun
<1>3. r \in Run
  BY <1>1 DEF Run, TypeOK
<1> QED BY <1>1, <1>2, <1>3, ExceptSeq

LEMMA FlushType ==
    ASSUME TypeOK, NEW w \in Workers, NEW i \in Ids,
           NEW old \in Row \cup {Null}, NEW effect \in Pending,
           old # Null => Mine(w, i).row # Null,
           Flush(w, i, old, effect)
    PROVE  /\ DOMAIN staged' = Workers
           /\ \A v \in Workers : Partial(staged'[v], Ids, Pending)
           /\ \A v \in Workers \ {w} : staged'[v] = staged[v]
           /\ DOMAIN staged'[w] = DOMAIN staged[w] \cup {i}
           /\ \A j \in DOMAIN staged[w] \ {i} : staged'[w][j] = staged[w][j]
           /\ staged'[w][i].versions = Mine(w, i).versions \o effect.versions
<1> DEFINE mine == Mine(w, i)
           p == [row |-> IF old = Null THEN effect.row
                         ELSE WriteColumns(mine.row, old, effect.row),
                 versions |-> mine.versions \o effect.versions,
                 events |-> mine.events \o effect.events]
           s == [j \in DOMAIN staged[w] \cup {i} |->
                    IF j # i THEN staged[w][j] ELSE p]
<1>0. /\ effect.row \in Row /\ effect.versions \in Seq(Version)
      /\ effect.events \in Seq(PriceEvent)
  BY DEF Pending
<1>1. DOMAIN staged = Workers /\ \A v \in Workers : Partial(staged[v], Ids, Pending)
  BY DEF TypeOK, SessionTypeOK
<1>2. staged' = [staged EXCEPT ![w] = s]
  BY DEF Flush
<1>3. p \in Pending
  <2>1. (IF old = Null THEN effect.row
         ELSE WriteColumns(mine.row, old, effect.row)) \in Row
    BY <1>0, MineType, WriteColumnsType
  <2>2. /\ mine.versions \o effect.versions \in Seq(Version)
        /\ mine.events \o effect.events \in Seq(PriceEvent)
    BY <1>0, MineType, ConcatProperties
  <2> QED BY <2>1, <2>2 DEF Pending
<1>4. Partial(s, Ids, Pending)
  BY <1>1, <1>3 DEF Partial
<1>5. staged'[w] = s /\ \A v \in Workers \ {w} : staged'[v] = staged[v]
  BY <1>1, <1>2
<1>6. s[i] = p /\ \A j \in DOMAIN staged[w] \ {i} : s[j] = staged[w][j]
  OBVIOUS
<1> QED BY <1>1, <1>2, <1>4, <1>5, <1>6

LEMMA SkippedType ==
    ASSUME NEW f \in Seq(Item)
    PROVE  Skipped(f) \in Nat
<1>1. DOMAIN f = 1..Len(f) /\ Len(f) \in Nat
  OBVIOUS
<1>2. IsFiniteSet({k \in DOMAIN f : f[k].kind = "project"})
  <2>1. IsFiniteSet(DOMAIN f)
    BY <1>1, FS_Interval
  <2>2. {k \in DOMAIN f : f[k].kind = "project"} \in SUBSET (DOMAIN f)
    OBVIOUS
  <2> QED BY <2>1, <2>2, FS_Subset
<1> QED BY <1>2, FS_CardinalityType DEF Skipped

-------------------------------------------------------------------------------
(***************************************************************************)
(* A row that exists stays: what is published replaces rows by rows.       *)
(***************************************************************************)
RowsStay == \A i \in Ids : listings[i] # Null => listings'[i] # Null

LEMMA PublishKeepsRows ==
    ASSUME TypeOK, NEW w \in Workers, Publish(w)
    PROVE  RowsStay
<1> SUFFICES ASSUME NEW i \in Ids, listings[i] # Null
             PROVE  listings'[i] # Null
  BY DEF RowsStay
<1>1. listings'[i] = Mine(w, i).row
  BY DEF Publish
<1>2. CASE i \in DOMAIN staged[w]
  <2>1. Mine(w, i).row \in Row
    BY <1>2, MineType
  <2> QED BY <1>1, <2>1, NullAssumption
<1>3. CASE i \notin DOMAIN staged[w]
  BY <1>1, <1>3 DEF Mine
<1> QED BY <1>2, <1>3

(***************************************************************************)
(* What a session publishes is backed by the archive, as what it staged.   *)
(***************************************************************************)
LEMMA PublishBacked ==
    ASSUME TypeOK, ArchivedFirst, RawFirst, NEW w \in Workers, Publish(w), raw' = raw
    PROVE  RawFirst'
<1> SUFFICES ASSUME NEW i \in Ids, NEW k \in 1..Len(versions'[i])
             PROVE  Backed(raw, i, versions'[i][k])
  BY DEF RawFirst, Backed
<1> DEFINE mine == Mine(w, i).versions
<1>1. versions'[i] = versions[i] \o mine
  BY DEF Publish
<1>2. versions[i] \in Seq(Version) /\ mine \in Seq(Version)
  BY MineType DEF TypeOK, DatabaseTypeOK
<1>3. \A n \in 1..Len(versions[i]) : Backed(raw, i, versions[i][n])
  BY DEF RawFirst, Backed
<1>4. \A n \in 1..Len(mine) : Backed(raw, i, mine[n])
  BY DEF ArchivedFirst, First, Mine
<1> HIDE DEF mine
<1>5. CASE k <= Len(versions[i])
  <2>1. k \in 1..Len(versions[i]) /\ versions'[i][k] = versions[i][k]
    BY <1>1, <1>2, <1>5, ConcatProperties
  <2> QED BY <2>1, <1>3
<1>6. CASE ~(k <= Len(versions[i]))
  <2>1. /\ k - Len(versions[i]) \in 1..Len(mine)
        /\ versions'[i][k] = mine[k - Len(versions[i])]
    BY <1>1, <1>2, <1>6, ConcatProperties
  <2> QED BY <2>1, <1>4
<1> QED BY <1>5, <1>6

(***************************************************************************)
(* The end of a session, whatever happened in the database before it.      *)
(***************************************************************************)
LEMMA EndSessionKeeps ==
    ASSUME IInv, NEW w \in Workers, EndSession(w),
           raw' = raw, RowsStay, Len(runs') = Len(runs)
    PROVE  SessionTypeOK' /\ OpenRuns' /\ InHand' /\ ArchivedFirst'
<1> USE DEF IInv
<1>0. SessionTypeOK'
  BY EndSessionType
<1>1. \A v \in Workers \ {w} :
        /\ pc'[v] = pc[v] /\ cur'[v] = cur[v] /\ feed'[v] = feed[v]
        /\ pos'[v] = pos[v] /\ view'[v] = view[v] /\ staged'[v] = staged[v]
  BY DEF EndSession, TypeOK, SessionTypeOK
<1>2. /\ pc'[w] = "idle" /\ cur'[w] = 0 /\ view'[w] = Nothing
      /\ staged'[w] = Nothing
  BY DEF EndSession, TypeOK, SessionTypeOK
<1>3. OpenRuns'
  BY <1>1, <1>2 DEF OpenRuns, OpenRun, Open
<1>4. InHand'
  <2>1. \A v \in Workers \ {w} : \A i \in DOMAIN view[v] :
          view[v][i] # Null => Mine(v, i)'.row # Null
    <3> SUFFICES ASSUME NEW v \in Workers \ {w}, NEW i \in DOMAIN view[v],
                        view[v][i] # Null
                 PROVE  Mine(v, i)'.row # Null
      OBVIOUS
    <3>1. i \in Ids
      BY DEF TypeOK, SessionTypeOK, Partial
    <3>2. Mine(v, i).row # Null
      BY DEF InHand, Hand
    <3> QED BY <1>1, <3>1, <3>2 DEF Mine, RowsStay
  <2> QED BY <1>1, <1>2, <2>1 DEF InHand, Hand, Nothing
<1>5. ArchivedFirst'
  BY <1>1, <1>2 DEF ArchivedFirst, First, Archived, Nothing
<1> QED BY <1>0, <1>3, <1>4, <1>5

-------------------------------------------------------------------------------
(***************************************************************************)
(* A step of a session that neither ends it nor touches the committed      *)
(* rows leaves the other sessions' part of the invariant alone.            *)
(***************************************************************************)
OwnStep(w) ==
    /\ listings' = listings
    /\ \A v \in Workers \ {w} :
         /\ pc'[v] = pc[v] /\ cur'[v] = cur[v] /\ feed'[v] = feed[v]
         /\ pos'[v] = pos[v] /\ view'[v] = view[v] /\ staged'[v] = staged[v]

LEMMA OwnStepKeeps ==
    ASSUME IInv, NEW w \in Workers, OwnStep(w),
           Len(runs') >= Len(runs), Len(runs') \in Nat, raw \subseteq raw',
           OpenRun(w)', Hand(w)', First(w)'
    PROVE  OpenRuns' /\ InHand' /\ ArchivedFirst'
<1>0. runs \in Seq(Run)
  BY DEF IInv, TypeOK, DatabaseTypeOK
<1> SUFFICES ASSUME NEW v \in Workers \ {w}
             PROVE  OpenRun(v)' /\ Hand(v)' /\ First(v)'
  BY DEF OpenRuns, InHand, ArchivedFirst
<1>1. OpenRun(v)'
  BY <1>0 DEF IInv, OpenRuns, OpenRun, OwnStep
<1>2. Hand(v)'
  BY DEF IInv, InHand, Hand, OwnStep, Mine
<1>3. First(v)'
  BY DEF IInv, ArchivedFirst, First, Archived, OwnStep, Backed
<1> QED BY <1>1, <1>2, <1>3

LEMMA StartKeeps ==
    ASSUME IInv, NEW w \in Workers, Start(w)
    PROVE  IInv'
<1>1. /\ runs' \in Seq(Run) /\ Len(runs') = Len(runs) + 1 /\ Len(runs) \in Nat
  <2>1. [status |-> "running", items |-> Null, started |-> now,
         finished |-> Null] \in Run
    BY DEF Run, Statuses, IInv, TypeOK
  <2> QED BY <2>1 DEF Start, IInv, TypeOK, DatabaseTypeOK
<1>2. DatabaseTypeOK'
  BY <1>1 DEF Start, IInv, TypeOK, DatabaseTypeOK, rows
<1>3. SessionTypeOK'
  <2>1. SessionTypeOK
    BY DEF IInv, TypeOK
  <2> QED BY <2>1, <1>1 DEF Start, SessionTypeOK, Partial, Places
<1>4. TypeOK'
  BY <1>2, <1>3 DEF Start, IInv, TypeOK
<1>5. OwnStep(w)
  BY DEF Start, OwnStep, IInv, TypeOK, SessionTypeOK, rows
<1>6. OpenRun(w)' /\ Hand(w)' /\ First(w)'
  BY <1>1 DEF Start, IInv, TypeOK, SessionTypeOK, rows, OpenRun, Open,
              InHand, Hand, Mine, ArchivedFirst, First
<1>7. RawFirst'
  BY DEF Start, rows, RawFirst, IInv
<1> QED BY <1>1, <1>4, <1>5, <1>6, <1>7, OwnStepKeeps DEF IInv, Start

LEMMA FetchKeeps ==
    ASSUME IInv, NEW w \in Workers, Fetch(w)
    PROVE  IInv'
<1>1. PICK f \in Feeds : feed' = [feed EXCEPT ![w] = f]
  BY DEF Fetch
<1>2. f \in Seq(Item)
  BY IngestAssumption
<1>3. SessionTypeOK /\ TypeOK
  BY DEF IInv, TypeOK
<1>4. SessionTypeOK'
  BY <1>1, <1>2, <1>3 DEF Fetch, SessionTypeOK, Partial, Places
<1>5. TypeOK'
  BY <1>3, <1>4 DEF Fetch, database, TypeOK, DatabaseTypeOK
<1>6. OwnStep(w)
  BY <1>1, <1>3 DEF Fetch, database, OwnStep, SessionTypeOK
<1>7. OpenRun(w)' /\ Hand(w)' /\ First(w)'
  BY <1>1, <1>3 DEF Fetch, database, IInv, SessionTypeOK, OpenRuns, OpenRun, Open,
                    InHand, Hand, Mine, ArchivedFirst, First
<1>8. RawFirst' /\ runs' = runs /\ raw' = raw
  BY DEF Fetch, database, RawFirst, IInv
<1>9. Len(runs) \in Nat
  BY <1>3 DEF TypeOK, DatabaseTypeOK
<1> QED BY <1>9, <1>5, <1>6, <1>7, <1>8, OwnStepKeeps DEF IInv

LEMMA ArchiveKeeps ==
    ASSUME IInv, NEW w \in Workers, Archive(w)
    PROVE  IInv'
<1>1. SessionTypeOK /\ TypeOK /\ Len(runs) \in Nat
  BY DEF IInv, TypeOK, DatabaseTypeOK
<1>2. Archived(w) \subseteq Nat \X Item
  BY <1>1 DEF Archived, SessionTypeOK
<1>3. DatabaseTypeOK'
  BY <1>1, <1>2 DEF Archive, TypeOK, DatabaseTypeOK, rows
<1>4. SessionTypeOK'
  BY <1>1 DEF Archive, SessionTypeOK, Partial, Places
<1>5. TypeOK'
  BY <1>1, <1>3, <1>4 DEF Archive, TypeOK
<1>6. OwnStep(w)
  BY <1>1 DEF Archive, rows, OwnStep, SessionTypeOK
<1>7. raw \subseteq raw' /\ Archived(w)' \subseteq raw'
  BY DEF Archive, Archived
<1>8. OpenRun(w)' /\ Hand(w)'
  BY <1>1 DEF Archive, rows, IInv, SessionTypeOK, OpenRuns, OpenRun, Open,
              InHand, Hand, Mine
<1>9. First(w)'
  <2>1. staged' = staged /\ DOMAIN staged = Workers
    BY <1>1 DEF Archive, rows, SessionTypeOK
  <2>2. First(w)
    BY DEF IInv, ArchivedFirst
  <2>3. \A i \in DOMAIN staged[w] : \A k \in 1..Len(staged[w][i].versions) :
           Backed(raw', i, (staged[w][i].versions)[k])
    BY <1>7, <2>2 DEF First, Backed
  <2> QED BY <1>7, <2>1, <2>3 DEF First
<1>10. RawFirst'
  BY <1>7 DEF Archive, rows, RawFirst, IInv
<1>11. runs' = runs
  BY DEF Archive
<1> QED BY <1>1, <1>5, <1>6, <1>7, <1>8, <1>9, <1>10, <1>11, OwnStepKeeps DEF IInv

LEMMA PassOverKeeps ==
    ASSUME IInv, NEW w \in Workers, PassOver(w)
    PROVE  IInv'
<1>1. SessionTypeOK /\ TypeOK /\ Len(runs) \in Nat
  BY DEF IInv, TypeOK, DatabaseTypeOK
<1>2. pc[w] = "items"
  BY DEF PassOver, AtItem
<1>3. SessionTypeOK'
  BY <1>1 DEF PassOver, SessionTypeOK, Partial
<1>4. TypeOK'
  BY <1>1, <1>3 DEF PassOver, database, TypeOK, DatabaseTypeOK
<1>5. OwnStep(w)
  BY <1>1 DEF PassOver, database, OwnStep, SessionTypeOK
<1>6. OpenRun(w)' /\ Hand(w)' /\ First(w)'
  BY <1>1, <1>2 DEF PassOver, database, IInv, OpenRuns, OpenRun,
                    InHand, Hand, Mine, ArchivedFirst, First, Archived
<1>7. RawFirst' /\ runs' = runs /\ raw' = raw
  BY DEF PassOver, database, RawFirst, IInv
<1> QED BY <1>1, <1>4, <1>5, <1>6, <1>7, OwnStepKeeps DEF IInv

LEMMA ReadItemKeeps ==
    ASSUME IInv, NEW w \in Workers, ReadItem(w)
    PROVE  IInv'
<1> DEFINE item == feed[w][pos[w]]
<1>1. SessionTypeOK /\ TypeOK /\ Len(runs) \in Nat
  BY DEF IInv, TypeOK, DatabaseTypeOK
<1>2. pc[w] = "items" /\ pos[w] \in 1..Len(feed[w])
  BY <1>1 DEF ReadItem, AtItem, SessionTypeOK
<1>3. item \in Item /\ item.kind = "listing"
  BY <1>1, <1>2 DEF ReadItem, SessionTypeOK
<1>4. item.id \in Ids
  BY <1>3 DEF Item, ListingItem
<1>5. /\ view' = [view EXCEPT ![w] = [i \in {item.id} |-> Mine(w, i).row]]
      /\ asof' = [asof EXCEPT ![w] = now]
      /\ pc' = [pc EXCEPT ![w] = "write"]
      /\ UNCHANGED <<now, database, cur, feed, pos, failed, staged, faults>>
  BY DEF ReadItem
<1>6. Partial([i \in {item.id} |-> Mine(w, i).row], Ids, Row \cup {Null})
  BY <1>1, <1>4, MineType DEF Partial
<1>7. SessionTypeOK'
  BY <1>1, <1>5, <1>6 DEF SessionTypeOK, TypeOK, Partial, Places
<1>8. TypeOK'
  BY <1>1, <1>5, <1>7 DEF database, TypeOK, DatabaseTypeOK
<1>9. OwnStep(w)
  BY <1>1, <1>5 DEF database, OwnStep, SessionTypeOK
<1>10. view'[w] = [i \in {item.id} |-> Mine(w, i).row] /\ pc'[w] = "write"
  BY <1>1, <1>5 DEF SessionTypeOK
<1>11. Hand(w)'
  BY <1>2, <1>3, <1>5, <1>10 DEF Hand, Mine, database
<1>12. OpenRun(w)' /\ First(w)'
  BY <1>1, <1>2, <1>5, <1>10 DEF database, IInv, OpenRuns, OpenRun, Open,
                                 ArchivedFirst, First, Archived
<1>13. RawFirst' /\ runs' = runs /\ raw' = raw
  BY <1>5 DEF database, RawFirst, IInv
<1> QED BY <1>1, <1>8, <1>9, <1>11, <1>12, <1>13, OwnStepKeeps DEF IInv

LEMMA WriteItemKeeps ==
    ASSUME IInv, NEW w \in Workers, WriteItem(w)
    PROVE  IInv'
<1> DEFINE item   == feed[w][pos[w]]
           old    == view[w][item.id]
           effect == Observe(old, item, cur[w], asof[w])
<1>1. SessionTypeOK /\ TypeOK /\ Len(runs) \in Nat
  BY DEF IInv, TypeOK, DatabaseTypeOK
<1>2. pc[w] = "write" /\ pos[w] \in 1..Len(feed[w]) /\ DOMAIN view[w] = {item.id}
  BY DEF WriteItem, IInv, InHand, Hand
<1>3. item \in ListingItem /\ item.id \in Ids
  <2>1. item \in Item /\ item.kind = "listing"
    BY <1>1, <1>2 DEF IInv, InHand, Hand, SessionTypeOK
  <2> QED BY <2>1 DEF Item, ListingItem
<1>4. old \in Row \cup {Null}
  BY <1>1, <1>2 DEF SessionTypeOK, Partial
<1>5. cur[w] \in Nat /\ asof[w] \in Nat
  BY <1>1 DEF SessionTypeOK
<1>6. old # Null => Mine(w, item.id).row # Null
  BY <1>2 DEF IInv, InHand, Hand
<1>7. Flush(w, item.id, old, effect)
  BY DEF WriteItem
<1> HIDE DEF item, old
<1>8. /\ effect \in Pending
      /\ \A k \in 1..Len(effect.versions) :
            effect.versions[k].run = cur[w] /\ effect.versions[k].snapshot = item
      /\ effect.versions \in Seq(Version)
  <2>1. /\ effect \in Pending
        /\ \A k \in 1..Len(effect.versions) :
              effect.versions[k].run = cur[w] /\ effect.versions[k].snapshot = item
    <3> DEFINE run == cur[w]
               t   == asof[w]
    <3>1. run \in Nat /\ t \in Nat
      BY <1>5
    <3>2. effect = Observe(old, item, run, t)
      OBVIOUS
    <3> HIDE DEF effect, run, t
    <3>3. /\ effect \in Pending
          /\ \A k \in 1..Len(effect.versions) :
                effect.versions[k].run = run /\ effect.versions[k].snapshot = item
      BY <1>3, <1>4, <3>1, <3>2, ObserveType
    <3> QED BY <3>3 DEF run
  <2> QED BY <2>1 DEF Pending
<1> HIDE DEF effect
<1>9. /\ DOMAIN staged' = Workers
      /\ \A v \in Workers : Partial(staged'[v], Ids, Pending)
      /\ \A v \in Workers \ {w} : staged'[v] = staged[v]
      /\ DOMAIN staged'[w] = DOMAIN staged[w] \cup {item.id}
      /\ \A j \in DOMAIN staged[w] \ {item.id} : staged'[w][j] = staged[w][j]
      /\ staged'[w][item.id].versions = Mine(w, item.id).versions \o effect.versions
  BY <1>1, <1>3, <1>4, <1>8, <1>6, <1>7, FlushType
<1>10. /\ pc' = [pc EXCEPT ![w] = "items"]
       /\ pos' = [pos EXCEPT ![w] = pos[w] + 1]
       /\ view' = [view EXCEPT ![w] = Nothing]
       /\ asof' = [asof EXCEPT ![w] = 0]
       /\ UNCHANGED <<now, database, cur, feed, failed, faults>>
  BY DEF WriteItem, NextItem
<1>11. SessionTypeOK'
  BY <1>1, <1>9, <1>10 DEF SessionTypeOK, Partial, Places, Nothing
<1>12. TypeOK'
  BY <1>1, <1>10, <1>11 DEF database, TypeOK, DatabaseTypeOK
<1>13. OwnStep(w)
  BY <1>1, <1>9, <1>10 DEF database, OwnStep, SessionTypeOK
<1>14. OpenRun(w)' /\ Hand(w)'
  BY <1>1, <1>2, <1>10 DEF database, IInv, SessionTypeOK, OpenRuns, OpenRun, Open,
                           Hand, Nothing
<1>15. First(w)'
  <2>1. Archived(w) \subseteq raw /\ Archived(w)' = Archived(w) /\ raw' = raw
    BY <1>2, <1>10 DEF IInv, ArchivedFirst, First, Archived, database
  <2>2. <<cur[w], item>> \in raw
    BY <1>2, <2>1 DEF Archived, item
  <2>3. \A k \in 1..Len(effect.versions) : Backed(raw, item.id, effect.versions[k])
    BY <1>8, <2>2 DEF Backed
  <2> DEFINE mine == Mine(w, item.id).versions
  <2>4. mine \in Seq(Version) /\ \A k \in 1..Len(mine) : Backed(raw, item.id, mine[k])
    BY <1>1, <1>3, MineType DEF IInv, ArchivedFirst, First, Mine
  <2> HIDE DEF mine
  <2>5. ASSUME NEW k \in 1..Len(mine \o effect.versions)
        PROVE  Backed(raw, item.id, (mine \o effect.versions)[k])
    <3>1. CASE k <= Len(mine)
      BY <3>1, <1>8, <2>4, ConcatProperties
    <3>2. CASE ~(k <= Len(mine))
      <4>1. /\ k - Len(mine) \in 1..Len(effect.versions)
            /\ (mine \o effect.versions)[k] = effect.versions[k - Len(mine)]
        BY <3>2, <1>8, <2>4, ConcatProperties
      <4> QED BY <4>1, <2>3
    <3> QED BY <3>1, <3>2
  <2>6. staged'[w][item.id].versions = mine \o effect.versions
    BY <1>9 DEF mine
  <2>7. \A j \in DOMAIN staged[w] \ {item.id} :
          \A k \in 1..Len(staged'[w][j].versions) :
             Backed(raw, j, staged'[w][j].versions[k])
    BY <1>9 DEF IInv, ArchivedFirst, First
  <2> QED BY <1>9, <2>1, <2>5, <2>6, <2>7 DEF First
<1>16. RawFirst' /\ runs' = runs /\ raw' = raw
  BY <1>10 DEF database, RawFirst, IInv
<1> QED BY <1>1, <1>12, <1>13, <1>14, <1>15, <1>16, OwnStepKeeps DEF IInv

LEMMA LoseItemKeeps ==
    ASSUME IInv, NEW w \in Workers, pc[w] = "write", LoseItem(w)
    PROVE  IInv'
<1>1. SessionTypeOK /\ TypeOK /\ Len(runs) \in Nat
  BY DEF IInv, TypeOK, DatabaseTypeOK
<1>2. SessionTypeOK'
  BY <1>1 DEF LoseItem, NextItem, SessionTypeOK, Partial, Places, Nothing
<1>3. TypeOK'
  BY <1>1, <1>2 DEF LoseItem, database, TypeOK, DatabaseTypeOK
<1>4. OwnStep(w)
  BY <1>1 DEF LoseItem, NextItem, database, OwnStep, SessionTypeOK
<1>5. OpenRun(w)' /\ Hand(w)'
  BY <1>1 DEF LoseItem, NextItem, database, IInv, SessionTypeOK,
              OpenRuns, OpenRun, Open, Hand, Nothing
<1>6. First(w)'
  BY <1>1 DEF LoseItem, NextItem, database, IInv, SessionTypeOK,
              ArchivedFirst, First, Archived
<1>7. RawFirst' /\ runs' = runs /\ raw' = raw
  BY DEF LoseItem, database, RawFirst, IInv
<1> QED BY <1>1, <1>3, <1>4, <1>5, <1>6, <1>7, OwnStepKeeps DEF IInv

LEMMA CommitItemsKeeps ==
    ASSUME IInv, NEW w \in Workers, CommitItems(w)
    PROVE  IInv'
<1>1. SessionTypeOK /\ TypeOK /\ Len(runs) \in Nat
  BY DEF IInv, TypeOK, DatabaseTypeOK
<1>2. /\ Publish(w) /\ pc[w] = "items"
      /\ staged' = [staged EXCEPT ![w] = Nothing]
      /\ pc' = [pc EXCEPT ![w] = "close"]
      /\ UNCHANGED <<now, runs, raw, cur, feed, pos, failed, view, asof, faults>>
  BY DEF CommitItems
<1>3. SessionTypeOK'
  BY <1>1, <1>2 DEF SessionTypeOK, Partial, Places, Nothing
<1>4. TypeOK'
  BY <1>1, <1>2, <1>3, PublishType DEF TypeOK, DatabaseTypeOK
<1>5. RowsStay /\ RawFirst'
  BY <1>1, <1>2, PublishKeepsRows, PublishBacked DEF IInv
<1>6. \A v \in Workers \ {w} : staged'[v] = staged[v] /\ pc'[v] = pc[v]
  BY <1>1, <1>2 DEF SessionTypeOK
<1>7. staged'[w] = Nothing /\ pc'[w] = "close"
  BY <1>1, <1>2 DEF SessionTypeOK
<1>8. ASSUME NEW v \in Workers
      PROVE  OpenRun(v)' /\ Hand(v)' /\ First(v)'
  <2>1. OpenRun(v) /\ Hand(v) /\ First(v)
    BY DEF IInv, OpenRuns, InHand, ArchivedFirst
  <2>2. OpenRun(v)'
    BY <1>2, <1>6, <1>7, <2>1 DEF OpenRun, Open
  <2>3. ASSUME NEW i \in DOMAIN view[v], view[v][i] # Null
        PROVE  Mine(v, i)'.row # Null
    <3>1. i \in Ids
      BY <1>1 DEF SessionTypeOK, Partial
    <3>2. Mine(v, i).row # Null
      BY <2>1, <2>3 DEF Hand
    <3>3. CASE v = w
      <4>1. listings'[i] = Mine(w, i).row
        BY <1>2, <3>1 DEF Publish
      <4>2. Mine(v, i)'.row = listings'[i]
        BY <1>7, <3>3 DEF Mine, Nothing
      <4> QED BY <3>2, <3>3, <4>1, <4>2
    <3>4. CASE v # w
      BY <1>5, <1>6, <3>1, <3>2, <3>4 DEF Mine, RowsStay
    <3> QED BY <3>3, <3>4
  <2>4. Hand(v)'
    BY <1>2, <1>6, <1>7, <2>1, <2>3 DEF Hand
  <2>5. First(v)'
    BY <1>2, <1>6, <1>7, <2>1 DEF First, Archived, Nothing
  <2> QED BY <2>2, <2>4, <2>5
<1>9. OpenRuns' /\ InHand' /\ ArchivedFirst'
  BY <1>8 DEF OpenRuns, InHand, ArchivedFirst
<1> QED BY <1>4, <1>5, <1>9 DEF IInv

LEMMA SweepSelectKeeps ==
    ASSUME IInv, NEW w \in Workers, SweepSelect(w)
    PROVE  IInv'
<1> DEFINE S == Stale(now - StaleDays)
<1>1. SessionTypeOK /\ TypeOK /\ Len(runs) \in Nat /\ listings \in [Ids -> Row \cup {Null}]
  BY DEF IInv, TypeOK, DatabaseTypeOK
<1>2. S \subseteq Ids /\ \A i \in S : listings[i] # Null
  BY DEF Stale
<1>3. /\ pc[w] = "idle"
      /\ pc' = [pc EXCEPT ![w] = "sweep"]
      /\ view' = [view EXCEPT ![w] = [i \in S |-> listings[i]]]
      /\ asof' = [asof EXCEPT ![w] = now]
      /\ UNCHANGED <<now, database, cur, feed, pos, failed, staged, faults>>
  BY DEF SweepSelect
<1> HIDE DEF S
<1>4. Partial([i \in S |-> listings[i]], Ids, Row \cup {Null})
  BY <1>1, <1>2 DEF Partial
<1>5. SessionTypeOK'
  BY <1>1, <1>3, <1>4 DEF SessionTypeOK, TypeOK, Partial, Places
<1>6. TypeOK'
  BY <1>1, <1>3, <1>5 DEF database, TypeOK, DatabaseTypeOK
<1>7. OwnStep(w)
  BY <1>1, <1>3 DEF database, OwnStep, SessionTypeOK
<1>8. view'[w] = [i \in S |-> listings[i]] /\ pc'[w] = "sweep"
  BY <1>1, <1>3 DEF SessionTypeOK
<1>9. \A i \in S : Mine(w, i)'.row # Null
  <2> SUFFICES ASSUME NEW i \in S
               PROVE  Mine(w, i).row # Null
    BY <1>3 DEF Mine, database
  <2>1. CASE i \in DOMAIN staged[w]
    BY <1>1, <1>2, <2>1, MineType, NullAssumption
  <2>2. CASE i \notin DOMAIN staged[w]
    BY <1>2, <2>2 DEF Mine
  <2> QED BY <2>1, <2>2
<1>10. Hand(w)'
  BY <1>2, <1>8, <1>9 DEF Hand
<1>11. OpenRun(w)' /\ First(w)'
  BY <1>3, <1>8 DEF database, IInv, OpenRuns, OpenRun, Open, ArchivedFirst, First
<1>12. RawFirst' /\ runs' = runs /\ raw' = raw
  BY <1>3 DEF database, RawFirst, IInv
<1> QED BY <1>1, <1>6, <1>7, <1>10, <1>11, <1>12, OwnStepKeeps DEF IInv

LEMMA SweepWriteKeeps ==
    ASSUME IInv, NEW w \in Workers, NEW i \in Ids, SweepWrite(w, i)
    PROVE  IInv'
<1> DEFINE old    == view[w][i]
           effect == Removal(old, asof[w], asof[w] - StaleDays)
           rest   == [j \in DOMAIN view[w] \ {i} |-> view[w][j]]
<1>1. SessionTypeOK /\ TypeOK /\ Len(runs) \in Nat
  BY DEF IInv, TypeOK, DatabaseTypeOK
<1>2. /\ pc[w] = "sweep" /\ i \in DOMAIN view[w]
      /\ Flush(w, i, old, effect)
      /\ view' = [view EXCEPT ![w] = rest]
      /\ UNCHANGED <<now, database, pc, cur, feed, pos, failed, asof, faults>>
  BY DEF SweepWrite
<1>3. old \in Row /\ Mine(w, i).row # Null
  <2>1. old # Null /\ Mine(w, i).row # Null
    BY <1>2 DEF IInv, InHand, Hand
  <2> QED BY <1>1, <1>2, <2>1 DEF SessionTypeOK, Partial
<1>4. asof[w] \in Nat /\ asof[w] - StaleDays \in Int
  BY <1>1, IngestAssumption DEF SessionTypeOK
<1>5. effect \in Pending /\ \A k \in 1..Len(effect.versions) : effect.versions[k].kind = "removed"
  BY <1>3, <1>4, RemovalType
<1> HIDE DEF effect, old
<1>6. effect.versions \in Seq(Version)
  BY <1>5 DEF Pending
<1>7. /\ DOMAIN staged' = Workers
      /\ \A v \in Workers : Partial(staged'[v], Ids, Pending)
      /\ \A v \in Workers \ {w} : staged'[v] = staged[v]
      /\ DOMAIN staged'[w] = DOMAIN staged[w] \cup {i}
      /\ \A j \in DOMAIN staged[w] \ {i} : staged'[w][j] = staged[w][j]
      /\ staged'[w][i].versions = Mine(w, i).versions \o effect.versions
  BY <1>1, <1>2, <1>3, <1>5, FlushType
<1>8. Partial(rest, Ids, Row \cup {Null})
  BY <1>1 DEF SessionTypeOK, Partial
<1>9. SessionTypeOK'
  BY <1>1, <1>2, <1>7, <1>8 DEF SessionTypeOK, Partial
<1>10. TypeOK'
  BY <1>1, <1>2, <1>9 DEF database, TypeOK, DatabaseTypeOK
<1>11. OwnStep(w)
  BY <1>1, <1>2, <1>7 DEF database, OwnStep, SessionTypeOK
<1>12. view'[w] = rest
  BY <1>1, <1>2 DEF SessionTypeOK
<1>13. \A j \in DOMAIN rest : rest[j] # Null /\ Mine(w, j)'.row # Null
  <2> SUFFICES ASSUME NEW j \in DOMAIN view[w], j # i
               PROVE  view[w][j] # Null /\ Mine(w, j)'.row # Null
    OBVIOUS
  <2>1. view[w][j] # Null /\ Mine(w, j).row # Null
    BY <1>2 DEF IInv, InHand, Hand
  <2>2. Mine(w, j)'.row = Mine(w, j).row
    BY <1>2, <1>7 DEF Mine, database
  <2> QED BY <2>1, <2>2
<1>14. Hand(w)'
  BY <1>2, <1>12, <1>13 DEF Hand
<1>15. OpenRun(w)'
  BY <1>2 DEF database, IInv, OpenRuns, OpenRun
<1>16. First(w)'
  <2>1. \A k \in 1..Len(effect.versions) : Backed(raw, i, effect.versions[k])
    BY <1>5 DEF Backed
  <2> DEFINE mine == Mine(w, i).versions
  <2>2. mine \in Seq(Version) /\ \A k \in 1..Len(mine) : Backed(raw, i, mine[k])
    BY <1>1, MineType DEF IInv, ArchivedFirst, First, Mine
  <2>3. staged'[w][i].versions = mine \o effect.versions
    BY <1>7
  <2> HIDE DEF mine
  <2>4. ASSUME NEW k \in 1..Len(mine \o effect.versions)
        PROVE  Backed(raw, i, (mine \o effect.versions)[k])
    <3>1. CASE k <= Len(mine)
      BY <3>1, <1>6, <2>2, ConcatProperties
    <3>2. CASE ~(k <= Len(mine))
      <4>1. /\ k - Len(mine) \in 1..Len(effect.versions)
            /\ (mine \o effect.versions)[k] = effect.versions[k - Len(mine)]
        BY <3>2, <1>6, <2>2, ConcatProperties
      <4> QED BY <4>1, <2>1
    <3> QED BY <3>1, <3>2
  <2>5. \A j \in DOMAIN staged[w] \ {i} :
          \A k \in 1..Len(staged'[w][j].versions) :
             Backed(raw, j, staged'[w][j].versions[k])
    BY <1>7 DEF IInv, ArchivedFirst, First
  <2>6. raw' = raw /\ pc'[w] = "sweep"
    BY <1>2 DEF database
  <2> QED BY <1>7, <2>3, <2>4, <2>5, <2>6 DEF First
<1>17. RawFirst' /\ runs' = runs /\ raw' = raw
  BY <1>2 DEF database, RawFirst, IInv
<1> QED BY <1>1, <1>10, <1>11, <1>14, <1>15, <1>16, <1>17, OwnStepKeeps DEF IInv

(***************************************************************************)
(* The steps that close a run and end its session.                         *)
(***************************************************************************)
LEMMA FinishKeeps ==
    ASSUME IInv, NEW w \in Workers, pc[w] \in Open,
           NEW status \in Statuses, NEW items \in Nat,
           FinishRun(w, status, items), EndSession(w),
           UNCHANGED <<now, raw, rows, faults>>
    PROVE  IInv'
<1>1. TypeOK /\ Len(runs) \in Nat
  BY DEF IInv, TypeOK, DatabaseTypeOK
<1>2. cur[w] \in 1..Len(runs)
  BY DEF IInv, OpenRuns, OpenRun
<1>3. runs' \in Seq(Run) /\ Len(runs') = Len(runs)
  BY <1>1, <1>2, FinishRunType
<1>4. RowsStay
  BY DEF RowsStay, rows
<1>5. SessionTypeOK' /\ OpenRuns' /\ InHand' /\ ArchivedFirst'
  BY <1>3, <1>4, EndSessionKeeps
<1>6. TypeOK'
  BY <1>1, <1>3, <1>5 DEF rows, TypeOK, DatabaseTypeOK
<1>7. RawFirst'
  BY DEF rows, RawFirst, IInv
<1> QED BY <1>5, <1>6, <1>7 DEF IInv

LEMMA CloseKeeps ==
    ASSUME IInv, NEW w \in Workers, Close(w)
    PROVE  IInv'
<1> DEFINE status == Classify(Len(feed[w]), failed[w], Skipped(feed[w]), TrailingSizes)
<1>1. feed[w] \in Seq(Item) /\ failed[w] \in Nat
  BY DEF IInv, TypeOK, SessionTypeOK
<1>2. Len(feed[w]) \in Nat /\ Skipped(feed[w]) \in Nat
  BY <1>1, SkippedType
<1>3. status \in Statuses
  BY <1>1, <1>2, ClassifyTerminal DEF Statuses
<1>4. pc[w] \in Open /\ FinishRun(w, status, Len(feed[w])) /\ EndSession(w)
      /\ UNCHANGED <<now, raw, rows, faults>>
  BY DEF Close, Open
<1> HIDE DEF status
<1> QED BY <1>2, <1>3, <1>4, FinishKeeps

LEMMA FetchFailsKeeps ==
    ASSUME IInv, NEW w \in Workers, FetchFails(w)
    PROVE  IInv'
BY FinishKeeps DEF FetchFails, Open, Statuses, Terminal

LEMMA AbortKeeps ==
    ASSUME IInv, NEW w \in Workers, Abort(w)
    PROVE  IInv'
<1>1. Len(feed[w]) \in Nat
  BY DEF IInv, TypeOK, SessionTypeOK
<1> QED BY <1>1, FinishKeeps DEF Abort, Open, Statuses, Terminal

(***************************************************************************)
(* The steps that end a session and leave the runs as they are.            *)
(***************************************************************************)
LEMMA LeaveKeeps ==
    ASSUME IInv, NEW w \in Workers, EndSession(w), UNCHANGED <<now, database>>,
           faults' \in Nat
    PROVE  IInv'
<1>1. RowsStay
  BY DEF RowsStay, database, rows
<1>2. SessionTypeOK' /\ OpenRuns' /\ InHand' /\ ArchivedFirst'
  BY <1>1, EndSessionKeeps DEF database
<1>3. TypeOK'
  BY <1>2 DEF database, IInv, TypeOK, DatabaseTypeOK
<1>4. RawFirst'
  BY DEF database, RawFirst, IInv
<1> QED BY <1>2, <1>3, <1>4 DEF IInv

LEMMA SweepCommitKeeps ==
    ASSUME IInv, NEW w \in Workers, SweepCommit(w)
    PROVE  IInv'
<1>1. Publish(w) /\ EndSession(w) /\ UNCHANGED <<now, runs, raw, faults>>
  BY DEF SweepCommit
<1>2. RowsStay /\ RawFirst'
  BY <1>1, PublishKeepsRows, PublishBacked DEF IInv
<1>3. SessionTypeOK' /\ OpenRuns' /\ InHand' /\ ArchivedFirst'
  BY <1>1, <1>2, EndSessionKeeps
<1>4. TypeOK'
  BY <1>1, <1>3, PublishType DEF IInv, TypeOK, DatabaseTypeOK
<1> QED BY <1>2, <1>3, <1>4 DEF IInv

LEMMA FaultKeeps ==
    ASSUME IInv, NEW w \in Workers, NEW kind, NEW places, Fault(w, kind, places)
    PROVE  IInv'
<1>1. faults' \in Nat
  BY DEF Fault, IInv, TypeOK
<1> QED BY <1>1, LeaveKeeps DEF Fault

LEMMA TickKeeps ==
    ASSUME IInv, Tick
    PROVE  IInv'
<1>1. TypeOK'
  BY DEF Tick, database, session, IInv, TypeOK, DatabaseTypeOK, SessionTypeOK, Partial
<1>2. OpenRuns' /\ InHand' /\ ArchivedFirst' /\ RawFirst'
  BY DEF Tick, database, session, IInv, OpenRuns, OpenRun, InHand, Hand, Mine,
         ArchivedFirst, First, Archived, RawFirst
<1> QED BY <1>1, <1>2 DEF IInv

LEMMA StutterKeeps ==
    ASSUME IInv, UNCHANGED vars
    PROVE  IInv'
<1>1. TypeOK'
  BY DEF vars, database, session, IInv, TypeOK, DatabaseTypeOK, SessionTypeOK, Partial
<1>2. OpenRuns' /\ InHand' /\ ArchivedFirst' /\ RawFirst'
  BY DEF vars, database, session, IInv, OpenRuns, OpenRun, InHand, Hand, Mine,
         ArchivedFirst, First, Archived, RawFirst
<1> QED BY <1>1, <1>2 DEF IInv

-------------------------------------------------------------------------------
(***************************************************************************)
(* Empty tables, no session at work.                                       *)
(***************************************************************************)
LEMMA InitIInv == Init => IInv
<1> SUFFICES ASSUME Init PROVE IInv
  OBVIOUS
<1>1. TypeOK
  BY DEF Init, TypeOK, DatabaseTypeOK, SessionTypeOK, Partial, Nothing, Places
<1>2. OpenRuns /\ InHand /\ ArchivedFirst /\ RawFirst
  BY DEF Init, OpenRuns, OpenRun, Open, InHand, Hand, Nothing, ArchivedFirst,
         First, RawFirst
<1> QED BY <1>1, <1>2 DEF IInv

(***************************************************************************)
(* Every step of Ingest keeps the invariant.                               *)
(***************************************************************************)
LEMMA NextIInv == IInv /\ [Next]_vars => IInv'
<1> SUFFICES ASSUME IInv, [Next]_vars PROVE IInv'
  OBVIOUS
<1>1. CASE Tick
  BY <1>1, TickKeeps
<1>2. CASE UNCHANGED vars
  BY <1>2, StutterKeeps
<1>3. ASSUME NEW w \in Workers, Advance(w)
      PROVE  IInv'
  <2>1. CASE Fetch(w)
    BY <2>1, FetchKeeps
  <2>2. CASE Archive(w)
    BY <2>2, ArchiveKeeps
  <2>3. CASE PassOver(w)
    BY <2>3, PassOverKeeps
  <2>4. CASE ReadItem(w)
    BY <2>4, ReadItemKeeps
  <2>5. CASE WriteItem(w)
    BY <2>5, WriteItemKeeps
  <2>6. CASE InsertCollides(w) \/ DeadlockVictim(w)
    BY <2>6, LoseItemKeeps DEF InsertCollides, DeadlockVictim
  <2>7. CASE CommitItems(w)
    BY <2>7, CommitItemsKeeps
  <2>8. CASE Close(w)
    BY <2>8, CloseKeeps
  <2>9. CASE \E i \in Ids : SweepWrite(w, i)
    BY <2>9, SweepWriteKeeps
  <2>10. CASE SweepCommit(w)
    BY <2>10, SweepCommitKeeps
  <2>11. CASE SweepVictim(w)
    BY <2>11, LeaveKeeps DEF SweepVictim, SweepFails, IInv, TypeOK
  <2> QED BY <1>3, <2>1, <2>2, <2>3, <2>4, <2>5, <2>6, <2>7, <2>8, <2>9, <2>10, <2>11
          DEF Advance
<1>4. ASSUME NEW w \in Workers,
             \/ Start(w) \/ FetchFails(w) \/ FailItem(w) \/ Abort(w)
             \/ SweepSelect(w) \/ SweepFails(w)
             \/ Crash(w) \/ EscapedError(w)
      PROVE  IInv'
  <2>1. CASE Start(w)
    BY <2>1, StartKeeps
  <2>2. CASE FetchFails(w)
    BY <2>2, FetchFailsKeeps
  <2>3. CASE FailItem(w)
    BY <2>3, LoseItemKeeps DEF FailItem
  <2>4. CASE Abort(w)
    BY <2>4, AbortKeeps
  <2>5. CASE SweepSelect(w)
    BY <2>5, SweepSelectKeeps
  <2>6. CASE SweepFails(w)
    BY <2>6, LeaveKeeps DEF SweepFails, IInv, TypeOK
  <2>7. CASE Crash(w) \/ EscapedError(w)
    BY <2>7, FaultKeeps DEF Crash, EscapedError
  <2> QED BY <1>4, <2>1, <2>2, <2>3, <2>4, <2>5, <2>6, <2>7
<1> QED BY <1>1, <1>2, <1>3, <1>4 DEF Next

(***************************************************************************)
(* The invariant holds at every moment.                                    *)
(***************************************************************************)
LEMMA Invariance == Spec => []IInv
BY InitIInv, NextIInv, PTL DEF Spec

(***************************************************************************)
(* Type correctness, for every set of sessions and feeds and every bound.  *)
(***************************************************************************)
THEOREM TypeCorrect == Spec => []TypeOK
<1>1. IInv => TypeOK
  BY DEF IInv
<1> QED BY <1>1, Invariance, PTL

(***************************************************************************)
(* Raw first: at every moment every version of every listing names a run   *)
(* whose archive holds the record it was made from, for any number of      *)
(* overlapping sessions, failed items, rollbacks and crashes.              *)
(***************************************************************************)
THEOREM RawIsFirst == Spec => []RawFirst
<1>1. IInv => RawFirst
  BY DEF IInv
<1> QED BY <1>1, Invariance, PTL

-------------------------------------------------------------------------------
(***************************************************************************)
(* The histories.  When any number of sessions overlap: a listing is new   *)
(* once, its latest price event is its price, and behind each of its       *)
(* removals is a run that looked at the market.  With one session at a     *)
(* time: the price events chain, and the versions replay to the row.       *)
(***************************************************************************)

(***************************************************************************)
(* With one session at a time, what one version does to the row that the   *)
(* versions before it replay to.  It is a relist exactly when the row was  *)
(* removed, that is, when the version before it is a removal.              *)
(***************************************************************************)
OneSession == \A u, w \in Workers : u = w

Turn(row, new, x) ==
    /\ x.kind = "new" <=> row = Null
    /\ x.kind = "relisted" <=> row # Null /\ row.status = "removed"
    /\ new.attrs = IF x.kind = "removed" THEN row.attrs ELSE x.snapshot.attrs
    /\ new.price = IF x.kind # "removed" /\ x.snapshot.price # Null
                   THEN x.snapshot.price
                   ELSE IF row = Null THEN Null ELSE row.price
    /\ new.status = IF x.kind \in {"new", "removed", "relisted"}
                    THEN StatusAfter(x.kind) ELSE row.status

Replays(row, h) ==
    /\ RowReplays(row, h)
    /\ row # Null => (row.status = "removed" <=> h[Len(h)].kind = "removed")

LEMMA TurnReplays ==
    ASSUME NEW row, NEW new, new # Null, NEW h, NEW g, NEW x, Len(h) \in Nat,
           Len(g) = Len(h) + 1, \A k \in 1..Len(h) : g[k] = h[k], g[Len(h) + 1] = x,
           Replays(row, h), Turn(row, new, x)
    PROVE  Replays(new, g)
<1> DEFINE n == Len(h) + 1
<1>1. row = Null <=> Len(h) = 0
  BY DEF Replays, RowReplays
<1>2. ASSUME NEW k \in 1..n
      PROVE  /\ g[k].kind = "new" <=> k = 1
             /\ k > 1 => (g[k].kind = "relisted" <=> g[k - 1].kind = "removed")
  <2>1. CASE k \in 1..Len(h)
    <3>1. k > 1 => k - 1 \in 1..Len(h)
      BY <2>1
    <3> QED BY <2>1, <3>1 DEF Replays, RowReplays
  <2>2. CASE k = n
    <3>1. k > 1 => Len(h) \in 1..Len(h) /\ g[k - 1] = h[Len(h)]
      BY <2>2
    <3> QED BY <1>1, <2>2, <3>1 DEF Turn, Replays
  <2> QED BY <2>1, <2>2
<1>3. new.status = "removed" <=> x.kind = "removed"
  BY <1>1 DEF Turn, StatusAfter
<1>4. /\ \A k \in 1..Len(h) :
            /\ k \in SeenAt(g) <=> k \in SeenAt(h)
            /\ k \in PricedAt(g) <=> k \in PricedAt(h)
            /\ k \in TurnsAt(g) <=> k \in TurnsAt(h)
      /\ \A k : (k \in SeenAt(g) \/ k \in PricedAt(g) \/ k \in TurnsAt(g)) => k \in 1..n
      /\ \A k : (k \in SeenAt(h) \/ k \in PricedAt(h) \/ k \in TurnsAt(h)) => k \in 1..Len(h)
  BY DEF SeenAt, PricedAt, TurnsAt
<1>5. /\ n \in SeenAt(g) <=> x.kind # "removed"
      /\ n \in PricedAt(g) <=> x.kind # "removed" /\ x.snapshot.price # Null
      /\ n \in TurnsAt(g) <=> x.kind \in {"new", "removed", "relisted"}
  BY DEF SeenAt, PricedAt, TurnsAt
<1>6. ASSUME NEW k \in 1..n, NEW S, NEW T, Last(k, S),
             \A j \in T : j \in S /\ j \in 1..Len(h),
             k \in 1..Len(h) => k \in T
      PROVE  \/ k = n
             \/ k \in 1..Len(h) /\ g[k] = h[k] /\ n \notin S /\ Last(k, T)
  BY <1>6 DEF Last
<1>7. ASSUME NEW k \in 1..n, Last(k, SeenAt(g)) PROVE new.attrs = g[k].snapshot.attrs
  <2>1. \/ k = n
        \/ k \in 1..Len(h) /\ g[k] = h[k] /\ n \notin SeenAt(g) /\ Last(k, SeenAt(h))
    BY <1>4, <1>6, <1>7 DEF Last
  <2>2. CASE k = n
    BY <1>5, <1>7, <2>2 DEF Turn, Last
  <2>3. CASE k # n
    BY <1>5, <2>1, <2>3 DEF Turn, Replays, RowReplays
  <2> QED BY <2>2, <2>3
<1>8. ASSUME NEW k \in 1..n, Last(k, PricedAt(g)) PROVE new.price = g[k].snapshot.price
  <2>1. \/ k = n
        \/ k \in 1..Len(h) /\ g[k] = h[k] /\ n \notin PricedAt(g) /\ Last(k, PricedAt(h))
    BY <1>4, <1>6, <1>8 DEF Last
  <2>2. CASE k = n
    BY <1>5, <1>8, <2>2 DEF Turn, Last
  <2>3. CASE k # n
    BY <1>1, <1>5, <2>1, <2>3 DEF Turn, Replays, RowReplays
  <2> QED BY <2>2, <2>3
<1>9. ASSUME NEW k \in 1..n, Last(k, TurnsAt(g)) PROVE new.status = StatusAfter(g[k].kind)
  <2>1. \/ k = n
        \/ k \in 1..Len(h) /\ g[k] = h[k] /\ n \notin TurnsAt(g) /\ Last(k, TurnsAt(h))
    BY <1>4, <1>6, <1>9 DEF Last
  <2>2. CASE k = n
    BY <1>5, <1>9, <2>2 DEF Turn, Last
  <2>3. CASE k # n
    BY <1>5, <2>1, <2>3 DEF Turn, Replays, RowReplays
  <2> QED BY <2>2, <2>3
<1>10. ASSUME PricedAt(g) = {} PROVE new.price = Null
  <2>1. PricedAt(h) = {} /\ n \notin PricedAt(g)
    BY <1>4, <1>10
  <2> QED BY <1>5, <2>1 DEF Turn, Replays, RowReplays
<1> HIDE DEF n
<1>11. RowReplays(new, g)
  BY <1>2, <1>7, <1>8, <1>9, <1>10 DEF RowReplays, n
<1> QED BY <1>3, <1>11 DEF Replays, n

(***************************************************************************)
(* What one flush may append, with one session at a time.                  *)
(***************************************************************************)
Continues(row, new, v) ==
    \/ /\ Len(v) = 0 /\ row # Null
       /\ new.attrs = row.attrs /\ new.price = row.price /\ new.status = row.status
    \/ Len(v) = 1 /\ Turn(row, new, v[1])
    \/ Len(v) = 2 /\ Turn(row, new, v[1]) /\ Turn(new, new, v[2])

LEMMA ReplaysExtended ==
    ASSUME NEW row, NEW new, new # Null, NEW h \in Seq(Version), NEW v \in Seq(Version),
           Replays(row, h), Continues(row, new, v)
    PROVE  Replays(new, h \o v)
<1> DEFINE g == h \o v
<1>1. /\ Len(h) \in Nat /\ Len(g) = Len(h) + Len(v)
      /\ \A k \in 1..Len(h) + Len(v) : g[k] = IF k <= Len(h) THEN h[k] ELSE v[k - Len(h)]
  BY ConcatProperties
<1> HIDE DEF g
<1>2. CASE Len(v) = 0
  <2>1. /\ row # Null /\ Len(g) = Len(h) /\ \A k \in 1..Len(h) : g[k] = h[k]
        /\ new.attrs = row.attrs /\ new.price = row.price /\ new.status = row.status
    BY <1>1, <1>2 DEF Continues
  <2>2. SeenAt(g) = SeenAt(h) /\ PricedAt(g) = PricedAt(h) /\ TurnsAt(g) = TurnsAt(h)
    BY <2>1 DEF SeenAt, PricedAt, TurnsAt
  <2>3. Len(h) \in 1..Len(h)
    BY <1>1, <2>1 DEF Replays, RowReplays
  <2>4. \A k \in 1..Len(h) : k > 1 => k - 1 \in 1..Len(h)
    BY <1>1
  <2> QED BY <2>1, <2>2, <2>3, <2>4 DEF Replays, RowReplays, g
<1>3. CASE Len(v) = 1
  <2>1. Len(g) = Len(h) + 1 /\ (\A k \in 1..Len(h) : g[k] = h[k]) /\ g[Len(h) + 1] = v[1]
    BY <1>1, <1>3
  <2>2. Turn(row, new, v[1])
    BY <1>3 DEF Continues
  <2> QED BY <1>1, <2>1, <2>2, TurnReplays DEF g
<1>4. CASE Len(v) = 2
  <2> DEFINE f == Append(h, v[1])
  <2>1. Len(f) = Len(h) + 1 /\ (\A k \in 1..Len(h) : f[k] = h[k]) /\ f[Len(h) + 1] = v[1]
    OBVIOUS
  <2>2. /\ Len(g) = Len(f) + 1 /\ (\A k \in 1..Len(f) : g[k] = f[k])
        /\ g[Len(f) + 1] = v[2]
    BY <1>1, <1>4, <2>1
  <2>3. Turn(row, new, v[1]) /\ Turn(new, new, v[2])
    BY <1>4 DEF Continues
  <2> HIDE DEF f
  <2>4. Replays(new, f)
    BY <1>1, <2>1, <2>3, TurnReplays
  <2>5. Len(f) \in Nat
    BY <1>1, <2>1
  <2> QED BY <2>2, <2>3, <2>4, <2>5, TurnReplays DEF g
<1> QED BY <1>2, <1>3, <1>4 DEF Continues

-------------------------------------------------------------------------------
(***************************************************************************)
(* The price events of a listing chain, and what one flush may append.     *)
(***************************************************************************)
Chained(e) ==
    \A k \in 1..Len(e) : /\ e[k].old # e[k].new
                         /\ e[k].old = IF k = 1 THEN Null ELSE e[k - 1].new

Moves(row, p) ==
    \/ Len(p) = 0
    \/ /\ Len(p) = 1 /\ p[1].old # p[1].new
       /\ p[1].old = IF row = Null THEN Null ELSE row.price

(***************************************************************************)
(* A row with its versions and its price events is whole: the properties   *)
(* of one listing, and what relates them.                                  *)
(***************************************************************************)
Whole(row, h, e) ==
    /\ row = Null <=> Len(h) = 0
    /\ \A k \in 1..Len(h) : h[k].kind = "new" <=> k = 1
    /\ Len(e) = 0 => row = Null \/ row.price = Null
    /\ Len(e) # 0 => row # Null /\ row.price = e[Len(e)].new
    /\ OneSession => Replays(row, h) /\ Chained(e)

(***************************************************************************)
(* What one flush may append to them.                                      *)
(***************************************************************************)
Extends(row, new, v, p) ==
    /\ IF row = Null THEN Len(v) = 1 /\ v[1].kind = "new"
                     ELSE \A k \in 1..Len(v) : v[k].kind # "new"
    /\ \/ Len(p) = 1 /\ p[1].new = new.price
       \/ Len(p) = 0 /\ new.price = IF row = Null THEN Null ELSE row.price
    /\ OneSession => Continues(row, new, v) /\ Moves(row, p)

LEMMA ChainExtended ==
    ASSUME NEW row, NEW e \in Seq(PriceEvent), NEW p \in Seq(PriceEvent),
           Chained(e), Moves(row, p),
           Len(e) = 0 => row = Null \/ row.price = Null,
           Len(e) # 0 => row # Null /\ row.price = e[Len(e)].new
    PROVE  Chained(e \o p)
<1>1. /\ Len(e) \in Nat /\ Len(p) \in Nat /\ Len(e \o p) = Len(e) + Len(p)
      /\ \A k \in 1..Len(e) + Len(p) :
           (e \o p)[k] = IF k <= Len(e) THEN e[k] ELSE p[k - Len(e)]
  BY ConcatProperties
<1> SUFFICES ASSUME NEW k \in 1..Len(e) + Len(p)
             PROVE  /\ (e \o p)[k].old # (e \o p)[k].new
                    /\ (e \o p)[k].old = IF k = 1 THEN Null ELSE (e \o p)[k - 1].new
  BY <1>1 DEF Chained
<1>2. CASE k <= Len(e)
  <2>1. k > 1 => (e \o p)[k - 1] = e[k - 1]
    BY <1>1, <1>2
  <2> QED BY <1>1, <1>2, <2>1 DEF Chained
<1>3. CASE ~(k <= Len(e))
  <2>1. Len(p) = 1 /\ k = Len(e) + 1 /\ (e \o p)[k] = p[1]
    BY <1>1, <1>3 DEF Moves
  <2>2. /\ (e \o p)[k].old # (e \o p)[k].new
        /\ (e \o p)[k].old = IF row = Null THEN Null ELSE row.price
    BY <2>1 DEF Moves
  <2>3. k # 1 => Len(e) # 0 /\ (e \o p)[k - 1] = e[Len(e)]
    BY <1>1, <2>1
  <2> QED BY <2>1, <2>2, <2>3
<1> QED BY <1>2, <1>3

LEMMA WholeExtended ==
    ASSUME NEW row \in Row \cup {Null}, NEW new \in Row,
           NEW h \in Seq(Version), NEW v \in Seq(Version),
           NEW e \in Seq(PriceEvent), NEW p \in Seq(PriceEvent),
           Whole(row, h, e), Extends(row, new, v, p)
    PROVE  Whole(new, h \o v, e \o p)
<1>1. new # Null
  BY NullAssumption
<1>0. OneSession => Replays(new, h \o v) /\ Chained(e \o p)
  <2> SUFFICES ASSUME OneSession PROVE Replays(new, h \o v) /\ Chained(e \o p)
    OBVIOUS
  <2>1. Replays(new, h \o v)
    BY <1>1, ReplaysExtended DEF Whole, Extends
  <2>2. Chained(e \o p)
    BY ChainExtended DEF Whole, Extends
  <2> QED BY <2>1, <2>2
<1>2. /\ Len(h) \in Nat /\ Len(v) \in Nat
      /\ Len(h \o v) = Len(h) + Len(v)
      /\ \A k \in 1..Len(h) + Len(v) :
           (h \o v)[k] = IF k <= Len(h) THEN h[k] ELSE v[k - Len(h)]
  BY ConcatProperties
<1>3. /\ Len(e) \in Nat /\ Len(p) \in Nat
      /\ Len(e \o p) = Len(e) + Len(p)
      /\ \A k \in 1..Len(e) + Len(p) :
           (e \o p)[k] = IF k <= Len(e) THEN e[k] ELSE p[k - Len(e)]
  BY ConcatProperties
<1>4. Len(h \o v) # 0
  BY <1>2 DEF Whole, Extends
<1>5. ASSUME NEW k \in 1..Len(h \o v) PROVE (h \o v)[k].kind = "new" <=> k = 1
  <2>1. CASE k <= Len(h)
    BY <2>1, <1>2 DEF Whole
  <2>2. CASE ~(k <= Len(h)) /\ row = Null
    <3>1. Len(h) = 0 /\ Len(v) = 1 /\ v[1].kind = "new"
      BY <2>2 DEF Whole, Extends
    <3>2. k = 1
      BY <3>1, <1>2
    <3>3. (h \o v)[k] = v[k - Len(h)]
      BY <2>2, <1>2
    <3>4. k - Len(h) = 1
      BY <3>1, <3>2
    <3> QED BY <3>1, <3>2, <3>3, <3>4
  <2>3. CASE ~(k <= Len(h)) /\ row # Null
    <3>1. Len(h) # 0 /\ k - Len(h) \in 1..Len(v)
      BY <2>3, <1>2 DEF Whole
    <3>2. v[k - Len(h)].kind # "new"
      BY <2>3, <3>1 DEF Extends
    <3>3. (h \o v)[k] = v[k - Len(h)]
      BY <2>3, <1>2
    <3>4. k # 1
      BY <3>1, <2>3, <1>2
    <3> QED BY <3>2, <3>3, <3>4
  <2> QED BY <2>1, <2>2, <2>3
<1>6. CASE Len(p) = 1 /\ p[1].new = new.price
  <2>1. Len(e \o p) = Len(e) + 1 /\ (e \o p)[Len(e) + 1] = p[1]
    BY <1>3, <1>6
  <2> QED BY <1>0, <1>1, <1>4, <1>5, <1>6, <2>1, <1>3 DEF Whole
<1>7. CASE Len(p) = 0 /\ new.price = IF row = Null THEN Null ELSE row.price
  <2>1. Len(e \o p) = Len(e)
    BY <1>3, <1>7
  <2>2. Len(e) = 0 => new.price = Null
    BY <1>7 DEF Whole
  <2>3. Len(e) # 0 => new.price = e[Len(e)].new /\ (e \o p)[Len(e)] = e[Len(e)]
    BY <1>3, <1>7 DEF Whole
  <2> QED BY <1>0, <1>1, <1>4, <1>5, <2>1, <2>2, <2>3 DEF Whole
<1> QED BY <1>6, <1>7 DEF Extends

-------------------------------------------------------------------------------
(***************************************************************************)
(* What an observation and a removal append, whatever the row has become   *)
(* since it was read: an UPDATE writes the price exactly when the price it *)
(* read differs from the one observed, which is when there is an event.    *)
(***************************************************************************)
Flushed(row, old, effect) ==
    IF old = Null THEN effect.row ELSE WriteColumns(row, old, effect.row)

LEMMA ColumnPrice ==
    ASSUME NEW row \in Row, NEW old, NEW new
    PROVE  WriteColumns(row, old, new).price =
               IF new.price # old.price THEN new.price ELSE row.price
BY DEF WriteColumns, Row

LEMMA OwnColumns ==
    ASSUME NEW row \in Row, NEW new
    PROVE  /\ WriteColumns(row, row, new).price = new.price
           /\ WriteColumns(row, row, new).attrs = new.attrs
           /\ WriteColumns(row, row, new).status = new.status
BY DEF WriteColumns, Row

(***************************************************************************)
(* An observation of the very row that is stored.                          *)
(***************************************************************************)
LEMMA ObserveContinues ==
    ASSUME NEW row \in Row \cup {Null}, NEW item \in ListingItem,
           NEW run \in Nat, NEW t \in Nat,
           NEW effect, effect = Observe(row, item, run, t)
    PROVE  /\ Continues(row, Flushed(row, row, effect), effect.versions)
           /\ Moves(row, effect.events)
<1> DEFINE new == Flushed(row, row, effect)
<1>1. CASE row = Null
  <2>1. /\ effect.versions = <<Observed(run, "new", item)>>
        /\ new = NewRow(item, t)
        /\ effect.events = IF item.price = Null THEN <<>>
                           ELSE <<[old |-> Null, new |-> item.price]>>
    BY <1>1 DEF Observe, Flushed
  <2>2. Turn(row, new, Observed(run, "new", item))
    BY <1>1, <2>1 DEF Turn, Observed, NewRow, StatusAfter
  <2>3. Continues(row, new, effect.versions)
    BY <2>1, <2>2 DEF Continues
  <2>4. Moves(row, effect.events)
    BY <1>1, <2>1 DEF Moves
  <2> QED BY <2>3, <2>4
<1>2. CASE row # Null
  <2> DEFINE kinds == Kinds(row, item)
  <2>0. row \in Row
    BY <1>2
  <2>1. /\ effect.versions = [k \in 1..Len(kinds) |-> Observed(run, kinds[k], item)]
        /\ effect.row = SeenRow(row, item, t)
        /\ effect.events = IF PriceChanged(row, item)
                           THEN <<[old |-> row.price, new |-> item.price]>> ELSE <<>>
    BY <1>2 DEF Observe, VersionsOfKinds
  <2>2. new = WriteColumns(row, row, effect.row)
    BY <1>2 DEF Flushed
  <2>3. /\ new.price = KeptPrice(row, item) /\ new.attrs = item.attrs
        /\ new.status = IF row.status = "removed" THEN "relisted" ELSE row.status
    BY <2>0, <2>1, <2>2, OwnColumns DEF SeenRow
  <2>4. Moves(row, effect.events)
    BY <1>2, <2>1 DEF Moves, PriceChanged
  <2>5. new # Null
    <3>1. effect.row \in Row
      BY ObserveType DEF Pending
    <3> QED BY <2>0, <2>2, <3>1, NullAssumption, WriteColumnsType
  <2> HIDE DEF new
  <2>6. CASE row.status = "removed"
    <3>1. Turn(row, new, Observed(run, "relisted", item))
      BY <1>2, <2>3, <2>6 DEF Turn, Observed, StatusAfter, KeptPrice
    <3>2. CASE PriceChanged(row, item)
      <4>1. kinds = <<"relisted", "price_changed">>
        BY <2>6, <3>2 DEF Kinds
      <4>2. /\ Len(effect.versions) = 2
            /\ effect.versions[1] = Observed(run, "relisted", item)
            /\ effect.versions[2] = Observed(run, "price_changed", item)
        BY <2>1, <4>1
      <4>3. Turn(new, new, Observed(run, "price_changed", item))
        BY <2>3, <2>5, <2>6, <3>2 DEF Turn, Observed, PriceChanged, KeptPrice
      <4> QED BY <2>4, <3>1, <4>2, <4>3 DEF Continues, new
    <3>3. CASE ~PriceChanged(row, item)
      <4>1. kinds = <<"relisted">>
        BY <2>6, <3>3 DEF Kinds
      <4>2. Len(effect.versions) = 1 /\ effect.versions[1] = Observed(run, "relisted", item)
        BY <2>1, <4>1
      <4> QED BY <2>4, <3>1, <4>2 DEF Continues, new
    <3> QED BY <3>2, <3>3
  <2>7. CASE row.status # "removed"
    <3>1. ASSUME NEW kind \in {"price_changed", "updated"}
          PROVE  Turn(row, new, Observed(run, kind, item))
      BY <1>2, <2>3, <2>7, <3>1 DEF Turn, Observed, KeptPrice
    <3>2. CASE PriceChanged(row, item) \/ OtherChanged(row, item)
      <4>1. \E kind \in {"price_changed", "updated"} : kinds = <<kind>>
        BY <2>7, <3>2 DEF Kinds
      <4>2. PICK kind \in {"price_changed", "updated"} :
              Len(effect.versions) = 1 /\ effect.versions[1] = Observed(run, kind, item)
        BY <2>1, <4>1
      <4> QED BY <2>4, <3>1, <4>2 DEF Continues, new
    <3>3. CASE ~PriceChanged(row, item) /\ ~OtherChanged(row, item)
      <4>1. kinds = <<>>
        BY <2>7, <3>3 DEF Kinds
      <4>2. Len(effect.versions) = 0
        BY <2>1, <4>1
      <4>3. new.attrs = row.attrs /\ new.price = row.price /\ new.status = row.status
        BY <2>3, <2>7, <3>3 DEF PriceChanged, OtherChanged, PriceVanished, KeptPrice
      <4> QED BY <1>2, <2>4, <4>2, <4>3 DEF Continues, new
    <3> QED BY <3>2, <3>3
  <2> QED BY <2>6, <2>7
<1> QED BY <1>1, <1>2

LEMMA RemovalContinues ==
    ASSUME NEW row \in Row, row.status # "removed", NEW t, NEW cutoff,
           NEW effect, effect = Removal(row, t, cutoff)
    PROVE  /\ Continues(row, Flushed(row, row, effect), effect.versions)
           /\ Moves(row, effect.events)
<1> DEFINE new == Flushed(row, row, effect)
           v   == [run |-> Null, kind |-> "removed", seen |-> row.seen, cutoff |-> cutoff]
<1>1. /\ row # Null /\ effect.versions = <<v>> /\ effect.events = <<>>
      /\ effect.row.price = row.price /\ effect.row.attrs = row.attrs
      /\ effect.row.status = "removed"
  BY NullAssumption DEF Removal, Row
<1>2. new.price = row.price /\ new.attrs = row.attrs /\ new.status = "removed"
  BY <1>1, OwnColumns DEF Flushed
<1> HIDE DEF new
<1>3. Turn(row, new, v)
  BY <1>1, <1>2 DEF Turn, StatusAfter
<1> QED BY <1>1, <1>3 DEF Continues, Moves, new

LEMMA KindsAreOld ==
    ASSUME NEW old, NEW item
    PROVE  /\ Len(Kinds(old, item)) \in Nat
           /\ \A k \in 1..Len(Kinds(old, item)) : Kinds(old, item)[k] # "new"
<1>1. CASE PriceChanged(old, item)
  BY <1>1 DEF Kinds
<1>2. CASE ~PriceChanged(old, item) /\ OtherChanged(old, item)
  BY <1>2 DEF Kinds
<1>3. CASE ~PriceChanged(old, item) /\ ~OtherChanged(old, item)
  BY <1>3 DEF Kinds
<1> QED BY <1>1, <1>2, <1>3

LEMMA ObserveExtends ==
    ASSUME NEW old \in Row \cup {Null}, NEW row \in Row \cup {Null},
           NEW item \in ListingItem, NEW run \in Nat, NEW t \in Nat,
           old = Null <=> row = Null, NEW effect, effect = Observe(old, item, run, t),
           OneSession => old = row
    PROVE  Extends(row, Flushed(row, old, effect), effect.versions, effect.events)
<1> DEFINE new == Flushed(row, old, effect)
<1>0. OneSession => Continues(row, new, effect.versions) /\ Moves(row, effect.events)
  BY ObserveContinues
<1>1. CASE old = Null
  <2>1. /\ effect.versions = <<Observed(run, "new", item)>>
        /\ new.price = item.price
        /\ effect.events = IF item.price = Null THEN <<>>
                           ELSE <<[old |-> Null, new |-> item.price]>>
    BY <1>1 DEF Observe, Flushed, NewRow
  <2>2. Len(effect.versions) = 1 /\ effect.versions[1].kind = "new"
    BY <2>1 DEF Observed
  <2>3. \/ Len(effect.events) = 1 /\ effect.events[1].new = new.price
        \/ Len(effect.events) = 0 /\ new.price = Null
    BY <2>1
  <2> QED BY <1>0, <1>1, <2>2, <2>3 DEF Extends
<1>2. CASE old # Null
  <2>0. row \in Row /\ row # Null
    BY <1>2
  <2>1. effect.versions = [k \in 1..Len(Kinds(old, item)) |->
                             Observed(run, Kinds(old, item)[k], item)]
    BY <1>2 DEF Observe, VersionsOfKinds
  <2>2. \A k \in 1..Len(effect.versions) : effect.versions[k].kind # "new"
    <3>1. Len(effect.versions) = Len(Kinds(old, item))
      BY <2>1, KindsAreOld
    <3>2. ASSUME NEW k \in 1..Len(Kinds(old, item))
          PROVE  effect.versions[k].kind = Kinds(old, item)[k]
      BY <2>1 DEF Observed
    <3> QED BY <3>1, <3>2, KindsAreOld
  <2>3. /\ effect.row.price = KeptPrice(old, item)
        /\ effect.events = IF PriceChanged(old, item)
                           THEN <<[old |-> old.price, new |-> item.price]>>
                           ELSE <<>>
    BY <1>2 DEF Observe, SeenRow
  <2>4. new.price = IF KeptPrice(old, item) # old.price
                    THEN KeptPrice(old, item) ELSE row.price
    <3>1. new = WriteColumns(row, old, effect.row)
      BY <1>2 DEF Flushed
    <3> QED BY <2>0, <2>3, <3>1, ColumnPrice
  <2>5. CASE PriceChanged(old, item)
    <3>1. new.price = item.price
      BY <2>4, <2>5 DEF PriceChanged, KeptPrice
    <3>2. Len(effect.events) = 1 /\ effect.events[1].new = item.price
      BY <2>3, <2>5
    <3> QED BY <1>0, <2>0, <2>2, <3>1, <3>2 DEF Extends
  <2>6. CASE ~PriceChanged(old, item)
    <3>1. new.price = row.price
      BY <2>4, <2>6 DEF PriceChanged, KeptPrice
    <3>2. Len(effect.events) = 0
      BY <2>3, <2>6
    <3> QED BY <1>0, <2>0, <2>2, <3>1, <3>2 DEF Extends
  <2> QED BY <2>5, <2>6
<1> QED BY <1>1, <1>2

LEMMA RemovalExtends ==
    ASSUME NEW old \in Row, NEW row \in Row, NEW t \in Nat, NEW cutoff \in Int,
           NEW effect, effect = Removal(old, t, cutoff),
           OneSession => old = row /\ row.status # "removed"
    PROVE  Extends(row, Flushed(row, old, effect), effect.versions, effect.events)
<1> DEFINE new == Flushed(row, old, effect)
<1>0. OneSession => Continues(row, new, effect.versions) /\ Moves(row, effect.events)
  BY RemovalContinues
<1>1. old # Null /\ row # Null
  BY NullAssumption
<1>2. \A k \in 1..Len(effect.versions) : effect.versions[k].kind # "new"
  BY DEF Removal
<1>3. effect.row.price = old.price
  BY DEF Removal, Row
<1>4. new = WriteColumns(row, old, effect.row)
  BY <1>1 DEF Flushed
<1>5. new.price = row.price
  <2> QED BY <1>3, <1>4, ColumnPrice
<1>6. Len(effect.events) = 0
  BY DEF Removal
<1> QED BY <1>0, <1>1, <1>2, <1>5, <1>6 DEF Extends

-------------------------------------------------------------------------------
(***************************************************************************)
(* The invariant: no two sessions hold a row at once; the histories are    *)
(* whole as committed, and would be with what a session has flushed.       *)
(***************************************************************************)
Exclusive ==
    \A v, w \in Workers : v # w => DOMAIN staged[v] \cap DOMAIN staged[w] = {}

Committed == \A i \in Ids : Whole(listings[i], versions[i], events[i])

StagedWhole(w, i) == Whole(staged[w][i].row, versions[i] \o staged[w][i].versions,
                           events[i] \o staged[w][i].events)
AllStagedWhole == \A w \in Workers : \A i \in DOMAIN staged[w] : StagedWhole(w, i)

HInv == Exclusive /\ Committed /\ AllStagedWhole

(***************************************************************************)
(* What a session decides on.  A sweep reads rows that are not removed;    *)
(* and with one session at a time, the row that was read is the one that   *)
(* is written over: the session begins with nothing flushed, and no other  *)
(* commits in between.                                                     *)
(***************************************************************************)
Fresh(w) ==
    /\ pc[w] = "idle" => DOMAIN staged[w] = {}
    /\ pc[w] = "sweep" => \A i \in DOMAIN view[w] : view[w][i].status # "removed"
    /\ OneSession /\ pc[w] \in {"write", "sweep"} =>
         \A i \in DOMAIN view[w] : view[w][i] = Mine(w, i).row

AllFresh == \A w \in Workers : Fresh(w)

LEMMA TableTypes ==
    ASSUME TypeOK, NEW i \in Ids
    PROVE  /\ listings[i] \in Row \cup {Null}
           /\ versions[i] \in Seq(Version)
           /\ events[i] \in Seq(PriceEvent)
BY DEF TypeOK, DatabaseTypeOK

LEMMA StagedTypes ==
    ASSUME TypeOK, NEW w \in Workers, NEW i \in DOMAIN staged[w]
    PROVE  /\ i \in Ids
           /\ staged[w][i].row \in Row
           /\ staged[w][i].versions \in Seq(Version)
           /\ staged[w][i].events \in Seq(PriceEvent)
<1>1. i \in Ids /\ staged[w][i] \in Pending
  BY DEF TypeOK, SessionTypeOK, Partial
<1> QED BY <1>1 DEF Pending

(***************************************************************************)
(* A step that leaves the tables alone and flushes nothing, whether or not *)
(* it rolls a session back.                                                *)
(***************************************************************************)
LEMMA TablesStay ==
    ASSUME HInv, UNCHANGED rows,
           \A w \in Workers : staged'[w] = staged[w] \/ staged'[w] = Nothing
    PROVE  HInv'
<1>1. DOMAIN Nothing = {}
  BY DEF Nothing
<1>2. \A w \in Workers : \A i \in DOMAIN staged'[w] :
        i \in DOMAIN staged[w] /\ staged'[w] = staged[w]
  BY <1>1
<1>3. Exclusive'
  BY <1>2 DEF Exclusive, HInv
<1>4. Committed'
  BY DEF Committed, HInv, rows
<1>5. AllStagedWhole'
  BY <1>2 DEF AllStagedWhole, StagedWhole, HInv, rows
<1> QED BY <1>3, <1>4, <1>5 DEF HInv

(***************************************************************************)
(* What a session sees of a listing is whole, flushed or not.              *)
(***************************************************************************)
LEMMA MineWhole ==
    ASSUME TypeOK, HInv, NEW w \in Workers, NEW i \in Ids
    PROVE  Whole(Mine(w, i).row, versions[i] \o Mine(w, i).versions,
                 events[i] \o Mine(w, i).events)
<1>1. CASE i \in DOMAIN staged[w]
  BY <1>1 DEF Mine, HInv, AllStagedWhole, StagedWhole
<1>2. CASE i \notin DOMAIN staged[w]
  <2>1. /\ Mine(w, i).row = listings[i]
        /\ Mine(w, i).versions = <<>>
        /\ Mine(w, i).events = <<>>
    BY <1>2 DEF Mine
  <2>2. versions[i] \o <<>> = versions[i] /\ events[i] \o <<>> = events[i]
    BY TableTypes, ConcatEmptySeq
  <2> QED BY <2>1, <2>2 DEF HInv, Committed
<1> QED BY <1>1, <1>2

(***************************************************************************)
(* A flush: the row's lock is the session's, and the history is extended.  *)
(***************************************************************************)
LEMMA FlushWhole ==
    ASSUME TypeOK, HInv, NEW w \in Workers, NEW i \in Ids,
           NEW old \in Row \cup {Null}, NEW effect \in Pending,
           old # Null => Mine(w, i).row # Null,
           Flush(w, i, old, effect), ~LockedByOther(w, i), UNCHANGED rows,
           Extends(Mine(w, i).row, Flushed(Mine(w, i).row, old, effect),
                   effect.versions, effect.events)
    PROVE  HInv'
<1> DEFINE mine == Mine(w, i)
           new  == Flushed(mine.row, old, effect)
<1>1. /\ \A v \in Workers \ {w} : staged'[v] = staged[v]
      /\ DOMAIN staged'[w] = DOMAIN staged[w] \cup {i}
      /\ \A j \in DOMAIN staged[w] \ {i} : staged'[w][j] = staged[w][j]
  BY FlushType
<1>2. /\ staged'[w][i].row = new
      /\ staged'[w][i].versions = mine.versions \o effect.versions
      /\ staged'[w][i].events = mine.events \o effect.events
  BY DEF Flush, Flushed, TypeOK, SessionTypeOK
<1>3. /\ mine.row \in Row \cup {Null} /\ mine.versions \in Seq(Version)
      /\ mine.events \in Seq(PriceEvent)
      /\ effect.row \in Row /\ effect.versions \in Seq(Version)
      /\ effect.events \in Seq(PriceEvent)
  BY MineType DEF Pending
<1>4. new \in Row
  BY <1>3, WriteColumnsType DEF Flushed
<1>5. Whole(mine.row, versions[i] \o mine.versions, events[i] \o mine.events)
  BY MineWhole
<1>6. Extends(mine.row, new, effect.versions, effect.events)
  OBVIOUS
<1> HIDE DEF mine, new
<1>7. Whole(new, versions[i] \o (mine.versions \o effect.versions),
                 events[i] \o (mine.events \o effect.events))
  <2> DEFINE h == versions[i] \o mine.versions
             e == events[i] \o mine.events
  <2>1. h \in Seq(Version) /\ e \in Seq(PriceEvent)
    BY <1>3, TableTypes, ConcatProperties
  <2>2. Whole(mine.row, h, e)
    BY <1>5
  <2> HIDE DEF h, e
  <2>3. Whole(new, h \o effect.versions, e \o effect.events)
    BY <1>3, <1>4, <1>6, <2>1, <2>2, WholeExtended
  <2>4. h \o effect.versions = versions[i] \o (mine.versions \o effect.versions)
    <3> DEFINE a == versions[i]
               b == mine.versions
               c == effect.versions
    <3>1. a \in Seq(Version) /\ b \in Seq(Version) /\ c \in Seq(Version)
      BY <1>3, TableTypes
    <3> HIDE DEF a, b, c
    <3>2. (a \o b) \o c = a \o (b \o c)
      BY ONLY <3>1
    <3> QED BY ONLY <3>2 DEF h, a, b, c
  <2>5. e \o effect.events = events[i] \o (mine.events \o effect.events)
    <3> DEFINE a == events[i]
               b == mine.events
               c == effect.events
    <3>1. a \in Seq(PriceEvent) /\ b \in Seq(PriceEvent) /\ c \in Seq(PriceEvent)
      BY <1>3, TableTypes
    <3> HIDE DEF a, b, c
    <3>2. (a \o b) \o c = a \o (b \o c)
      BY ONLY <3>1
    <3> QED BY ONLY <3>2 DEF e, a, b, c
  <2> QED BY <2>3, <2>4, <2>5
<1>8. Exclusive'
  BY <1>1 DEF Exclusive, HInv, LockedByOther
<1>9. Committed'
  BY DEF Committed, HInv, rows
<1>10. AllStagedWhole'
  <2> SUFFICES ASSUME NEW v \in Workers, NEW j \in DOMAIN staged'[v]
               PROVE  StagedWhole(v, j)'
    BY DEF AllStagedWhole
  <2>1. CASE v = w /\ j = i
    BY <2>1, <1>2, <1>7 DEF StagedWhole, rows
  <2>2. CASE ~(v = w /\ j = i)
    <3>1. j \in DOMAIN staged[v] /\ staged'[v][j] = staged[v][j]
      BY <2>2, <1>1
    <3> QED BY <3>1 DEF HInv, AllStagedWhole, StagedWhole, rows
  <2> QED BY <2>1, <2>2
<1> QED BY <1>8, <1>9, <1>10 DEF HInv

(***************************************************************************)
(* A commit: what it publishes is whole, and the rows that the others have *)
(* flushed are not among it.                                               *)
(***************************************************************************)
LEMMA PublishWhole ==
    ASSUME TypeOK, HInv, NEW w \in Workers, Publish(w),
           \A v \in Workers \ {w} : staged'[v] = staged[v],
           staged'[w] = Nothing
    PROVE  HInv'
<1>1. DOMAIN Nothing = {}
  BY DEF Nothing
<1>2. Exclusive'
  BY <1>1 DEF Exclusive, HInv
<1>3. Committed'
  <2> SUFFICES ASSUME NEW i \in Ids
               PROVE  Whole(listings'[i], versions'[i], events'[i])
    BY DEF Committed
  <2>1. /\ listings'[i] = Mine(w, i).row
        /\ versions'[i] = versions[i] \o Mine(w, i).versions
        /\ events'[i] = events[i] \o Mine(w, i).events
    BY DEF Publish
  <2> QED BY <2>1, MineWhole
<1>4. AllStagedWhole'
  <2> SUFFICES ASSUME NEW v \in Workers, NEW i \in DOMAIN staged'[v]
               PROVE  StagedWhole(v, i)'
    BY DEF AllStagedWhole
  <2>1. v # w /\ staged'[v] = staged[v] /\ i \in DOMAIN staged[v]
    BY <1>1
  <2>2. i \in Ids /\ i \notin DOMAIN staged[w]
    BY <2>1, StagedTypes DEF HInv, Exclusive
  <2>3. versions'[i] = versions[i] /\ events'[i] = events[i]
    <3>1. /\ versions'[i] = versions[i] \o <<>>
          /\ events'[i] = events[i] \o <<>>
      BY <2>2 DEF Publish, Mine
    <3> QED BY <3>1, <2>2, TableTypes, ConcatEmptySeq
  <2> QED BY <2>1, <2>3 DEF HInv, AllStagedWhole, StagedWhole
<1> QED BY <1>2, <1>3, <1>4 DEF HInv

-------------------------------------------------------------------------------
(***************************************************************************)
(* What a session reads stays as it read it, with one session at a time.   *)
(***************************************************************************)
LEMMA OthersFresh ==
    ASSUME AllFresh, NEW w \in Workers, Fresh(w)',
           \A v \in Workers \ {w} : /\ pc'[v] = pc[v] /\ view'[v] = view[v]
                                    /\ staged'[v] = staged[v]
    PROVE  AllFresh'
<1> SUFFICES ASSUME NEW v \in Workers \ {w} PROVE Fresh(v)'
  BY DEF AllFresh
<1>1. Fresh(v) /\ ~OneSession
  BY DEF AllFresh, OneSession
<1> QED BY <1>1 DEF Fresh, OneSession

LEMMA SelectFresh ==
    ASSUME IInv, AllFresh, NEW w \in Workers, ReadItem(w) \/ SweepSelect(w)
    PROVE  AllFresh'
<1>1. SessionTypeOK
  BY DEF IInv, TypeOK
<1>2. /\ \A v \in Workers \ {w} : pc'[v] = pc[v] /\ view'[v] = view[v]
      /\ staged' = staged /\ listings' = listings
  BY <1>1 DEF ReadItem, SweepSelect, database, rows, SessionTypeOK
<1>3. \A i : Mine(w, i)'.row = Mine(w, i).row
  BY <1>2 DEF Mine
<1>4. CASE ReadItem(w)
  <2>1. /\ pc'[w] = "write"
        /\ view'[w] = [i \in {feed[w][pos[w]].id} |-> Mine(w, i).row]
    BY <1>1, <1>4 DEF ReadItem, SessionTypeOK
  <2>2. Fresh(w)'
    BY <1>3, <2>1 DEF Fresh
  <2> QED BY <1>2, <2>2, OthersFresh
<1>5. CASE SweepSelect(w)
  <2> DEFINE S == Stale(now - StaleDays)
  <2>1. pc[w] = "idle" /\ pc'[w] = "sweep" /\ view'[w] = [i \in S |-> listings[i]]
    BY <1>1, <1>5 DEF SweepSelect, SessionTypeOK
  <2>2. \A i \in S : listings[i].status # "removed"
    BY DEF Stale
  <2>3. \A i \in S : Mine(w, i).row = listings[i]
    BY <2>1 DEF AllFresh, Fresh, Mine
  <2> HIDE DEF S
  <2>4. Fresh(w)'
    BY <1>3, <2>1, <2>2, <2>3 DEF Fresh
  <2> QED BY <1>2, <2>4, OthersFresh
<1> QED BY <1>4, <1>5

LEMMA SweepWriteFresh ==
    ASSUME IInv, AllFresh, NEW w \in Workers, NEW i \in Ids, SweepWrite(w, i)
    PROVE  AllFresh'
<1>1. SessionTypeOK
  BY DEF IInv, TypeOK
<1>2. /\ \A v \in Workers \ {w} : view'[v] = view[v] /\ staged'[v] = staged[v]
      /\ pc' = pc /\ pc[w] = "sweep" /\ listings' = listings
      /\ view'[w] = [j \in DOMAIN view[w] \ {i} |-> view[w][j]]
  BY <1>1 DEF SweepWrite, Flush, database, rows, SessionTypeOK
<1>3. \A j : j # i => /\ j \in DOMAIN staged'[w] <=> j \in DOMAIN staged[w]
                      /\ j \in DOMAIN staged[w] => staged'[w][j] = staged[w][j]
  BY <1>1 DEF SweepWrite, Flush, SessionTypeOK
<1>4. ASSUME NEW j, j # i PROVE Mine(w, j)'.row = Mine(w, j).row
  <2>1. CASE j \in DOMAIN staged[w]
    BY <1>3, <1>4, <2>1 DEF Mine
  <2>2. CASE j \notin DOMAIN staged[w]
    BY <1>2, <1>3, <1>4, <2>2 DEF Mine
  <2> QED BY <2>1, <2>2
<1>5. Fresh(w)
  BY DEF AllFresh
<1>6. Fresh(w)'
  BY <1>2, <1>4, <1>5 DEF Fresh
<1> QED BY <1>2, <1>6, OthersFresh

(***************************************************************************)
(* Every other step leaves a session outside its reads and its writes, or  *)
(* idle with nothing flushed.                                              *)
(***************************************************************************)
LEMMA LeaveFresh ==
    ASSUME AllFresh, NEW w \in Workers,
           \A v \in Workers \ {w} : /\ pc'[v] = pc[v] /\ view'[v] = view[v]
                                    /\ staged'[v] = staged[v],
           \/ pc'[w] \notin {"idle", "write", "sweep"}
           \/ pc'[w] = "idle" /\ staged'[w] = Nothing
    PROVE  AllFresh'
<1>1. DOMAIN Nothing = {}
  BY DEF Nothing
<1>2. Fresh(w)'
  BY <1>1 DEF Fresh
<1> QED BY <1>2, OthersFresh

LEMMA EndsFresh ==
    ASSUME IInv, AllFresh, NEW w \in Workers, EndSession(w)
    PROVE  AllFresh'
BY LeaveFresh DEF EndSession, IInv, TypeOK, SessionTypeOK

LEMMA NextFresh == ASSUME IInv, AllFresh, [Next]_vars PROVE AllFresh'
<1>0. SessionTypeOK
  BY DEF IInv, TypeOK
<1>1. CASE Tick \/ UNCHANGED vars
  <2>1. pc' = pc /\ view' = view /\ staged' = staged /\ listings' = listings
    BY <1>1 DEF Tick, vars, session, database, rows
  <2> QED BY <2>1 DEF AllFresh, Fresh, Mine
<1>2. ASSUME NEW w \in Workers,
             \/ Start(w) \/ Fetch(w) \/ Archive(w) \/ PassOver(w) \/ WriteItem(w)
             \/ InsertCollides(w) \/ DeadlockVictim(w) \/ FailItem(w) \/ CommitItems(w)
      PROVE  AllFresh'
  <2>1. \A v \in Workers \ {w} : /\ pc'[v] = pc[v] /\ view'[v] = view[v]
                                 /\ staged'[v] = staged[v]
    BY <1>0, <1>2
    DEF Start, Fetch, Archive, PassOver, AtItem, WriteItem, InsertCollides, DeadlockVictim,
        FailItem, LoseItem, NextItem, CommitItems, Flush, SessionTypeOK
  <2>2. pc'[w] \notin {"idle", "write", "sweep"}
    BY <1>0, <1>2
    DEF Start, Fetch, Archive, PassOver, AtItem, WriteItem, InsertCollides, DeadlockVictim,
        FailItem, LoseItem, NextItem, CommitItems, SessionTypeOK
  <2> QED BY <2>1, <2>2, LeaveFresh
<1>3. ASSUME NEW w \in Workers, ReadItem(w) \/ SweepSelect(w) PROVE AllFresh'
  BY <1>3, SelectFresh
<1>4. ASSUME NEW w \in Workers, NEW i \in Ids, SweepWrite(w, i) PROVE AllFresh'
  BY <1>4, SweepWriteFresh
<1>5. ASSUME NEW w \in Workers,
             \/ Close(w) \/ SweepCommit(w) \/ SweepVictim(w) \/ FetchFails(w) \/ Abort(w)
             \/ SweepFails(w) \/ Crash(w) \/ EscapedError(w)
      PROVE  AllFresh'
  BY <1>5, EndsFresh
  DEF Close, SweepCommit, SweepVictim, FetchFails, Abort, SweepFails, Crash, EscapedError,
      Fault
<1> QED BY <1>1, <1>2, <1>3, <1>4, <1>5 DEF Next, Advance

LEMMA FreshInvariance == Spec => []AllFresh
<1>1. Init => AllFresh
  BY DEF Init, AllFresh, Fresh, Nothing
<1>2. IInv /\ AllFresh /\ [Next]_vars => AllFresh'
  BY NextFresh
<1> QED BY <1>1, Invariance, <1>2, PTL DEF Spec

-------------------------------------------------------------------------------
(***************************************************************************)
(* The two flushes: an observation of a run, a removal of a sweep.         *)
(***************************************************************************)
LEMMA WriteItemWhole ==
    ASSUME IInv, AllFresh, HInv, NEW w \in Workers, WriteItem(w)
    PROVE  HInv'
<1> DEFINE item   == feed[w][pos[w]]
           i      == item.id
           old    == view[w][i]
           effect == Observe(old, item, cur[w], asof[w])
<1>1. TypeOK
  BY DEF IInv
<1>2. /\ pc[w] = "write" /\ pos[w] \in 1..Len(feed[w]) /\ DOMAIN view[w] = {i}
      /\ old # Null => Mine(w, i).row # Null
  BY DEF WriteItem, IInv, InHand, Hand
<1>3. item \in ListingItem /\ i \in Ids
  <2>1. item \in Item /\ item.kind = "listing"
    BY <1>1, <1>2 DEF IInv, InHand, Hand, TypeOK, SessionTypeOK
  <2> QED BY <2>1 DEF Item, ListingItem
<1>4. old \in Row \cup {Null}
  BY <1>1, <1>2 DEF TypeOK, SessionTypeOK, Partial
<1>5. /\ Flush(w, i, old, effect) /\ ~LockedByOther(w, i)
      /\ InsertFits(w, i) /\ UNCHANGED rows
  BY DEF WriteItem, database, rows
<1>6. old = Null <=> Mine(w, i).row = Null
  BY <1>2, <1>5 DEF InsertFits
<1>7. cur[w] \in Nat /\ asof[w] \in Nat
  BY <1>1 DEF TypeOK, SessionTypeOK
<1>8. Mine(w, i).row \in Row \cup {Null}
  BY <1>1, <1>3, MineType
<1> DEFINE run == cur[w]
           t   == asof[w]
           row == Mine(w, i).row
<1>9. /\ run \in Nat /\ t \in Nat /\ row \in Row \cup {Null}
      /\ effect = Observe(old, item, run, t) /\ (old = Null <=> row = Null)
      /\ OneSession => old = row
  BY <1>2, <1>6, <1>7, <1>8 DEF AllFresh, Fresh
<1> HIDE DEF item, i, old, effect, run, t, row
<1>10. effect \in Pending
  BY <1>3, <1>4, <1>9, ObserveType
<1>11. Extends(row, Flushed(row, old, effect), effect.versions, effect.events)
  BY <1>3, <1>4, <1>9, ObserveExtends
<1>12. Extends(Mine(w, i).row, Flushed(Mine(w, i).row, old, effect),
               effect.versions, effect.events)
  BY <1>11 DEF row
<1> QED BY <1>1, <1>2, <1>3, <1>4, <1>5, <1>10, <1>12, FlushWhole

LEMMA SweepWriteWhole ==
    ASSUME IInv, AllFresh, HInv, NEW w \in Workers, NEW i \in Ids, SweepWrite(w, i)
    PROVE  HInv'
<1> DEFINE old    == view[w][i]
           t      == asof[w]
           cutoff == asof[w] - StaleDays
           effect == Removal(old, t, cutoff)
           row    == Mine(w, i).row
<1>1. TypeOK
  BY DEF IInv
<1>2. i \in DOMAIN view[w] /\ old # Null /\ row # Null
  BY DEF SweepWrite, IInv, InHand, Hand
<1>3. old \in Row /\ row \in Row /\ row = Mine(w, i).row
  <2>1. old \in Row \cup {Null}
    BY <1>1, <1>2 DEF TypeOK, SessionTypeOK, Partial
  <2> QED BY <1>1, <1>2, <2>1, MineType
<1>4. t \in Nat /\ cutoff \in Int
  BY <1>1, IngestAssumption DEF TypeOK, SessionTypeOK
<1>5. Flush(w, i, old, effect) /\ ~LockedByOther(w, i) /\ UNCHANGED rows
  BY DEF SweepWrite, database, rows
<1>6. effect = Removal(old, t, cutoff) /\ (OneSession => old = row /\ row.status # "removed")
  BY <1>2 DEF SweepWrite, AllFresh, Fresh
<1> HIDE DEF old, t, cutoff, effect, row
<1>7. effect \in Pending
  BY <1>3, <1>4, <1>6, RemovalType
<1>8. Extends(row, Flushed(row, old, effect), effect.versions, effect.events)
  BY <1>3, <1>4, <1>6, RemovalExtends
<1> QED BY <1>1, <1>2, <1>3, <1>5, <1>7, <1>8, FlushWhole

(***************************************************************************)
(* The two commits.                                                        *)
(***************************************************************************)
LEMMA CommitsWhole ==
    ASSUME IInv, HInv, NEW w \in Workers, CommitItems(w) \/ SweepCommit(w)
    PROVE  HInv'
<1>1. TypeOK /\ Publish(w)
  BY DEF IInv, CommitItems, SweepCommit
<1>2. /\ \A v \in Workers \ {w} : staged'[v] = staged[v]
      /\ staged'[w] = Nothing
  BY DEF CommitItems, SweepCommit, EndSession, IInv, TypeOK, SessionTypeOK
<1> QED BY <1>1, <1>2, PublishWhole

(***************************************************************************)
(* A session that ends without a commit.                                   *)
(***************************************************************************)
LEMMA EndsWhole ==
    ASSUME IInv, HInv, NEW w \in Workers, EndSession(w), UNCHANGED rows
    PROVE  HInv'
<1>1. \A v \in Workers : staged'[v] = staged[v] \/ staged'[v] = Nothing
  BY DEF EndSession, IInv, TypeOK, SessionTypeOK
<1> QED BY <1>1, TablesStay

LEMMA NextHInv == ASSUME IInv, AllFresh, HInv, [Next]_vars PROVE HInv'
<1>1. CASE UNCHANGED <<staged, rows>>
  BY <1>1, TablesStay
<1>2. Tick \/ UNCHANGED vars => UNCHANGED <<staged, rows>>
  BY DEF Tick, vars, session, database, rows
<1>3. ASSUME NEW w \in Workers, Advance(w) PROVE HInv'
  <2>1. CASE \/ Fetch(w) \/ Archive(w) \/ PassOver(w) \/ ReadItem(w)
             \/ InsertCollides(w) \/ DeadlockVictim(w)
    BY <1>1, <2>1 DEF Fetch, Archive, PassOver, ReadItem, InsertCollides, DeadlockVictim,
                      LoseItem, database, rows
  <2>2. CASE WriteItem(w)
    BY <2>2, WriteItemWhole
  <2>3. CASE CommitItems(w) \/ SweepCommit(w)
    BY <2>3, CommitsWhole
  <2>4. CASE \E i \in Ids : SweepWrite(w, i)
    BY <2>4, SweepWriteWhole
  <2>5. CASE Close(w) \/ SweepVictim(w)
    BY <2>5, EndsWhole DEF Close, SweepVictim, SweepFails, database, rows
  <2> QED BY <1>3, <2>1, <2>2, <2>3, <2>4, <2>5 DEF Advance
<1>4. ASSUME NEW w \in Workers,
             Start(w) \/ FailItem(w) \/ SweepSelect(w)
      PROVE  HInv'
  BY <1>1, <1>4 DEF Start, FailItem, LoseItem, SweepSelect, database, rows
<1>5. ASSUME NEW w \in Workers,
             FetchFails(w) \/ Abort(w) \/ SweepFails(w) \/ Crash(w) \/ EscapedError(w)
      PROVE  HInv'
  BY <1>5, EndsWhole
  DEF FetchFails, Abort, SweepFails, Crash, EscapedError, Fault, database, rows
<1> QED BY <1>1, <1>2, <1>3, <1>4, <1>5 DEF Next

LEMMA InitHInv == Init => HInv
<1> SUFFICES ASSUME Init PROVE HInv
  OBVIOUS
<1>1. DOMAIN Nothing = {} /\ \A w \in Workers : staged[w] = Nothing
  BY DEF Init, Nothing
<1>2. Committed
  BY DEF Init, Committed, Whole, Replays, RowReplays, SeenAt, PricedAt, TurnsAt, Last, Chained
<1> QED BY <1>1, <1>2 DEF HInv, Exclusive, AllStagedWhole

LEMMA HistoryInvariance == Spec => []HInv
<1>1. IInv /\ AllFresh /\ HInv /\ [Next]_vars => HInv'
  BY NextHInv
<1> QED BY InitHInv, Invariance, FreshInvariance, <1>1, PTL DEF Spec

(***************************************************************************)
(* A listing is new once, its first version and no other, also when two    *)
(* sessions meet it first together: the one that inserts second loses its  *)
(* item to the unique constraint.                                          *)
(***************************************************************************)
THEOREM NewIsOnce == Spec => []NewOnce
<1>1. HInv => NewOnce
  BY DEF HInv, Committed, Whole, NewOnce
<1> QED BY <1>1, HistoryInvariance, PTL

(***************************************************************************)
(* The price of a listing is the one of its latest price event, whichever  *)
(* sessions overlap: they write both or neither.                           *)
(***************************************************************************)
THEOREM LastEventGivesPrice == Spec => []LastEventIsPrice
<1>1. ASSUME TypeOK, HInv PROVE LastEventIsPrice
  <2> SUFFICES ASSUME NEW i \in Ids
               PROVE  IF events[i] = <<>>
                      THEN listings[i] = Null \/ listings[i].price = Null
                      ELSE /\ listings[i] # Null
                           /\ listings[i].price = events[i][Len(events[i])].new
    BY DEF LastEventIsPrice
  <2>1. events[i] = <<>> <=> Len(events[i]) = 0
    BY <1>1, TableTypes
  <2> QED BY <1>1, <2>1 DEF HInv, Committed, Whole
<1> QED BY <1>1, TypeCorrect, HistoryInvariance, PTL

(***************************************************************************)
(* With one session at a time every price event starts where the one       *)
(* before it ended, and moves the price.                                   *)
(***************************************************************************)
THEOREM EventsChain ==
    ASSUME OneSession
    PROVE  Spec => []PriceEventsChain
<1>1. HInv => PriceEventsChain
  BY DEF HInv, Committed, Whole, Chained, PriceEventsChain
<1> QED BY <1>1, HistoryInvariance, PTL

(***************************************************************************)
(* With one session at a time the versions of a listing replay to its row, *)
(* through a legal life: whatever the feeds hold, wherever a session fails *)
(* or crashes, and whichever sweeps come in between.                       *)
(***************************************************************************)
THEOREM VersionsReplay ==
    ASSUME OneSession
    PROVE  Spec => []HistoryReplays
<1>1. HInv => HistoryReplays
  BY DEF HInv, Committed, Whole, Replays, HistoryReplays
<1> QED BY <1>1, HistoryInvariance, PTL

-------------------------------------------------------------------------------
(***************************************************************************)
(* What authorises a removal, from what has closed ok.  It stays           *)
(* authorised as long as no ok run changes.                                *)
(***************************************************************************)
Healthy(rs, cutoff) == \E r \in 1..Len(rs) : rs[r].status = "ok" /\ rs[r].finished > cutoff
Caused(rs, v) == v.kind = "removed" => v.cutoff > v.seen /\ Healthy(rs, v.cutoff)

Kept(rs, rt) == \A r \in 1..Len(rs) :
                    r \in 1..Len(rt) /\ (rs[r].status = "ok" => rt[r] = rs[r])

LEMMA HealthStays ==
    ASSUME NEW rs, NEW rt, Kept(rs, rt)
    PROVE  /\ \A cutoff : Healthy(rs, cutoff) => Healthy(rt, cutoff)
           /\ \A v : Caused(rs, v) => Caused(rt, v)
<1>1. ASSUME NEW cutoff, Healthy(rs, cutoff) PROVE Healthy(rt, cutoff)
  <2>1. PICK r \in 1..Len(rs) : rs[r].status = "ok" /\ rs[r].finished > cutoff
    BY <1>1 DEF Healthy
  <2>2. r \in 1..Len(rt) /\ rt[r] = rs[r]
    BY <2>1 DEF Kept
  <2> QED BY <2>1, <2>2 DEF Healthy
<1> QED BY <1>1 DEF Caused

(***************************************************************************)
(* A feed without listings: every record of it counts as failed or as      *)
(* skipped, and so it is not classified as ok.                             *)
(***************************************************************************)
NoListing(f) == \A k \in 1..Len(f) : f[k].kind # "listing"
Passed(f, p) == Cardinality({k \in 1..p - 1 : f[k].kind = "project"})

LEMMA PassedCounts ==
    ASSUME NEW f \in Seq(Item)
    PROVE  /\ Passed(f, 1) = 0
           /\ Passed(f, Len(f) + 1) = Skipped(f)
           /\ \A p \in 1..Len(f) :
                /\ Passed(f, p) \in Nat
                /\ Passed(f, p + 1) =
                     Passed(f, p) + IF f[p].kind = "project" THEN 1 ELSE 0
<1> DEFINE P(p) == {k \in 1..p - 1 : f[k].kind = "project"}
<1>1. Passed(f, 1) = 0
  <2>1. P(1) = {}
    OBVIOUS
  <2> QED BY <2>1, FS_EmptySet DEF Passed
<1>2. Passed(f, Len(f) + 1) = Skipped(f)
  <2>1. P(Len(f) + 1) = {k \in DOMAIN f : f[k].kind = "project"}
    OBVIOUS
  <2> QED BY <2>1 DEF Passed, Skipped
<1>3. ASSUME NEW p \in 1..Len(f)
      PROVE  /\ Passed(f, p) \in Nat
             /\ Passed(f, p + 1) = Passed(f, p) + IF f[p].kind = "project" THEN 1 ELSE 0
  <2>1. IsFiniteSet(P(p)) /\ p \notin P(p)
    <3>1. IsFiniteSet(1..p - 1)
      BY FS_Interval
    <3> QED BY <3>1, FS_Subset
  <2>2. Cardinality(P(p)) \in Nat /\ Cardinality(P(p) \cup {p}) = Cardinality(P(p)) + 1
    BY <2>1, FS_CardinalityType, FS_AddElement
  <2>3. P(p + 1) = IF f[p].kind = "project" THEN P(p) \cup {p} ELSE P(p)
    OBVIOUS
  <2>4. Passed(f, p) = Cardinality(P(p)) /\ Passed(f, p + 1) = Cardinality(P(p + 1))
    BY DEF Passed
  <2> HIDE DEF P
  <2> QED BY <2>2, <2>3, <2>4
<1> QED BY <1>1, <1>2, <1>3

LEMMA NothingParsed ==
    ASSUME NEW items \in Nat, NEW fails \in Nat, NEW skipped \in Nat, NEW sizes,
           items = fails + skipped
    PROVE  Classify(items, fails, skipped, sizes) # "ok"
<1>1. items - fails - skipped = 0
  OBVIOUS
<1> QED BY <1>1 DEF Classify

(***************************************************************************)
(* An observation removes nothing, and a removal by the sweep is of a      *)
(* listing that it saw unseen since its cutoff.                            *)
(***************************************************************************)
LEMMA ObservedKindsOnly ==
    ASSUME NEW old \in Row \cup {Null}, NEW item \in ListingItem, NEW run, NEW t,
           NEW effect, effect = Observe(old, item, run, t)
    PROVE  \A k \in 1..Len(effect.versions) : effect.versions[k].kind # "removed"
<1>1. CASE old = Null
  <2>1. effect.versions = <<Observed(run, "new", item)>>
    BY <1>1 DEF Observe
  <2> QED BY <2>1 DEF Observed
<1>2. CASE old # Null
  <2>1. effect.versions = [k \in 1..Len(Kinds(old, item)) |->
                             Observed(run, Kinds(old, item)[k], item)]
    BY <1>2 DEF Observe, VersionsOfKinds
  <2>2. \A k \in 1..Len(Kinds(old, item)) : Kinds(old, item)[k] # "removed"
    <3>1. CASE PriceChanged(old, item)
      BY <3>1 DEF Kinds
    <3>2. CASE ~PriceChanged(old, item) /\ OtherChanged(old, item)
      BY <3>2 DEF Kinds
    <3>3. CASE ~PriceChanged(old, item) /\ ~OtherChanged(old, item)
      BY <3>3 DEF Kinds
    <3> QED BY <3>1, <3>2, <3>3
  <2>3. Len(effect.versions) = Len(Kinds(old, item))
    BY <2>1, KindsAreOld
  <2> QED BY <2>1, <2>2, <2>3 DEF Observed
<1> QED BY <1>1, <1>2

-------------------------------------------------------------------------------
(***************************************************************************)
(* The invariant.  OkFed: a run that closed ok archived a listing.         *)
(* CausesKnown: removals are authorised, as committed and as flushed.      *)
(* Working: a session's open run is running, and its alone; its count of   *)
(* failed records, with the projects it passed, is that of the records it  *)
(* passed, if none was a listing; and a sweep works on rows that were      *)
(* stale when a source was healthy.                                        *)
(***************************************************************************)
OkFed == \A r \in 1..Len(runs) : runs[r].status = "ok" =>
            \E x \in raw : x[1] = r /\ x[2].kind = "listing"

CausesKnown == \A i \in Ids : \A k \in 1..Len(versions[i]) : Caused(runs, versions[i][k])
CausesHeld  == \A w \in Workers : \A i \in DOMAIN staged[w] :
                  \A k \in 1..Len(staged[w][i].versions) :
                     Caused(runs, staged[w][i].versions[k])

OneRunEach == \A v, w \in Workers : v # w /\ cur[v] = cur[w] => cur[v] = 0

Working(w) ==
    /\ pc[w] \in Open => runs[cur[w]].status = "running"
    /\ pc[w] \in {"idle", "fetch", "archive"} => pos[w] = 1 /\ failed[w] = 0
    /\ pc[w] = "items" => pos[w] <= Len(feed[w]) + 1
    /\ pc[w] = "close" => pos[w] = Len(feed[w]) + 1 /\ Archived(w) \subseteq raw
    /\ pc[w] \in {"items", "close"} /\ NoListing(feed[w]) =>
         failed[w] + Passed(feed[w], pos[w]) = pos[w] - 1
    /\ pc[w] = "sweep" =>
         /\ Healthy(runs, asof[w] - StaleDays)
         /\ \A i \in DOMAIN view[w] : asof[w] - StaleDays > view[w][i].seen

AllWorking == \A w \in Workers : Working(w)

AInv == OkFed /\ CausesKnown /\ CausesHeld /\ OneRunEach /\ AllWorking

-------------------------------------------------------------------------------
(***************************************************************************)
(* What a step leaves of the invariant: the other sessions' part, the      *)
(* causes of removals, and all of it where no run changes.                 *)
(***************************************************************************)
OthersStay(w) ==
    \A v \in Workers \ {w} :
        /\ pc'[v] = pc[v] /\ cur'[v] = cur[v] /\ feed'[v] = feed[v] /\ pos'[v] = pos[v]
        /\ failed'[v] = failed[v] /\ view'[v] = view[v] /\ asof'[v] = asof[v]

LEMMA OthersWork ==
    ASSUME AInv, NEW w \in Workers, OthersStay(w), Kept(runs, runs'), raw \subseteq raw',
           \A v \in Workers \ {w} : pc[v] \in Open => runs'[cur[v]].status = "running"
    PROVE  \A v \in Workers \ {w} : Working(v)'
<1> SUFFICES ASSUME NEW v \in Workers \ {w}
             PROVE  Working(v)'
  OBVIOUS
<1>1. Working(v)
  BY DEF AInv, AllWorking
<1>2. /\ pc'[v] = pc[v] /\ cur'[v] = cur[v] /\ feed'[v] = feed[v] /\ pos'[v] = pos[v]
      /\ failed'[v] = failed[v] /\ view'[v] = view[v] /\ asof'[v] = asof[v]
  BY DEF OthersStay
<1>3. Healthy(runs, asof[v] - StaleDays) => Healthy(runs', asof[v] - StaleDays)
  BY HealthStays
<1>4. Archived(v)' = Archived(v)
  BY <1>2 DEF Archived
<1> QED BY <1>1, <1>2, <1>3, <1>4 DEF Working

LEMMA CausesStay ==
    ASSUME AInv, Kept(runs, runs'), versions' = versions,
           \A w \in Workers : staged'[w] = staged[w] \/ staged'[w] = Nothing
    PROVE  CausesKnown' /\ CausesHeld'
<1>1. \A v : Caused(runs, v) => Caused(runs', v)
  BY HealthStays
<1>2. DOMAIN Nothing = {}
  BY DEF Nothing
<1>3. CausesKnown'
  BY <1>1 DEF AInv, CausesKnown
<1>4. CausesHeld'
  BY <1>1, <1>2 DEF AInv, CausesHeld
<1> QED BY <1>3, <1>4

LEMMA CausesFlushed ==
    ASSUME TypeOK, AInv, NEW w \in Workers, NEW i \in Ids,
           NEW old \in Row \cup {Null}, NEW effect \in Pending,
           old # Null => Mine(w, i).row # Null,
           Flush(w, i, old, effect), runs' = runs, versions' = versions,
           \A k \in 1..Len(effect.versions) : Caused(runs, effect.versions[k])
    PROVE  CausesKnown' /\ CausesHeld'
<1> DEFINE mine == Mine(w, i).versions
           new  == effect.versions
<1>1. /\ \A v \in Workers \ {w} : staged'[v] = staged[v]
      /\ DOMAIN staged'[w] = DOMAIN staged[w] \cup {i}
      /\ \A j \in DOMAIN staged[w] \ {i} : staged'[w][j] = staged[w][j]
      /\ staged'[w][i].versions = mine \o new
  BY FlushType
<1>2. mine \in Seq(Version) /\ new \in Seq(Version)
  BY MineType DEF Pending
<1>3. \A k \in 1..Len(mine) : Caused(runs, mine[k])
  BY DEF Mine, AInv, CausesHeld
<1> HIDE DEF mine
<1>4. ASSUME NEW k \in 1..Len(mine \o new) PROVE Caused(runs, (mine \o new)[k])
  <2>1. CASE k <= Len(mine)
    BY <2>1, <1>2, <1>3, ConcatProperties
  <2>2. CASE ~(k <= Len(mine))
    <3>1. /\ k - Len(mine) \in 1..Len(new)
          /\ (mine \o new)[k] = new[k - Len(mine)]
      BY <2>2, <1>2, ConcatProperties
    <3> QED BY <3>1
  <2> QED BY <2>1, <2>2
<1>5. CausesHeld'
  <2> SUFFICES ASSUME NEW v \in Workers, NEW j \in DOMAIN staged'[v],
                      NEW k \in 1..Len(staged'[v][j].versions)
               PROVE  Caused(runs', staged'[v][j].versions[k])
    BY DEF CausesHeld
  <2>1. CASE v = w /\ j = i
    BY <2>1, <1>1, <1>4
  <2>2. CASE ~(v = w /\ j = i)
    <3>1. j \in DOMAIN staged[v] /\ staged'[v][j] = staged[v][j]
      BY <2>2, <1>1
    <3> QED BY <3>1 DEF AInv, CausesHeld
  <2> QED BY <2>1, <2>2
<1>6. CausesKnown'
  BY DEF AInv, CausesKnown
<1> QED BY <1>5, <1>6

LEMMA CausesPublished ==
    ASSUME TypeOK, AInv, NEW w \in Workers, Publish(w), runs' = runs,
           \A v \in Workers : staged'[v] = staged[v] \/ staged'[v] = Nothing
    PROVE  CausesKnown' /\ CausesHeld'
<1>1. CausesKnown'
  <2> SUFFICES ASSUME NEW i \in Ids, NEW k \in 1..Len(versions'[i])
               PROVE  Caused(runs, versions'[i][k])
    BY DEF CausesKnown
  <2> DEFINE mine == Mine(w, i).versions
  <2>1. versions'[i] = versions[i] \o mine
    BY DEF Publish
  <2>2. versions[i] \in Seq(Version) /\ mine \in Seq(Version)
    BY MineType DEF TypeOK, DatabaseTypeOK
  <2>3. /\ \A n \in 1..Len(versions[i]) : Caused(runs, versions[i][n])
        /\ \A n \in 1..Len(mine) : Caused(runs, mine[n])
    BY DEF AInv, CausesKnown, CausesHeld, Mine
  <2> HIDE DEF mine
  <2>4. CASE k <= Len(versions[i])
    <3>1. k \in 1..Len(versions[i]) /\ versions'[i][k] = versions[i][k]
      BY <2>1, <2>2, <2>4, ConcatProperties
    <3> QED BY <3>1, <2>3
  <2>5. CASE ~(k <= Len(versions[i]))
    <3>1. /\ k - Len(versions[i]) \in 1..Len(mine)
          /\ versions'[i][k] = mine[k - Len(versions[i])]
      BY <2>1, <2>2, <2>5, ConcatProperties
    <3> QED BY <3>1, <2>3
  <2> QED BY <2>4, <2>5
<1>2. DOMAIN Nothing = {}
  BY DEF Nothing
<1>3. CausesHeld'
  BY <1>2 DEF AInv, CausesHeld
<1> QED BY <1>1, <1>3

LEMMA QuietStep ==
    ASSUME IInv, AInv, NEW w \in Workers, OthersStay(w), runs' = runs, raw \subseteq raw',
           \A v \in Workers : cur'[v] = cur[v] \/ cur'[v] = 0,
           CausesKnown', CausesHeld', Working(w)'
    PROVE  AInv'
<1>1. Kept(runs, runs')
  BY DEF Kept
<1>2. \A v \in Workers \ {w} : pc[v] \in Open => runs'[cur[v]].status = "running"
  BY DEF AInv, AllWorking, Working
<1>3. AllWorking'
  BY <1>1, <1>2, OthersWork DEF AllWorking
<1>4. OkFed'
  BY DEF AInv, OkFed
<1>5. OneRunEach'
  BY DEF AInv, OneRunEach
<1> QED BY <1>3, <1>4, <1>5 DEF AInv

-------------------------------------------------------------------------------
(***************************************************************************)
(* The steps of a run between its fetch and its end.                       *)
(***************************************************************************)
LEMMA FetchCaused ==
    ASSUME IInv, AInv, NEW w \in Workers, Fetch(w) \/ Archive(w)
    PROVE  AInv'
<1>1. SessionTypeOK
  BY DEF IInv, TypeOK
<1>2. /\ OthersStay(w) /\ runs' = runs /\ cur' = cur /\ versions' = versions
      /\ staged' = staged /\ raw \subseteq raw' /\ pos' = pos /\ failed' = failed
  BY <1>1 DEF Fetch, Archive, database, rows, OthersStay, SessionTypeOK
<1>3. pc[w] \in {"fetch", "archive"} /\ pc'[w] \in {"archive", "items"}
  BY <1>1 DEF Fetch, Archive, SessionTypeOK
<1>4. Working(w)
  BY DEF AInv, AllWorking
<1>5. runs'[cur'[w]].status = "running" /\ pos'[w] = 1 /\ failed'[w] = 0
  BY <1>2, <1>3, <1>4 DEF Working, Open
<1>6. feed'[w] \in Seq(Item)
  BY <1>1, IngestAssumption DEF Fetch, Archive, SessionTypeOK
<1>7. Passed(feed'[w], 1) = 0 /\ 1 <= Len(feed'[w]) + 1
  BY <1>6, PassedCounts
<1>8. Working(w)'
  BY <1>3, <1>5, <1>7 DEF Working
<1>9. Kept(runs, runs')
  BY <1>2 DEF Kept
<1>10. CausesKnown' /\ CausesHeld'
  BY <1>2, <1>9, CausesStay
<1> QED BY <1>2, <1>8, <1>10, QuietStep

LEMMA PassOverCaused ==
    ASSUME IInv, AInv, NEW w \in Workers, PassOver(w)
    PROVE  AInv'
<1>1. SessionTypeOK
  BY DEF IInv, TypeOK
<1>2. /\ OthersStay(w) /\ runs' = runs /\ cur' = cur /\ versions' = versions
      /\ staged' = staged /\ raw' = raw /\ feed' = feed /\ pc' = pc
  BY <1>1 DEF PassOver, database, rows, OthersStay, SessionTypeOK
<1> DEFINE f == feed[w]
           p == pos[w]
<1>3. /\ pc[w] = "items" /\ f \in Seq(Item) /\ p \in 1..Len(f) /\ f[p].kind # "listing"
      /\ pos'[w] = p + 1
      /\ failed'[w] = failed[w] + IF f[p].kind = "stub" THEN 1 ELSE 0
      /\ failed[w] \in Nat
  BY <1>1 DEF PassOver, AtItem, SessionTypeOK
<1>4. Working(w)
  BY DEF AInv, AllWorking
<1>5. f[p].kind \in {"project", "stub"}
  BY <1>3 DEF Item, ListingItem
<1>6. ASSUME NoListing(f) PROVE failed'[w] + Passed(f, p + 1) = p
  <2>1. failed[w] + Passed(f, p) = p - 1
    BY <1>3, <1>4, <1>6 DEF Working
  <2>2. Passed(f, p) \in Nat
        /\ Passed(f, p + 1) = Passed(f, p) + IF f[p].kind = "project" THEN 1 ELSE 0
    BY <1>3, PassedCounts
  <2>3. p \in Int
    BY <1>1 DEF SessionTypeOK
  <2> HIDE DEF f, p
  <2>4. CASE f[p].kind = "stub"
    BY <1>3, <2>1, <2>2, <2>3, <2>4
  <2>5. CASE f[p].kind = "project"
    BY <1>3, <2>1, <2>2, <2>3, <2>5
  <2> QED BY <1>5, <2>4, <2>5
<1>7. Working(w)'
  BY <1>2, <1>3, <1>4, <1>6 DEF Working, Open
<1>8. Kept(runs, runs')
  BY <1>2 DEF Kept
<1>9. CausesKnown' /\ CausesHeld'
  BY <1>2, <1>8, CausesStay
<1> QED BY <1>2, <1>7, <1>9, QuietStep

LEMMA ReadItemCaused ==
    ASSUME IInv, AInv, NEW w \in Workers, ReadItem(w)
    PROVE  AInv'
<1>1. SessionTypeOK
  BY DEF IInv, TypeOK
<1>2. /\ OthersStay(w) /\ runs' = runs /\ cur' = cur /\ versions' = versions
      /\ staged' = staged /\ raw' = raw
  BY <1>1 DEF ReadItem, database, rows, OthersStay, SessionTypeOK
<1>3. pc[w] = "items" /\ pc'[w] = "write"
  BY <1>1 DEF ReadItem, AtItem, SessionTypeOK
<1>4. Working(w)'
  BY <1>2, <1>3 DEF AInv, AllWorking, Working, Open
<1>5. Kept(runs, runs')
  BY <1>2 DEF Kept
<1>6. CausesKnown' /\ CausesHeld'
  BY <1>2, <1>5, CausesStay
<1> QED BY <1>2, <1>4, <1>6, QuietStep

(***************************************************************************)
(* A listing that was written, or lost, was in the feed.                   *)
(***************************************************************************)
LEMMA NextItemWorks ==
    ASSUME IInv, AInv, NEW w \in Workers, pc[w] = "write", NextItem(w),
           UNCHANGED <<runs, cur, feed>>,
           \A v \in Workers \ {w} : failed'[v] = failed[v]
    PROVE  OthersStay(w) /\ Working(w)'
<1>1. SessionTypeOK
  BY DEF IInv, TypeOK
<1>2. OthersStay(w) /\ pc'[w] = "items" /\ pos'[w] = pos[w] + 1 /\ feed' = feed
  BY <1>1 DEF NextItem, OthersStay, SessionTypeOK
<1>3. /\ pos[w] \in 1..Len(feed[w]) /\ feed[w][pos[w]].kind = "listing"
      /\ Len(feed[w]) \in Nat
  BY <1>1 DEF IInv, InHand, Hand, SessionTypeOK
<1>4. ~NoListing(feed[w])
  BY <1>3 DEF NoListing
<1>5. runs'[cur'[w]].status = "running"
  BY DEF AInv, AllWorking, Working, Open
<1>6. pos'[w] <= Len(feed'[w]) + 1
  BY <1>2, <1>3
<1>7. Working(w)'
  BY <1>2, <1>4, <1>5, <1>6 DEF Working
<1> QED BY <1>2, <1>7

LEMMA LoseItemCaused ==
    ASSUME IInv, AInv, NEW w \in Workers, pc[w] = "write", LoseItem(w)
    PROVE  AInv'
<1>1. /\ NextItem(w) /\ UNCHANGED <<runs, cur, feed>>
      /\ versions' = versions /\ staged' = staged /\ raw' = raw
  BY DEF LoseItem, database, rows
<1>2. OthersStay(w) /\ Working(w)'
  BY <1>1, NextItemWorks DEF LoseItem, IInv, TypeOK, SessionTypeOK
<1>3. Kept(runs, runs')
  BY <1>1 DEF Kept
<1>4. CausesKnown' /\ CausesHeld'
  BY <1>1, <1>3, CausesStay
<1> QED BY <1>1, <1>2, <1>4, QuietStep

LEMMA WriteItemCaused ==
    ASSUME IInv, AInv, NEW w \in Workers, WriteItem(w)
    PROVE  AInv'
<1> DEFINE item   == feed[w][pos[w]]
           i      == item.id
           old    == view[w][i]
           run    == cur[w]
           t      == asof[w]
           effect == Observe(old, item, run, t)
<1>1. TypeOK
  BY DEF IInv
<1>2. /\ pc[w] = "write" /\ pos[w] \in 1..Len(feed[w]) /\ DOMAIN view[w] = {i}
      /\ old # Null => Mine(w, i).row # Null
  BY DEF WriteItem, IInv, InHand, Hand
<1>3. item \in ListingItem /\ i \in Ids
  <2>1. item \in Item /\ item.kind = "listing"
    BY <1>1, <1>2 DEF IInv, InHand, Hand, TypeOK, SessionTypeOK
  <2> QED BY <2>1 DEF Item, ListingItem
<1>4. old \in Row \cup {Null}
  BY <1>1, <1>2 DEF TypeOK, SessionTypeOK, Partial
<1>5. /\ Flush(w, i, old, effect) /\ NextItem(w) /\ UNCHANGED <<runs, cur, feed, failed>>
      /\ raw' = raw /\ versions' = versions
  BY DEF WriteItem, database, rows
<1>6. run \in Nat /\ t \in Nat /\ effect = Observe(old, item, run, t)
  BY <1>1 DEF TypeOK, SessionTypeOK
<1>7. OthersStay(w) /\ Working(w)'
  BY <1>2, <1>5, NextItemWorks
<1> HIDE DEF item, i, old, effect, run, t
<1>8. effect \in Pending
  BY <1>3, <1>4, <1>6, ObserveType
<1>9. \A k \in 1..Len(effect.versions) : Caused(runs, effect.versions[k])
  BY <1>3, <1>4, <1>6, ObservedKindsOnly DEF Caused
<1>10. CausesKnown' /\ CausesHeld'
  BY <1>1, <1>2, <1>3, <1>4, <1>5, <1>8, <1>9, CausesFlushed
<1> QED BY <1>5, <1>7, <1>10, QuietStep

LEMMA CommitItemsCaused ==
    ASSUME IInv, AInv, NEW w \in Workers, CommitItems(w)
    PROVE  AInv'
<1>1. TypeOK /\ SessionTypeOK
  BY DEF IInv, TypeOK
<1>2. /\ OthersStay(w) /\ Publish(w) /\ runs' = runs /\ cur' = cur /\ raw' = raw
      /\ feed' = feed /\ pos' = pos /\ failed' = failed
      /\ \A v \in Workers : staged'[v] = staged[v] \/ staged'[v] = Nothing
  BY <1>1 DEF CommitItems, OthersStay, SessionTypeOK
<1>3. /\ pc[w] = "items" /\ pc'[w] = "close"
      /\ pos[w] > Len(feed[w]) /\ pos[w] \in Nat /\ Len(feed[w]) \in Nat
  BY <1>1 DEF CommitItems, SessionTypeOK
<1>4. Working(w)
  BY DEF AInv, AllWorking
<1>5. pos[w] = Len(feed[w]) + 1
  BY <1>3, <1>4 DEF Working
<1>6. Archived(w)' \subseteq raw'
  BY <1>2, <1>3 DEF IInv, ArchivedFirst, First, Archived
<1>7. runs'[cur'[w]].status = "running"
  BY <1>2, <1>3, <1>4 DEF Working, Open
<1>8. Working(w)'
  BY <1>2, <1>3, <1>4, <1>5, <1>6, <1>7 DEF Working
<1>9. CausesKnown' /\ CausesHeld'
  BY <1>1, <1>2, CausesPublished
<1> QED BY <1>2, <1>8, <1>9, QuietStep

-------------------------------------------------------------------------------
(***************************************************************************)
(* The steps of a sweep.                                                   *)
(***************************************************************************)
LEMMA SweepSelectCaused ==
    ASSUME IInv, AInv, NEW w \in Workers, SweepSelect(w)
    PROVE  AInv'
<1> DEFINE S == Stale(now - StaleDays)
<1>1. SessionTypeOK
  BY DEF IInv, TypeOK
<1>2. /\ OthersStay(w) /\ runs' = runs /\ cur' = cur /\ raw' = raw /\ versions' = versions
      /\ staged' = staged
  BY <1>1 DEF SweepSelect, database, rows, OthersStay, SessionTypeOK
<1>3. /\ pc'[w] = "sweep" /\ asof'[w] = now
      /\ view'[w] = [i \in S |-> listings[i]]
  BY <1>1 DEF SweepSelect, SessionTypeOK
<1>4. Healthy(runs', asof'[w] - StaleDays)
  BY <1>2, <1>3 DEF SweepSelect, HealthySince, Healthy
<1>5. \A i \in S : listings[i].seen < now - StaleDays /\ listings[i] \in Row
  BY DEF Stale, IInv, TypeOK, DatabaseTypeOK
<1>6. \A i \in S : now - StaleDays > listings[i].seen
  <2> SUFFICES ASSUME NEW i \in S PROVE now - StaleDays > listings[i].seen
    OBVIOUS
  <2>1. now \in Int /\ StaleDays \in Int /\ listings[i].seen \in Int
    BY <1>5, IngestAssumption DEF IInv, TypeOK, Row
  <2> QED BY <1>5, <2>1
<1> HIDE DEF S
<1>7. Working(w)'
  BY <1>3, <1>4, <1>6 DEF Working, Open
<1>8. Kept(runs, runs')
  BY <1>2 DEF Kept
<1>9. CausesKnown' /\ CausesHeld'
  BY <1>2, <1>8, CausesStay
<1> QED BY <1>2, <1>7, <1>9, QuietStep

LEMMA SweepWriteCaused ==
    ASSUME IInv, AInv, NEW w \in Workers, NEW i \in Ids, SweepWrite(w, i)
    PROVE  AInv'
<1> DEFINE old    == view[w][i]
           t      == asof[w]
           cutoff == asof[w] - StaleDays
           effect == Removal(old, t, cutoff)
<1>1. TypeOK /\ SessionTypeOK
  BY DEF IInv, TypeOK
<1>2. pc[w] = "sweep" /\ i \in DOMAIN view[w] /\ old # Null /\ Mine(w, i).row # Null
  BY DEF SweepWrite, IInv, InHand, Hand
<1>3. old \in Row
  BY <1>1, <1>2 DEF SessionTypeOK, Partial
<1>4. t \in Nat /\ cutoff \in Int
  BY <1>1, IngestAssumption DEF SessionTypeOK
<1>5. /\ Flush(w, i, old, effect) /\ runs' = runs /\ raw' = raw /\ versions' = versions
      /\ pc' = pc /\ cur' = cur /\ asof' = asof
      /\ OthersStay(w) /\ DOMAIN view'[w] = DOMAIN view[w] \ {i}
      /\ \A j \in DOMAIN view'[w] : view'[w][j] = view[w][j]
  BY <1>1 DEF SweepWrite, database, rows, OthersStay, SessionTypeOK
<1>6. Working(w)
  BY DEF AInv, AllWorking
<1>7. Healthy(runs, cutoff) /\ cutoff > old.seen
  BY <1>2, <1>6 DEF Working
<1>8. Working(w)'
  BY <1>2, <1>5, <1>6 DEF Working, Open
<1>9. effect = Removal(old, t, cutoff)
  OBVIOUS
<1> HIDE DEF old, t, cutoff, effect
<1>10. effect \in Pending
  BY <1>3, <1>4, <1>9, RemovalType
<1>11. effect.versions = <<[run |-> Null, kind |-> "removed", seen |-> old.seen,
                            cutoff |-> cutoff]>>
  BY <1>9 DEF Removal
<1>12. \A k \in 1..Len(effect.versions) : Caused(runs, effect.versions[k])
  BY <1>7, <1>11 DEF Caused
<1>13. CausesKnown' /\ CausesHeld'
  BY <1>1, <1>2, <1>3, <1>5, <1>10, <1>12, CausesFlushed
<1> QED BY <1>5, <1>8, <1>13, QuietStep

-------------------------------------------------------------------------------
(***************************************************************************)
(* The ends of a session: without a commit, with one, and with a run that  *)
(* closes.                                                                 *)
(***************************************************************************)
LEMMA Ended ==
    ASSUME IInv, NEW w \in Workers, EndSession(w)
    PROVE  /\ OthersStay(w)
           /\ \A v \in Workers : staged'[v] = staged[v] \/ staged'[v] = Nothing
           /\ \A v \in Workers \ {w} : cur'[v] = cur[v]
           /\ cur'[w] = 0
           /\ Working(w)'
<1>1. SessionTypeOK
  BY DEF IInv, TypeOK
<1>2. /\ OthersStay(w) /\ cur'[w] = 0
      /\ \A v \in Workers : staged'[v] = staged[v] \/ staged'[v] = Nothing
      /\ pc'[w] = "idle" /\ pos'[w] = 1 /\ failed'[w] = 0
  BY <1>1 DEF EndSession, OthersStay, SessionTypeOK
<1>3. Working(w)'
  BY <1>2 DEF Working, Open
<1> QED BY <1>2, <1>3 DEF OthersStay

LEMMA LeaveCaused ==
    ASSUME IInv, AInv, NEW w \in Workers, EndSession(w), UNCHANGED database
    PROVE  AInv'
<1>1. runs' = runs /\ raw' = raw /\ versions' = versions
  BY DEF database
<1>2. Kept(runs, runs')
  BY <1>1 DEF Kept
<1>3. CausesKnown' /\ CausesHeld'
  BY <1>1, <1>2, Ended, CausesStay
<1> QED BY <1>1, <1>3, Ended, QuietStep

LEMMA SweepCommitCaused ==
    ASSUME IInv, AInv, NEW w \in Workers, SweepCommit(w)
    PROVE  AInv'
<1>1. TypeOK /\ Publish(w) /\ EndSession(w) /\ runs' = runs /\ raw' = raw
  BY DEF SweepCommit, IInv
<1>2. CausesKnown' /\ CausesHeld'
  BY <1>1, Ended, CausesPublished
<1> QED BY <1>1, <1>2, Ended, QuietStep

LEMMA FinishCaused ==
    ASSUME IInv, AInv, NEW w \in Workers, pc[w] \in Open, NEW status, NEW items,
           FinishRun(w, status, items), EndSession(w), raw' = raw, versions' = versions,
           status = "ok" => \E x \in raw : x[1] = cur[w] /\ x[2].kind = "listing"
    PROVE  AInv'
<1>1. runs \in Seq(Run) /\ cur[w] \in 1..Len(runs) /\ runs[cur[w]].status = "running"
  BY DEF IInv, TypeOK, DatabaseTypeOK, OpenRuns, OpenRun, AInv, AllWorking, Working
<1>2. /\ DOMAIN runs' = DOMAIN runs /\ runs'[cur[w]].status = status
      /\ \A r \in DOMAIN runs \ {cur[w]} : runs'[r] = runs[r]
  BY <1>1 DEF FinishRun
<1>3. DOMAIN runs = 1..Len(runs) /\ 1..Len(runs') = 1..Len(runs)
  <2>1. DOMAIN runs = 1..Len(runs) /\ DOMAIN runs' = 1..Len(runs')
    BY <1>1, ExceptSeq DEF FinishRun
  <2> QED BY <1>2, <2>1
<1>4. Kept(runs, runs')
  BY <1>1, <1>2, <1>3 DEF Kept
<1>5. \A v \in Workers \ {w} : pc[v] \in Open => runs'[cur[v]].status = "running"
  <2> SUFFICES ASSUME NEW v \in Workers \ {w}, pc[v] \in Open
               PROVE  runs'[cur[v]].status = "running"
    OBVIOUS
  <2>1. cur[v] \in 1..Len(runs) /\ runs[cur[v]].status = "running"
    BY DEF IInv, OpenRuns, OpenRun, AInv, AllWorking, Working
  <2>2. cur[v] # cur[w]
    BY <1>1, <2>1 DEF AInv, OneRunEach
  <2> QED BY <1>2, <1>3, <2>1, <2>2
<1>6. OthersStay(w) /\ Working(w)'
  BY Ended
<1>7. AllWorking'
  BY <1>4, <1>5, <1>6, OthersWork DEF AllWorking
<1>8. CausesKnown' /\ CausesHeld'
  BY <1>4, Ended, CausesStay
<1>9. OneRunEach'
  BY Ended DEF AInv, OneRunEach
<1>10. OkFed'
  <2> SUFFICES ASSUME NEW r \in 1..Len(runs), runs'[r].status = "ok"
               PROVE  \E x \in raw : x[1] = r /\ x[2].kind = "listing"
    BY <1>3 DEF OkFed
  <2>1. CASE r = cur[w]
    BY <2>1, <1>2
  <2>2. CASE r # cur[w]
    BY <2>2, <1>2, <1>3 DEF AInv, OkFed
  <2> QED BY <2>1, <2>2
<1> QED BY <1>7, <1>8, <1>9, <1>10 DEF AInv

(***************************************************************************)
(* A run that closes ok had a listing in its feed.                         *)
(***************************************************************************)
LEMMA CloseCaused ==
    ASSUME IInv, AInv, NEW w \in Workers, Close(w)
    PROVE  AInv'
<1> DEFINE f      == feed[w]
           status == Classify(Len(f), failed[w], Skipped(f), TrailingSizes)
<1>1. pc[w] = "close" /\ f \in Seq(Item) /\ Len(f) \in Nat /\ failed[w] \in Nat
  BY DEF Close, IInv, TypeOK, SessionTypeOK
<1>2. Working(w)
  BY DEF AInv, AllWorking
<1>3. ASSUME NoListing(f) PROVE status # "ok"
  <2>1. failed[w] + Passed(f, pos[w]) = pos[w] - 1 /\ pos[w] = Len(f) + 1
    BY <1>1, <1>2, <1>3 DEF Working
  <2>2. Passed(f, Len(f) + 1) = Skipped(f) /\ Skipped(f) \in Nat
    BY <1>1, PassedCounts, SkippedType
  <2>3. Len(f) = failed[w] + Skipped(f)
    BY <1>1, <2>1, <2>2
  <2> QED BY <1>1, <2>2, <2>3, NothingParsed
<1>4. ASSUME status = "ok"
      PROVE  \E x \in raw : x[1] = cur[w] /\ x[2].kind = "listing"
  <2>1. PICK k \in 1..Len(f) : f[k].kind = "listing"
    BY <1>3, <1>4 DEF NoListing
  <2>2. <<cur[w], f[k]>> \in raw
    BY <1>1, <1>2 DEF Working, Archived
  <2> QED BY <2>1, <2>2
<1>5. /\ FinishRun(w, status, Len(f)) /\ EndSession(w)
      /\ raw' = raw /\ versions' = versions /\ pc[w] \in Open
  BY DEF Close, rows, Open
<1> HIDE DEF f, status
<1> QED BY <1>4, <1>5, FinishCaused

LEMMA FailureCaused ==
    ASSUME IInv, AInv, NEW w \in Workers, FetchFails(w) \/ Abort(w)
    PROVE  AInv'
<1>1. CASE FetchFails(w)
  BY <1>1, FinishCaused DEF FetchFails, rows, Open
<1>2. CASE Abort(w)
  BY <1>2, FinishCaused DEF Abort, rows, Open
<1> QED BY <1>1, <1>2

LEMMA StartCaused ==
    ASSUME IInv, AInv, NEW w \in Workers, Start(w)
    PROVE  AInv'
<1> DEFINE n == Len(runs) + 1
<1>1. SessionTypeOK /\ runs \in Seq(Run) /\ Len(runs) \in Nat
  BY DEF IInv, TypeOK, DatabaseTypeOK
<1>2. /\ Len(runs') = n /\ runs'[n].status = "running"
      /\ \A r \in 1..Len(runs) : runs'[r] = runs[r]
  BY <1>1 DEF Start
<1>3. /\ OthersStay(w) /\ raw' = raw /\ versions' = versions /\ staged' = staged
      /\ pc[w] = "idle" /\ pc'[w] = "fetch" /\ cur'[w] = n
      /\ pos' = pos /\ failed' = failed
      /\ \A v \in Workers \ {w} : cur'[v] = cur[v]
  BY <1>1 DEF Start, rows, OthersStay, SessionTypeOK
<1>4. Kept(runs, runs')
  BY <1>1, <1>2 DEF Kept
<1>5. \A v \in Workers : cur[v] \in 0..Len(runs) /\ (pc[v] \in Open => cur[v] # 0)
  BY <1>1 DEF IInv, OpenRuns, OpenRun
<1>6. \A v \in Workers \ {w} : pc[v] \in Open => runs'[cur[v]].status = "running"
  BY <1>1, <1>2, <1>5 DEF AInv, AllWorking, Working
<1>7. Working(w)'
  BY <1>2, <1>3 DEF AInv, AllWorking, Working
<1>8. AllWorking'
  BY <1>3, <1>4, <1>6, <1>7, OthersWork DEF AllWorking
<1>9. CausesKnown' /\ CausesHeld'
  BY <1>3, <1>4, CausesStay
<1>10. OneRunEach'
  BY <1>1, <1>3, <1>5 DEF AInv, OneRunEach
<1>11. OkFed'
  <2> SUFFICES ASSUME NEW r \in 1..n, runs'[r].status = "ok"
               PROVE  \E x \in raw : x[1] = r /\ x[2].kind = "listing"
    BY <1>2, <1>3 DEF OkFed
  <2>1. r \in 1..Len(runs)
    BY <1>1, <1>2
  <2> QED BY <1>2, <2>1 DEF AInv, OkFed
<1> QED BY <1>8, <1>9, <1>10, <1>11 DEF AInv

LEMMA StillCaused ==
    ASSUME AInv, UNCHANGED <<database, session>>
    PROVE  AInv'
<1> USE DEF database, rows, session
<1>1. OkFed' /\ OneRunEach'
  BY DEF AInv, OkFed, OneRunEach
<1>2. CausesKnown' /\ CausesHeld'
  BY DEF AInv, CausesKnown, CausesHeld
<1>3. AllWorking'
  BY DEF AInv, AllWorking, Working, Archived
<1> QED BY <1>1, <1>2, <1>3 DEF AInv

-------------------------------------------------------------------------------
LEMMA NextAInv == ASSUME IInv, AInv, [Next]_vars PROVE AInv'
<1>1. CASE Tick \/ UNCHANGED vars
  BY <1>1, StillCaused DEF Tick, vars
<1>2. ASSUME NEW w \in Workers, Advance(w) PROVE AInv'
  <2>1. CASE Fetch(w) \/ Archive(w)
    BY <2>1, FetchCaused
  <2>2. CASE PassOver(w)
    BY <2>2, PassOverCaused
  <2>3. CASE ReadItem(w)
    BY <2>3, ReadItemCaused
  <2>4. CASE WriteItem(w)
    BY <2>4, WriteItemCaused
  <2>5. CASE InsertCollides(w) \/ DeadlockVictim(w)
    BY <2>5, LoseItemCaused DEF InsertCollides, DeadlockVictim
  <2>6. CASE CommitItems(w)
    BY <2>6, CommitItemsCaused
  <2>7. CASE Close(w)
    BY <2>7, CloseCaused
  <2>8. CASE \E i \in Ids : SweepWrite(w, i)
    BY <2>8, SweepWriteCaused
  <2>9. CASE SweepCommit(w)
    BY <2>9, SweepCommitCaused
  <2>10. CASE SweepVictim(w)
    BY <2>10, LeaveCaused DEF SweepVictim, SweepFails
  <2> QED BY <1>2, <2>1, <2>2, <2>3, <2>4, <2>5, <2>6, <2>7, <2>8, <2>9, <2>10
          DEF Advance
<1>3. ASSUME NEW w \in Workers,
             \/ Start(w) \/ FetchFails(w) \/ FailItem(w) \/ Abort(w)
             \/ SweepSelect(w) \/ SweepFails(w) \/ Crash(w) \/ EscapedError(w)
      PROVE  AInv'
  <2>1. CASE Start(w)
    BY <2>1, StartCaused
  <2>2. CASE FetchFails(w) \/ Abort(w)
    BY <2>2, FailureCaused
  <2>3. CASE FailItem(w)
    BY <2>3, LoseItemCaused DEF FailItem
  <2>4. CASE SweepSelect(w)
    BY <2>4, SweepSelectCaused
  <2>5. CASE SweepFails(w) \/ Crash(w) \/ EscapedError(w)
    BY <2>5, LeaveCaused DEF SweepFails, Crash, EscapedError, Fault
  <2> QED BY <1>3, <2>1, <2>2, <2>3, <2>4, <2>5
<1> QED BY <1>1, <1>2, <1>3 DEF Next

LEMMA InitAInv == Init => AInv
<1> SUFFICES ASSUME Init PROVE AInv
  OBVIOUS
<1>1. OkFed /\ CausesKnown /\ CausesHeld /\ OneRunEach
  BY DEF Init, OkFed, CausesKnown, CausesHeld, Nothing, OneRunEach
<1>2. AllWorking
  BY DEF Init, AllWorking, Working, Open
<1> QED BY <1>1, <1>2 DEF AInv

LEMMA CauseInvariance == Spec => []AInv
<1>1. IInv /\ AInv /\ [Next]_vars => AInv'
  BY NextAInv
<1> QED BY InitAInv, Invariance, <1>1, PTL DEF Spec

(***************************************************************************)
(* A dead scraper removes nothing, for any feeds, sessions and sweeps that *)
(* overlap: behind every removal is a run that closed ok after the sweep's *)
(* cutoff, and so after the listing was last seen as far as the sweep      *)
(* could know, and that had a listing in its feed.                         *)
(***************************************************************************)
THEOREM RemovalsHaveCause == Spec => []RemovalsAuthorised
<1>1. ASSUME AInv PROVE RemovalsAuthorised
  <2> SUFFICES ASSUME NEW i \in Ids, NEW k \in 1..Len(versions[i]),
                      versions[i][k].kind = "removed"
               PROVE  \E r \in 1..Len(runs) :
                         /\ runs[r].status = "ok"
                         /\ runs[r].finished > versions[i][k].cutoff
                         /\ versions[i][k].cutoff > versions[i][k].seen
                         /\ \E x \in raw : x[1] = r /\ x[2].kind = "listing"
    BY DEF RemovalsAuthorised
  <2>1. /\ versions[i][k].cutoff > versions[i][k].seen
        /\ Healthy(runs, versions[i][k].cutoff)
    BY <1>1 DEF AInv, CausesKnown, Caused
  <2> QED BY <1>1, <2>1 DEF Healthy, AInv, OkFed
<1> QED BY <1>1, CauseInvariance, PTL
===============================================================================
