--------------------------- MODULE MotivationProofs ---------------------------
(***************************************************************************)
(* Theorems about Motivation, for any listings, batches and bounds.  For   *)
(* any number of sessions, of releases and of failures: no column of a     *)
(* stored reading is made up.  For one session at a time: the columns of a *)
(* row are one answer.  For one session at a time under one prompt         *)
(* version, with the failures each of them names: no listing is in two     *)
(* open batches, no batch is forgotten, and the table keeps the promise of *)
(* ExtractionCache.                                                        *)
(***************************************************************************)
EXTENDS Motivation, TLAPS

(***************************************************************************)
(* The batches are a sequence to which some are appended.                  *)
(***************************************************************************)
IsSeq(s) == \E S : s \in Seq(S)

LEMMA AppendSeq ==
    ASSUME NEW s, IsSeq(s), NEW x
    PROVE  /\ IsSeq(Append(s, x))
           /\ Len(s) \in Nat /\ Len(Append(s, x)) = Len(s) + 1
           /\ \A i \in 1..Len(s) : Append(s, x)[i] = s[i]
           /\ Append(s, x)[Len(s) + 1] = x
<1>1. PICK S : s \in Seq(S)
  BY DEF IsSeq
<1>2. s \in Seq(S \cup {x})
  BY <1>1
<1>3. Append(s, x) \in Seq(S \cup {x})
  BY <1>2
<1> QED BY <1>1, <1>2, <1>3 DEF IsSeq

-------------------------------------------------------------------------------
(***************************************************************************)
(* An answer to a request about listing i said this in column c.  A row is *)
(* given if all its columns are, and if the batch it names exists.         *)
(***************************************************************************)
Given(i, c, value) ==
    \/ value = Cleared[c]
    \/ \E b \in 1..Len(batches) :
         Answered(i, b) /\ value = batches[b].results[i].reading[c]

RowGiven(i, row) ==
    /\ Fields \cup {"batch"} \subseteq DOMAIN row
    /\ row.batch \in 1..Len(batches)
    /\ \A c \in Fields : Given(i, c, row[c])

RowsGiven == \A i \in Ids : \A v \in Versions : rows[i][v] # Null => RowGiven(i, rows[i][v])

(***************************************************************************)
(* What a session holds: rows that are given, as the stored ones are by    *)
(* now, and which the batch it is storing asked about.  Holding some, it   *)
(* is not idle, so that no release happens before it writes them.          *)
(***************************************************************************)
Holds(w) ==
    /\ todo[w] \subseteq 1..Len(batches)
    /\ DOMAIN view[w] # {} => /\ pc[w] \in {"store", "record", "score"}
                              /\ at[w] \in 1..Len(batches)
    /\ \A i \in DOMAIN view[w] \cap Ids :
         view[w][i] # Null => RowGiven(i, view[w][i]) /\ RowGiven(i, Current(i))
    /\ pc[w] \in {"store", "score"} /\ DOMAIN view[w] # {} =>
         Ended(at[w]) /\ DOMAIN view[w] \subseteq DOMAIN batches[at[w]].texts
    /\ pc[w] = "score" => Storable(view[w])

BatchShape(b) == /\ DOMAIN b = {"version", "texts", "results"}
                 /\ b.results # None => DOMAIN b.results = DOMAIN b.texts
                 /\ \A i \in DOMAIN b.results :
                       /\ b.results[i].kind \in Kinds
                       /\ b.results[i].kind = "answered" =>
                            DOMAIN b.results[i].reading = Fields

Shape ==
    /\ version \in Versions
    /\ DOMAIN rows = Ids
    /\ \A i \in Ids : DOMAIN rows[i] = Versions
    /\ IsSeq(batches)
    /\ \A b \in 1..Len(batches) : BatchShape(batches[b])
    /\ DOMAIN pc = Workers /\ DOMAIN at = Workers /\ DOMAIN view = Workers
    /\ DOMAIN todo = Workers

MInv == Shape /\ RowsGiven /\ \A w \in Workers : Holds(w)

-------------------------------------------------------------------------------
(***************************************************************************)
(* What a step may do to the batches and to the rows, and to the sessions  *)
(* that do not take it.                                                    *)
(***************************************************************************)
Later ==
    /\ Len(batches) \in Nat /\ Len(batches') \in Nat /\ Len(batches) <= Len(batches')
    /\ \A b \in 1..Len(batches) :
         /\ batches'[b].version = batches[b].version
         /\ batches'[b].texts = batches[b].texts
         /\ Ended(b) => batches'[b].results = batches[b].results

RowsLater ==
    \A i \in Ids : \A v \in Versions :
        rows'[i][v] = rows[i][v] \/ RowGiven(i, rows[i][v])'

Same(w) == /\ pc'[w] = pc[w] /\ at'[w] = at[w] /\ view'[w] = view[w]
           /\ todo'[w] \subseteq todo[w]

LEMMA GivenStays ==
    ASSUME Later
    PROVE  \A i, row : RowGiven(i, row) => RowGiven(i, row)'
<1>1. ASSUME NEW i, NEW c, NEW value, Given(i, c, value) PROVE Given(i, c, value)'
  <2>1. CASE value = Cleared[c]
    BY <2>1 DEF Given
  <2>2. CASE value # Cleared[c]
    <3>1. PICK b \in 1..Len(batches) :
            Answered(i, b) /\ value = batches[b].results[i].reading[c]
      BY <1>1, <2>2 DEF Given
    <3>2. b \in 1..Len(batches')
      BY DEF Later
    <3>3. /\ batches'[b].texts = batches[b].texts
          /\ batches'[b].results = batches[b].results
      BY <3>1 DEF Later, Answered
    <3> QED BY <3>1, <3>2, <3>3 DEF Given, Answered, Ended
  <2> QED BY <2>1, <2>2
<1> QED BY <1>1 DEF RowGiven, Later

LEMMA FrameStep ==
    ASSUME MInv, Shape', Later, RowsLater,
           version' = version \/ \A w \in Workers : DOMAIN view[w] = {},
           \A w \in Workers : Same(w) \/ Holds(w)'
    PROVE  MInv'
<1>1. \A i, row : RowGiven(i, row) => RowGiven(i, row)'
  BY GivenStays
<1>2. RowsGiven'
  <2> SUFFICES ASSUME NEW i \in Ids, NEW v \in Versions, rows'[i][v] # Null
               PROVE  RowGiven(i, rows[i][v])'
    BY DEF RowsGiven
  <2>1. CASE rows'[i][v] = rows[i][v]
    <3>1. RowGiven(i, rows[i][v])
      BY <2>1 DEF MInv, RowsGiven
    <3> QED BY <1>1, <2>1, <3>1
  <2> QED BY <2>1 DEF RowsLater
<1>3. ASSUME NEW w \in Workers, Same(w) PROVE Holds(w)'
  <2>1. Holds(w)
    BY DEF MInv
  <2>2. /\ pc'[w] = pc[w] /\ at'[w] = at[w] /\ view'[w] = view[w]
        /\ todo'[w] \subseteq 1..Len(batches')
        /\ at[w] \in 1..Len(batches) => at[w] \in 1..Len(batches')
    BY <1>3, <2>1 DEF Same, Holds, Later
  <2>3. ASSUME NEW i \in DOMAIN view[w] \cap Ids, view[w][i] # Null
        PROVE  RowGiven(i, view[w][i])' /\ RowGiven(i, Current(i))'
    <3>1. RowGiven(i, view[w][i]) /\ RowGiven(i, Current(i))
      BY <2>1, <2>3 DEF Holds
    <3>2. PICK v \in Versions : v = version /\ v = version'
      BY <2>3 DEF MInv, Shape
    <3>3. rows'[i][v] = rows[i][v] \/ RowGiven(i, rows[i][v])'
      BY <3>2 DEF RowsLater
    <3>4. RowGiven(i, view[w][i])'
      BY <1>1, <2>2, <3>1
    <3>5. RowGiven(i, rows[i][v])'
      BY <1>1, <3>1, <3>2, <3>3 DEF Current
    <3> QED BY <3>2, <3>4, <3>5 DEF Current
  <2>4. DOMAIN view[w] # {} /\ pc[w] \in {"store", "score"} =>
          /\ Ended(at[w])'
          /\ DOMAIN view[w] \subseteq DOMAIN batches'[at[w]].texts
    BY <2>1, <2>2 DEF Holds, Later, Ended
  <2> QED BY <2>1, <2>2, <2>3, <2>4 DEF Holds, Storable
<1> QED BY <1>2, <1>3 DEF MInv

-------------------------------------------------------------------------------
(***************************************************************************)
(* A write: a row that was read is there to be updated, column by column;  *)
(* one that was not is inserted.                                           *)
(***************************************************************************)
LEMMA WrittenGiven ==
    ASSUME Shape, NEW f, NEW new, rows' = Written(f, new), UNCHANGED <<batches, version>>,
           \A i \in DOMAIN f \cap Ids :
               /\ RowGiven(i, new[i])
               /\ f[i] # Null => RowGiven(i, Current(i))
    PROVE  /\ RowsLater
           /\ DOMAIN rows' = Ids /\ \A i \in Ids : DOMAIN rows'[i] = Versions
<1>1. /\ DOMAIN rows' = Ids
      /\ \A i \in Ids : DOMAIN rows'[i] = Versions
  BY DEF Written, Shape
<1>2. ASSUME NEW i \in Ids, NEW v \in Versions
      PROVE  rows'[i][v] = rows[i][v] \/ RowGiven(i, rows[i][v])'
  <2>1. CASE i \notin DOMAIN f \/ v # version
    BY <2>1 DEF Written, Shape
  <2>2. CASE i \in DOMAIN f /\ v = version
    <3>1. RowGiven(i, new[i]) /\ (f[i] # Null => RowGiven(i, Current(i)))
      BY <2>2
    <3>2. rows'[i][v] = IF f[i] = Null THEN new[i]
                        ELSE WriteColumns(rows[i][v], f[i], new[i])
      BY <2>2 DEF Written, Shape
    <3>3. RowGiven(i, rows'[i][v])
      <4>1. CASE f[i] = Null
        BY <3>1, <3>2, <4>1
      <4>2. CASE f[i] # Null
        <5>1. Current(i) = rows[i][v]
          BY <2>2 DEF Current
        <5>2. /\ DOMAIN rows'[i][v] = DOMAIN rows[i][v]
              /\ \A c \in DOMAIN rows[i][v] : rows'[i][v][c] \in {new[i][c], rows[i][v][c]}
          BY <3>2, <4>2 DEF WriteColumns
        <5>3. /\ Fields \cup {"batch"} \subseteq DOMAIN rows[i][v]
              /\ rows[i][v].batch \in 1..Len(batches)
              /\ \A c \in Fields : Given(i, c, rows[i][v][c])
          BY <3>1, <4>2, <5>1 DEF RowGiven
        <5>4. /\ new[i].batch \in 1..Len(batches)
              /\ \A c \in Fields : Given(i, c, new[i][c])
          BY <3>1 DEF RowGiven
        <5>5. rows'[i][v].batch \in 1..Len(batches)
          BY <5>2, <5>3, <5>4
        <5>6. ASSUME NEW c \in Fields PROVE Given(i, c, rows'[i][v][c])
          <6>1. rows'[i][v][c] = new[i][c] \/ rows'[i][v][c] = rows[i][v][c]
            BY <5>2, <5>3
          <6> QED BY <5>3, <5>4, <6>1
        <5> QED BY <5>2, <5>3, <5>5, <5>6 DEF RowGiven
      <4> QED BY <4>1, <4>2
    <3>4. Later
      BY AppendSeq DEF Later, Shape
    <3> QED BY <3>3, <3>4, GivenStays
  <2> QED BY <2>1, <2>2
<1> QED BY <1>1, <1>2 DEF RowsLater

(***************************************************************************)
(* What a session that stores a batch's results is about to write: the     *)
(* answer, if there is one, in every column of the reading.                *)
(***************************************************************************)
LEMMA ResultColumns ==
    ASSUME NEW b \in 1..Len(batches), BatchShape(batches[b]),
           NEW i \in DOMAIN batches[b].results, NEW old
    PROVE  /\ DOMAIN ResultRow(old, b, i) = DOMAIN old
           /\ "status" \in DOMAIN old =>
                ResultRow(old, b, i).status = StatusOf[batches[b].results[i].kind]
           /\ "batch" \in DOMAIN old => ResultRow(old, b, i).batch = b
           /\ "hash" \in DOMAIN old => ResultRow(old, b, i).hash = old.hash
           /\ \A c \in Fields \cap DOMAIN old :
                ResultRow(old, b, i)[c] = IF batches[b].results[i].kind = "answered"
                                          THEN batches[b].results[i].reading[c]
                                          ELSE old[c]
<1> DEFINE r      == batches[b].results[i]
           common == Common(r, b)
           answer == IF r.kind = "answered" THEN r.reading ELSE None
           mid    == With(old, common)
           row    == With(mid, answer)
<1>1. /\ DOMAIN common = {"status", "batch"}
      /\ common.status = StatusOf[r.kind] /\ common.batch = b
  BY DEF Common
<1>2. /\ r.kind = "answered" => answer = r.reading /\ DOMAIN answer = Fields
      /\ r.kind # "answered" => DOMAIN answer = {}
  BY DEF BatchShape, None
<1> HIDE DEF common, answer
<1>3. /\ DOMAIN mid = DOMAIN old
      /\ "status" \in DOMAIN old => mid.status = StatusOf[r.kind]
      /\ "batch" \in DOMAIN old => mid.batch = b
      /\ \A c \in DOMAIN old : c \notin {"status", "batch"} => mid[c] = old[c]
  BY <1>1 DEF With
<1>4. Fields \cap {"status", "batch", "hash"} = {}
  BY DEF Fields
<1> HIDE DEF mid
<1>5. /\ DOMAIN row = DOMAIN mid
      /\ \A c \in DOMAIN mid : row[c] = IF c \in DOMAIN answer THEN answer[c] ELSE mid[c]
  BY DEF With
<1> HIDE DEF row, r
<1>6. /\ DOMAIN row = DOMAIN old
      /\ "status" \in DOMAIN old => row.status = StatusOf[r.kind]
      /\ "batch" \in DOMAIN old => row.batch = b
      /\ "hash" \in DOMAIN old => row.hash = old.hash
  BY <1>2, <1>3, <1>4, <1>5
<1>7. ASSUME NEW c \in Fields \cap DOMAIN old
      PROVE  row[c] = IF r.kind = "answered" THEN r.reading[c] ELSE old[c]
  BY <1>2, <1>3, <1>4, <1>5
<1>8. ResultRow(old, b, i) = row
  BY DEF ResultRow, row, mid, answer, common, r
<1> QED BY <1>6, <1>7, <1>8 DEF r

LEMMA ResultGiven ==
    ASSUME NEW b \in 1..Len(batches), BatchShape(batches[b]), Ended(b),
           NEW i \in DOMAIN batches[b].texts, NEW old, RowGiven(i, old)
    PROVE  RowGiven(i, ResultRow(old, b, i))
<1> DEFINE r   == batches[b].results[i]
           row == ResultRow(old, b, i)
<1>1. Fields \cup {"batch"} \subseteq DOMAIN old /\ \A c \in Fields : Given(i, c, old[c])
  BY DEF RowGiven
<1>2. i \in DOMAIN batches[b].results
  BY DEF BatchShape, Ended
<1>3. /\ DOMAIN row = DOMAIN old /\ row.batch = b
      /\ \A c \in Fields : row[c] = IF r.kind = "answered" THEN r.reading[c] ELSE old[c]
  BY <1>1, <1>2, ResultColumns
<1> HIDE DEF row
<1>4. ASSUME NEW c \in Fields PROVE Given(i, c, row[c])
  <2>1. CASE r.kind = "answered"
    BY <1>3, <2>1 DEF Given, Answered
  <2>2. CASE r.kind # "answered"
    BY <1>1, <1>3, <2>2
  <2> QED BY <2>1, <2>2
<1>5. RowGiven(i, row)
  BY <1>1, <1>3, <1>4 DEF RowGiven
<1> QED BY <1>5 DEF row

LEMMA StoreLater ==
    ASSUME MInv, NEW w \in Workers, pc[w] \in {"store", "score"}, Storable(view[w]),
           rows' = Stored(view[w], at[w]), UNCHANGED <<batches, version>>
    PROVE  /\ RowsLater
           /\ DOMAIN rows' = Ids /\ \A i \in Ids : DOMAIN rows'[i] = Versions
<1> DEFINE f   == view[w]
           b   == at[w]
           new == [i \in DOMAIN f |-> ResultRow(f[i], b, i)]
<1>1. rows' = Written(f, new)
  BY DEF Stored
<1>2. \A i \in DOMAIN f : new[i] = ResultRow(f[i], b, i)
  OBVIOUS
<1> HIDE DEF new
<1>3. ASSUME NEW i \in DOMAIN f \cap Ids
      PROVE  RowGiven(i, new[i]) /\ (f[i] # Null => RowGiven(i, Current(i)))
  <2>1. f[i] # Null
    BY DEF Storable
  <2>2. /\ RowGiven(i, f[i]) /\ RowGiven(i, Current(i))
        /\ b \in 1..Len(batches) /\ Ended(b) /\ i \in DOMAIN batches[b].texts
        /\ BatchShape(batches[b])
    BY <2>1 DEF MInv, Holds, Shape
  <2> QED BY <1>2, <2>2, ResultGiven
<1> QED BY <1>1, <1>3, WrittenGiven DEF MInv

-------------------------------------------------------------------------------
(***************************************************************************)
(* The steps of a session that write no row.                               *)
(***************************************************************************)
LEMMA NothingLater ==
    ASSUME MInv, UNCHANGED <<rows, batches>>
    PROVE  Later /\ RowsLater
BY AppendSeq DEF MInv, Shape, Later, RowsLater

(***************************************************************************)
(* A session that goes on with nothing in hand.                            *)
(***************************************************************************)
LEMMA EmptyHanded ==
    ASSUME NEW w \in Workers, DOMAIN view'[w] = {}, todo'[w] \subseteq 1..Len(batches')
    PROVE  Holds(w)'
BY DEF Holds, Storable

LEMMA EscapeKeeps ==
    ASSUME MInv, NEW w \in Workers, NEW place, Escape(w, place, None),
           Later, RowsLater, version' = version, IsSeq(batches)',
           \A b \in 1..Len(batches') : BatchShape(batches'[b]),
           DOMAIN rows' = Ids, \A i \in Ids : DOMAIN rows'[i] = Versions
    PROVE  MInv'
<1>1. Shape'
  BY DEF MInv, Shape, Escape, GoTo, See
<1>2. DOMAIN view'[w] = {} /\ todo'[w] = {}
  BY DEF MInv, Shape, Escape, See, None
<1>3. Holds(w)'
  BY <1>2, EmptyHanded
<1>4. \A v \in Workers \ {w} : Same(v)
  BY DEF MInv, Shape, Escape, GoTo, See, Same
<1> QED BY <1>1, <1>3, <1>4, FrameStep

LEMMA RunKeeps == ASSUME MInv, NEW w \in Workers, Run(w) PROVE MInv'
<1>1. Later /\ RowsLater
  BY NothingLater DEF Run
<1>2. InFlight \subseteq 1..Len(batches)
  <2> SUFFICES ASSUME NEW x \in Pending PROVE rows[x[1]][x[2]].batch \in 1..Len(batches)
    BY DEF InFlight
  <2>1. x[1] \in Ids /\ x[2] \in Versions /\ rows[x[1]][x[2]] # Null
    BY DEF Pending, Rows
  <2> QED BY <2>1 DEF MInv, RowsGiven, RowGiven
<1>3. DOMAIN view[w] = {}
  BY DEF Run, MInv, Holds
<1>4. Shape' /\ Holds(w)' /\ version' = version
  BY <1>2, <1>3, EmptyHanded DEF Run, GoTo, MInv, Shape, world
<1>5. \A v \in Workers \ {w} : Same(v)
  BY DEF Run, GoTo, MInv, Shape, Same
<1> QED BY <1>1, <1>4, <1>5, FrameStep

LEMMA PassKeeps ==
    ASSUME MInv, NEW w \in Workers,
           \/ \E b : NotEnded(w, b) \/ RetrieveFails(w, b)
           \/ SelectListings(w) \/ NothingToSubmit(w)
    PROVE  MInv'
<1>1. /\ pc[w] = "collect"
      /\ UNCHANGED <<rows, batches, at, view, version>>
      /\ \A v \in Workers \ {w} : pc'[v] = pc[v]
      /\ DOMAIN pc' = Workers /\ DOMAIN todo' = Workers
      /\ \A v \in Workers : todo'[v] \subseteq todo[v]
  BY DEF NotEnded, RetrieveFails, SelectListings, NothingToSubmit, Done, GoTo, world,
         MInv, Shape
<1>2. Later /\ RowsLater
  BY <1>1, NothingLater
<1>3. DOMAIN view'[w] = {} /\ todo'[w] \subseteq 1..Len(batches')
  BY <1>1 DEF MInv, Holds
<1>4. Shape' /\ Holds(w)'
  BY <1>1, <1>3, EmptyHanded DEF MInv, Shape
<1>5. \A v \in Workers \ {w} : Same(v)
  BY <1>1 DEF Same
<1> QED BY <1>1, <1>2, <1>4, <1>5, FrameStep

LEMMA ReadResultsKeeps ==
    ASSUME MInv, NEW w \in Workers, NEW b, ReadResults(w, b) PROVE MInv'
<1>1. /\ UNCHANGED <<rows, batches, version>>
      /\ pc'[w] = "store" /\ at'[w] = b /\ todo'[w] \subseteq todo[w]
      /\ view'[w] = [i \in DOMAIN batches[b].results |-> Current(i)]
      /\ b \in todo[w] /\ Ended(b)
  BY DEF ReadResults, Done, GoTo, See, MInv, Shape, world
<1>2. b \in 1..Len(batches) /\ todo[w] \subseteq 1..Len(batches)
  BY <1>1 DEF MInv, Holds
<1>3. DOMAIN view'[w] = DOMAIN batches[b].texts
  BY <1>1, <1>2 DEF MInv, Shape, BatchShape, Ended
<1>4. Later /\ RowsLater
  BY <1>1, NothingLater
<1>5. ASSUME NEW i \in DOMAIN view'[w] \cap Ids, view'[w][i] # Null
      PROVE  RowGiven(i, view[w][i])' /\ RowGiven(i, Current(i))'
  <2>1. PICK v \in Versions : v = version /\ v = version'
    BY <1>1 DEF MInv, Shape
  <2>2. view'[w][i] = rows[i][v] /\ rows'[i][v] = rows[i][v]
    BY <1>1, <2>1 DEF Current
  <2>3. RowGiven(i, rows[i][v])
    BY <1>5, <2>2 DEF MInv, RowsGiven
  <2>4. RowGiven(i, rows[i][v])' /\ RowGiven(i, view[w][i])'
    BY <1>4, <2>2, <2>3, GivenStays
  <2> QED BY <2>1, <2>4 DEF Current
<1>6. Holds(w)'
  BY <1>1, <1>2, <1>3, <1>5 DEF Holds, Ended
<1>7. Shape' /\ \A v \in Workers \ {w} : Same(v)
  BY <1>1 DEF ReadResults, Done, GoTo, See, MInv, Shape, Same
<1> QED BY <1>1, <1>4, <1>6, <1>7, FrameStep

LEMMA CreateBatchKeeps == ASSUME MInv, NEW w \in Workers, CreateBatch(w) PROVE MInv'
<1> DEFINE new == [version |-> version, texts |-> asked[w], results |-> None]
<1>1. /\ UNCHANGED <<rows, version, todo>>
      /\ batches' = Append(batches, new)
      /\ pc'[w] = "record" /\ at'[w] = Len(batches) + 1
      /\ view'[w] = [i \in DOMAIN asked[w] |-> Current(i)]
  BY DEF CreateBatch, Created, GoTo, See, MInv, Shape, world
<1>2. BatchShape(new)
  BY DEF BatchShape, None
<1> HIDE DEF new
<1>3. /\ IsSeq(batches')
      /\ Len(batches) \in Nat /\ Len(batches') = Len(batches) + 1
      /\ \A b \in 1..Len(batches) : batches'[b] = batches[b]
      /\ batches'[Len(batches) + 1] = new
  BY <1>1, AppendSeq DEF MInv, Shape
<1>4. Later /\ RowsLater
  BY <1>1, <1>3 DEF Later, RowsLater
<1>5. Shape' /\ \A v \in Workers \ {w} : Same(v)
  <2>1. \A b \in 1..Len(batches') : BatchShape(batches'[b])
    BY <1>2, <1>3 DEF MInv, Shape
  <2> QED BY <1>1, <1>3, <2>1 DEF CreateBatch, GoTo, See, MInv, Shape, Same
<1>6. ASSUME NEW i \in DOMAIN view'[w] \cap Ids, view'[w][i] # Null
      PROVE  RowGiven(i, view[w][i])' /\ RowGiven(i, Current(i))'
  <2>1. PICK v \in Versions : v = version /\ v = version'
    BY <1>1 DEF MInv, Shape
  <2>2. view'[w][i] = rows[i][v] /\ rows'[i][v] = rows[i][v]
    BY <1>1, <2>1 DEF Current
  <2>3. RowGiven(i, rows[i][v])
    BY <1>6, <2>2 DEF MInv, RowsGiven
  <2>4. RowGiven(i, rows[i][v])' /\ RowGiven(i, view[w][i])'
    BY <1>4, <2>2, <2>3, GivenStays
  <2> QED BY <2>1, <2>4 DEF Current
<1>7. Holds(w)'
  <2>1. todo'[w] \subseteq 1..Len(batches') /\ at'[w] \in 1..Len(batches')
    BY <1>1, <1>3 DEF MInv, Holds
  <2> QED BY <1>1, <1>6, <2>1 DEF Holds
<1> QED BY <1>1, <1>4, <1>5, <1>7, FrameStep

LEMMA StreamFailsKeeps == ASSUME MInv, NEW w \in Workers, StreamFails(w) PROVE MInv'
<1>1. pc[w] = "store" /\ UNCHANGED <<rows, batches, version>>
  BY DEF StreamFails, world
<1>2. Later /\ RowsLater
  BY <1>1, NothingLater
<1>3. PICK D \in SUBSET DOMAIN view[w] :
        LET f == [i \in D |-> view[w][i]]
        IN IF Storable(f) THEN Escape(w, "score", f) ELSE Escape(w, "broken", None)
  BY DEF StreamFails
<1> DEFINE f == [i \in D |-> view[w][i]]
<1>4. CASE ~Storable(f)
  BY <1>1, <1>2, <1>3, <1>4, EscapeKeeps DEF MInv, Shape
<1>5. CASE Storable(f)
  <2>1. Escape(w, "score", f)
    BY <1>3, <1>5
  <2>2. DOMAIN f = D /\ \A i \in D : f[i] = view[w][i]
    OBVIOUS
  <2>3. DOMAIN None = {}
    BY DEF None
  <2> HIDE DEF f
  <2>4. /\ pc'[w] = "score" /\ view'[w] = f /\ todo'[w] = {}
        /\ D # {} => at'[w] = at[w]
    BY <2>1, <2>2, <2>3 DEF Escape, GoTo, See, MInv, Shape
  <2>5. Shape' /\ \A v \in Workers \ {w} : Same(v)
    BY <1>1, <2>1 DEF Escape, GoTo, See, MInv, Shape, Same
  <2>6. ASSUME NEW i \in D \cap Ids
        PROVE  RowGiven(i, view[w][i])' /\ RowGiven(i, Current(i))'
    <3>1. view[w][i] # Null /\ view'[w][i] = view[w][i]
      BY <1>5, <2>2, <2>4 DEF Storable
    <3>2. RowGiven(i, view[w][i]) /\ RowGiven(i, Current(i))
      BY <3>1 DEF MInv, Holds
    <3>3. RowGiven(i, view[w][i])'
      BY <1>2, <3>1, <3>2, GivenStays
    <3>4. PICK v \in Versions : v = version /\ v = version'
      BY <1>1 DEF MInv, Shape
    <3>5. RowGiven(i, rows[i][v])'
      BY <1>1, <1>2, <3>2, <3>4, GivenStays DEF Current
    <3> QED BY <3>3, <3>4, <3>5 DEF Current
  <2>7. D # {} => /\ at[w] \in 1..Len(batches) /\ Ended(at[w])
                  /\ D \subseteq DOMAIN batches[at[w]].texts
    BY <1>1 DEF MInv, Holds
  <2>8. Holds(w)'
    BY <1>1, <1>5, <2>2, <2>4, <2>6, <2>7 DEF Holds, Storable, Ended
  <2> QED BY <1>1, <1>2, <2>5, <2>8, FrameStep
<1> QED BY <1>4, <1>5

(***************************************************************************)
(* The steps that drop what a session holds without writing it.            *)
(***************************************************************************)
LEMMA DropKeeps ==
    ASSUME MInv, NEW w \in Workers,
           StoreBreaks(w) \/ RecordCollides(w) \/ ScoringLost(w) \/ Crash(w)
    PROVE  MInv'
<1>1. UNCHANGED <<rows, batches, version>>
  BY DEF StoreBreaks, RecordCollides, ScoringLost, Crash, world
<1>2. \E place : Escape(w, place, None)
  BY DEF StoreBreaks, RecordCollides, ScoringLost, Crash
<1>3. Later /\ RowsLater
  BY <1>1, NothingLater
<1> QED BY <1>1, <1>2, <1>3, EscapeKeeps DEF MInv, Shape

LEMMA CreateFailsKeeps == ASSUME MInv, NEW w \in Workers, CreateFails(w) PROVE MInv'
<1> DEFINE new == [version |-> version, texts |-> asked[w], results |-> None]
<1>1. /\ UNCHANGED <<rows, version>>
      /\ batches' = batches \/ batches' = Append(batches, new)
      /\ Escape(w, "score", None)
  BY DEF CreateFails, Created, world
<1>2. BatchShape(new)
  BY DEF BatchShape, None
<1> HIDE DEF new
<1>3. /\ IsSeq(batches') /\ Len(batches) \in Nat /\ Len(batches') \in Nat
      /\ Len(batches) <= Len(batches')
      /\ \A b \in 1..Len(batches) : batches'[b] = batches[b]
      /\ \A b \in 1..Len(batches') : b \in 1..Len(batches) \/ batches'[b] = new
  <2>1. IsSeq(batches) /\ Len(batches) \in Nat
    BY AppendSeq DEF MInv, Shape
  <2>2. CASE batches' = batches
    BY <2>1, <2>2
  <2>3. CASE batches' = Append(batches, new)
    BY <2>1, <2>3, AppendSeq
  <2> QED BY <1>1, <2>2, <2>3
<1>4. Later /\ RowsLater
  BY <1>1, <1>3 DEF Later, RowsLater
<1>5. \A b \in 1..Len(batches') : BatchShape(batches'[b])
  BY <1>2, <1>3 DEF MInv, Shape
<1> QED BY <1>1, <1>3, <1>4, <1>5, EscapeKeeps DEF MInv, Shape

-------------------------------------------------------------------------------
(***************************************************************************)
(* The steps that write rows.                                              *)
(***************************************************************************)
LEMMA StoreKeeps ==
    ASSUME MInv, NEW w \in Workers, StoreResults(w) \/ ScoreListings(w) PROVE MInv'
<1>1. /\ pc[w] \in {"store", "score"} /\ rows' = Stored(view[w], at[w])
      /\ UNCHANGED <<batches, version>>
  BY DEF StoreResults, ScoreListings, world
<1>2. Storable(view[w])
  BY DEF StoreResults, ScoreListings, MInv, Holds
<1>3. /\ RowsLater
      /\ DOMAIN rows' = Ids /\ \A i \in Ids : DOMAIN rows'[i] = Versions
  BY <1>1, <1>2, StoreLater
<1>4. Later
  BY <1>1, AppendSeq DEF Later, MInv, Shape
<1>5. /\ DOMAIN view'[w] = {} /\ todo'[w] \subseteq 1..Len(batches')
      /\ \A v \in Workers \ {w} : Same(v)
      /\ DOMAIN pc' = Workers /\ DOMAIN at' = Workers /\ DOMAIN view' = Workers
      /\ DOMAIN todo' = Workers
  BY <1>1 DEF StoreResults, ScoreListings, Escape, GoTo, See, None, Same, MInv, Shape, Holds
<1>6. Holds(w)'
  BY <1>5, EmptyHanded
<1>7. Shape'
  BY <1>1, <1>3, <1>5 DEF MInv, Shape
<1> QED BY <1>1, <1>3, <1>4, <1>5, <1>6, <1>7, FrameStep

LEMMA RecordKeeps == ASSUME MInv, NEW w \in Workers, RecordPending(w) PROVE MInv'
<1> DEFINE f   == view[w]
           new == [i \in DOMAIN f |-> PendingRow(w, i)]
<1>1. /\ rows' = Written(f, new) /\ UNCHANGED <<batches, version>>
      /\ Escape(w, "score", None)
  BY DEF RecordPending, world
<1>2. \A i \in DOMAIN f : /\ DOMAIN new[i] = {"status", "hash", "batch"} \cup Fields
                          /\ new[i].batch = at[w]
                          /\ \A c \in Fields : new[i][c] = Cleared[c]
  BY DEF PendingRow, Fields, Cleared
<1> HIDE DEF new
<1>3. ASSUME NEW i \in DOMAIN f \cap Ids
      PROVE  RowGiven(i, new[i]) /\ (f[i] # Null => RowGiven(i, Current(i)))
  <2>1. at[w] \in 1..Len(batches)
    BY DEF MInv, Holds
  <2>2. f[i] # Null => RowGiven(i, Current(i))
    BY DEF MInv, Holds
  <2> QED BY <1>2, <2>1, <2>2 DEF RowGiven, Given
<1>4. /\ RowsLater
      /\ DOMAIN rows' = Ids /\ \A i \in Ids : DOMAIN rows'[i] = Versions
  BY <1>1, <1>3, WrittenGiven DEF MInv
<1>5. Later
  BY <1>1, AppendSeq DEF Later, MInv, Shape
<1> QED BY <1>1, <1>4, <1>5, EscapeKeeps DEF MInv, Shape

-------------------------------------------------------------------------------
(***************************************************************************)
(* The steps of the provider and of the release; the others touch nothing. *)
(***************************************************************************)
LEMMA EndLater ==
    ASSUME MInv, NEW b \in 1..Len(batches), End(b)
    PROVE  /\ Later /\ RowsLater /\ IsSeq(batches') /\ Len(batches') = Len(batches)
           /\ \A c \in 1..Len(batches) : BatchShape(batches'[c])
           /\ batches'[b].results \in [DOMAIN batches[b].texts -> Outcomes]
           /\ \A c \in 1..Len(batches) : c # b => batches'[c] = batches[c]
<1>1. PICK r \in [DOMAIN batches[b].texts -> Outcomes] :
        batches' = [batches EXCEPT ![b].results = r]
  BY DEF End
<1>0. \A i \in DOMAIN r : /\ r[i].kind \in Kinds
                          /\ r[i].kind = "answered" => DOMAIN r[i].reading = Fields
  BY MotivationAssumption DEF Outcomes
<1> DEFINE new == [batches[b] EXCEPT !.results = r]
<1>2. batches' = [batches EXCEPT ![b] = new]
  BY <1>1
<1>3. /\ new.version = batches[b].version /\ new.texts = batches[b].texts
      /\ new.results = r /\ BatchShape(new)
  BY <1>0 DEF BatchShape, MInv, Shape
<1> HIDE DEF new
<1>4. /\ IsSeq(batches') /\ Len(batches') = Len(batches)
      /\ \A c \in 1..Len(batches) : batches'[c] = IF c = b THEN new ELSE batches[c]
  <2>1. PICK S : batches \in Seq(S)
    BY DEF MInv, Shape, IsSeq
  <2>2. batches \in Seq(S \cup {new})
    BY <2>1
  <2>3. batches' \in Seq(S \cup {new}) /\ Len(batches') = Len(batches)
    BY <1>2, <2>2
  <2> QED BY <1>2, <2>2, <2>3 DEF IsSeq
<1>5. UNCHANGED <<rows, version, pc, at, view, todo>> /\ ~Ended(b)
  BY DEF End, world, session
<1>6. Later /\ RowsLater
  <2>1. Len(batches) \in Nat
    BY AppendSeq DEF MInv, Shape
  <2> QED BY <1>3, <1>4, <1>5, <2>1 DEF Later, RowsLater
<1> QED BY <1>1, <1>3, <1>4, <1>6 DEF MInv, Shape

LEMMA EndKeeps == ASSUME MInv, NEW b \in 1..Len(batches), End(b) PROVE MInv'
<1>1. UNCHANGED <<rows, version, pc, at, view, todo>>
  BY DEF End, world, session
<1>2. /\ Later /\ RowsLater /\ IsSeq(batches') /\ Len(batches') = Len(batches)
      /\ \A c \in 1..Len(batches') : BatchShape(batches'[c])
  BY EndLater
<1>3. Shape' /\ \A w \in Workers : Same(w)
  BY <1>1, <1>2 DEF MInv, Shape, Same
<1> QED BY <1>1, <1>2, <1>3, FrameStep

LEMMA DeployKeeps == ASSUME MInv, Deploy PROVE MInv'
<1>1. UNCHANGED <<rows, batches, pc, at, view, todo>>
  BY DEF Deploy, session
<1>2. Later /\ RowsLater
  BY <1>1, NothingLater
<1>3. \A w \in Workers : DOMAIN view[w] = {}
  BY DEF Deploy, MInv, Holds
<1>4. version' \in Versions
  BY MotivationAssumption DEF Deploy, MInv, Shape, Versions
<1>5. Shape' /\ \A w \in Workers : Same(w)
  BY <1>1, <1>4 DEF MInv, Shape, Same
<1> QED BY <1>2, <1>3, <1>5, FrameStep

LEMMA OtherKeeps ==
    ASSUME MInv, UNCHANGED <<rows, batches, version, session>> PROVE MInv'
<1>1. UNCHANGED <<rows, batches, pc, at, view, todo, version>>
  BY DEF session
<1>2. Later /\ RowsLater
  BY <1>1, NothingLater
<1>3. Shape' /\ \A w \in Workers : Same(w)
  BY <1>1 DEF MInv, Shape, Same
<1> QED BY <1>1, <1>2, <1>3, FrameStep

-------------------------------------------------------------------------------
LEMMA InitMInv == Init => MInv
<1> SUFFICES ASSUME Init PROVE MInv
  OBVIOUS
<1>1. Shape
  <2>1. 1 \in Versions
    BY MotivationAssumption DEF Versions
  <2>2. IsSeq(batches) /\ Len(batches) = 0
    BY DEF Init, IsSeq
  <2> QED BY <2>1, <2>2 DEF Init, Shape
<1>2. \A w \in Workers : Holds(w)
  BY DEF Init, Holds, None, Storable
<1>3. RowsGiven
  BY DEF Init, RowsGiven
<1> QED BY <1>1, <1>2, <1>3 DEF MInv

LEMMA NextMInv == ASSUME MInv, [Next]_vars PROVE MInv'
<1>1. CASE \E i \in Ids : Edit(i)
  BY <1>1, OtherKeeps DEF Edit
<1>2. CASE \E b \in 1..Len(batches) : End(b)
  BY <1>2, EndKeeps
<1>3. CASE Deploy
  BY <1>3, DeployKeeps
<1>4. ASSUME NEW w \in Workers, Advance(w) PROVE MInv'
  <2>1. CASE NothingToSubmit(w) \/ SelectListings(w) \/ \E b \in todo[w] : NotEnded(w, b)
    BY <2>1, PassKeeps
  <2>2. CASE \E b \in todo[w] : ReadResults(w, b)
    BY <2>2, ReadResultsKeeps
  <2>3. CASE StoreBreaks(w) \/ RecordCollides(w) \/ ScoringLost(w)
    BY <2>3, DropKeeps
  <2>4. CASE StoreResults(w) \/ ScoreListings(w)
    BY <2>4, StoreKeeps
  <2> QED BY <1>4, <2>1, <2>2, <2>3, <2>4, RunKeeps, CreateBatchKeeps, RecordKeeps
          DEF Advance
<1>5. ASSUME NEW w \in Workers, Fails(w) PROVE MInv'
  BY <1>5, StreamFailsKeeps, CreateFailsKeeps, DropKeeps, PassKeeps DEF Fails
<1>6. CASE UNCHANGED vars
  BY <1>6, OtherKeeps DEF vars, world
<1> QED BY <1>1, <1>2, <1>3, <1>4, <1>5, <1>6 DEF Next

(***************************************************************************)
(* ColumnsAreGiven: no column of a stored reading is made up, or another   *)
(* listing's.  Each holds what the provider answered to a request about    *)
(* that listing, in a batch that has ended, or nothing, whatever sessions  *)
(* overlap, whichever of their flushes, calls and processes fail, and      *)
(* whatever is edited or released between asking and storing.              *)
(***************************************************************************)
THEOREM ColumnsGiven == Spec => []ColumnsAreGiven
<1>1. MInv => ColumnsAreGiven
  BY DEF MInv, RowsGiven, RowGiven, Given, ColumnsAreGiven, Rows
<1>2. MInv /\ [Next]_vars => MInv'
  BY NextMInv
<1> QED BY InitMInv, <1>1, <1>2, PTL DEF Spec

-------------------------------------------------------------------------------
(***************************************************************************)
(* One session at a time, whatever is released and whatever fails.  An     *)
(* 'ok' row holds the answer of the batch it names; what the session has   *)
(* read is what is stored, for no release happens while it holds rows.     *)
(***************************************************************************)
OneSession == \A u, w \in Workers : u = w

RowReads(i, row) ==
    /\ DOMAIN row = {"status", "hash", "batch"} \cup Fields
    /\ row.batch \in 1..Len(batches)
    /\ row.status = "ok" => Holding(row, i, row.batch)

Fresh(w) == \A i \in DOMAIN view[w] \cap Ids : view[w][i] = Current(i)

RowsRead == \A i \in Ids : \A v \in Versions : rows[i][v] # Null => RowReads(i, rows[i][v])

KInv == RowsRead /\ \A w \in Workers : Fresh(w)

LEMMA NextLater == ASSUME MInv, [Next]_vars PROVE Later
<1>1. CASE batches' = batches
  BY <1>1, AppendSeq DEF MInv, Shape, Later
<1>2. CASE \E b \in 1..Len(batches) : End(b)
  BY <1>2, EndLater
<1>3. ASSUME NEW w \in Workers, batches' = Created(w) PROVE Later
  BY <1>3, AppendSeq DEF MInv, Shape, Later, Created
<1> QED BY <1>1, <1>2, <1>3 DEF Next, Edit, Deploy, Advance, Run, NothingToSubmit,
        SelectListings, CreateBatch, RecordPending, RecordCollides, StoreResults,
        StoreBreaks, ScoreListings, ScoringLost, NotEnded, ReadResults, Fails, StreamFails,
        CreateFails, Crash, RetrieveFails, vars

LEMMA ReadsStay == ASSUME Later, NEW i, NEW row, RowReads(i, row) PROVE RowReads(i, row)'
<1>1. row.batch \in 1..Len(batches')
  BY DEF RowReads, Later
<1>2. ASSUME row.status = "ok" PROVE Holding(row, i, row.batch)'
  <2>1. Holding(row, i, row.batch)
    BY <1>2 DEF RowReads
  <2>2. /\ batches'[row.batch].texts = batches[row.batch].texts
        /\ batches'[row.batch].results = batches[row.batch].results
    BY <2>1 DEF RowReads, Later, Holding, Answered
  <2> QED BY <2>1, <2>2 DEF Holding, Answered, Ended
<1> QED BY <1>1, <1>2 DEF RowReads

(***************************************************************************)
(* A write of rows that are as they were read makes them what they were to *)
(* become, in every column.                                                *)
(***************************************************************************)
LEMMA WrittenReads ==
    ASSUME MInv, KInv, NEW w \in Workers, NEW new, rows' = Written(view[w], new),
           UNCHANGED <<batches, version>>,
           \A i \in DOMAIN view[w] \cap Ids : RowReads(i, new[i])
    PROVE  RowsRead'
<1> DEFINE f == view[w]
<1> SUFFICES ASSUME NEW i \in Ids, NEW v \in Versions, rows'[i][v] # Null
             PROVE  RowReads(i, rows[i][v])'
  BY DEF RowsRead
<1>1. Later
  BY AppendSeq DEF MInv, Shape, Later
<1>2. CASE i \notin DOMAIN f \/ v # version
  <2>1. rows'[i][v] = rows[i][v]
    BY <1>2 DEF Written, MInv, Shape
  <2>2. RowReads(i, rows[i][v])
    BY <2>1 DEF KInv, RowsRead
  <2> QED BY <1>1, <2>1, <2>2, ReadsStay
<1>3. CASE i \in DOMAIN f /\ v = version
  <2>1. f[i] = rows[i][v] /\ RowReads(i, new[i])
    BY <1>3 DEF KInv, Fresh, Current
  <2>2. rows'[i][v] = IF f[i] = Null THEN new[i]
                      ELSE WriteColumns(rows[i][v], f[i], new[i])
    BY <1>3 DEF Written, MInv, Shape
  <2>3. CASE f[i] = Null
    BY <1>1, <2>1, <2>2, <2>3, ReadsStay
  <2>4. CASE f[i] # Null
    <3>1. RowReads(i, rows[i][v])
      BY <2>1, <2>4 DEF KInv, RowsRead
    <3> DEFINE row == rows'[i][v]
    <3>2. row = [c \in DOMAIN rows[i][v] |-> IF new[i][c] # f[i][c] THEN new[i][c]
                                              ELSE rows[i][v][c]]
      BY <2>2, <2>4 DEF WriteColumns
    <3>3. DOMAIN row = DOMAIN new[i] /\ \A c \in DOMAIN row : row[c] = new[i][c]
      BY <2>1, <3>1, <3>2 DEF RowReads
    <3> HIDE DEF row
    <3>4. RowReads(i, row)
      BY <2>1, <3>3 DEF RowReads, Holding, Fields
    <3> QED BY <1>1, <3>4, ReadsStay DEF row
  <2> QED BY <2>3, <2>4
<1> QED BY <1>2, <1>3

LEMMA StoreReads ==
    ASSUME MInv, KInv, NEW w \in Workers, StoreResults(w) \/ ScoreListings(w)
    PROVE  RowsRead'
<1> DEFINE f   == view[w]
           b   == at[w]
           new == [i \in DOMAIN f |-> ResultRow(f[i], b, i)]
<1>1. /\ rows' = Written(f, new) /\ UNCHANGED <<batches, version>>
      /\ pc[w] \in {"store", "score"} /\ Storable(f)
  BY DEF StoreResults, ScoreListings, Stored, world, MInv, Holds
<1>2. \A i \in DOMAIN f : new[i] = ResultRow(f[i], b, i)
  OBVIOUS
<1> HIDE DEF new
<1>3. ASSUME NEW i \in DOMAIN f \cap Ids PROVE RowReads(i, new[i])
  <2> DEFINE r == batches[b].results[i]
  <2>1. /\ b \in 1..Len(batches) /\ Ended(b) /\ i \in DOMAIN batches[b].texts
        /\ BatchShape(batches[b]) /\ version \in Versions
    BY <1>1 DEF MInv, Holds, Shape
  <2>2. i \in DOMAIN batches[b].results /\ r.kind \in Kinds
    BY <2>1 DEF BatchShape, Ended
  <2>3. f[i] = rows[i][version] /\ f[i] # Null
    BY <1>1 DEF KInv, Fresh, Current, Storable
  <2>4. DOMAIN f[i] = {"status", "hash", "batch"} \cup Fields
    BY <2>1, <2>3 DEF KInv, RowsRead, RowReads
  <2>5. StatusOf[r.kind] = "ok" => r.kind = "answered"
    BY <2>2 DEF StatusOf, Kinds
  <2> HIDE DEF r
  <2>6. /\ DOMAIN new[i] = DOMAIN f[i]
        /\ new[i].status = StatusOf[r.kind] /\ new[i].batch = b
        /\ \A c \in Fields : r.kind = "answered" => new[i][c] = r.reading[c]
    BY <1>2, <2>1, <2>2, <2>4, ResultColumns DEF r
  <2> QED BY <2>1, <2>4, <2>5, <2>6 DEF RowReads, Holding, Answered, r
<1> QED BY <1>1, <1>3, WrittenReads

LEMMA RecordReads ==
    ASSUME MInv, KInv, NEW w \in Workers, RecordPending(w) PROVE RowsRead'
<1> DEFINE new == [i \in DOMAIN view[w] |-> PendingRow(w, i)]
<1>1. /\ rows' = Written(view[w], new) /\ UNCHANGED <<batches, version>>
  BY DEF RecordPending, world
<1>2. ASSUME NEW i \in DOMAIN view[w] \cap Ids PROVE RowReads(i, new[i])
  <2>1. at[w] \in 1..Len(batches)
    BY DEF MInv, Holds
  <2> QED BY <2>1 DEF RowReads, PendingRow, Fields
<1> HIDE DEF new
<1> QED BY <1>1, <1>2, WrittenReads

(***************************************************************************)
(* Every other step leaves the rows alone; what it makes the session hold  *)
(* it has just read.                                                       *)
(***************************************************************************)
LEMMA QuietReads == ASSUME MInv, KInv, [Next]_vars, rows' = rows PROVE RowsRead'
BY NextLater, ReadsStay, NextMInv DEF KInv, RowsRead

LEMMA FreshStays ==
    ASSUME OneSession, MInv, KInv, [Next]_vars PROVE \A w \in Workers : Fresh(w)'
<1>1. CASE (\E i \in Ids : Edit(i)) \/ (\E b \in 1..Len(batches) : End(b)) \/ UNCHANGED vars
  BY <1>1 DEF Edit, End, vars, world, session, KInv, Fresh, Current
<1>2. CASE Deploy
  BY <1>2 DEF Deploy, session, MInv, Holds, Fresh
<1>3. ASSUME NEW w \in Workers, Escape(w, "score", None) \/ Escape(w, "broken", None)
                                 \/ Escape(w, "idle", None)
      PROVE  Fresh(w)'
  BY <1>3 DEF Escape, See, None, Fresh, MInv, Shape
<1>4. ASSUME NEW w \in Workers, Advance(w) PROVE Fresh(w)'
  <2>1. CASE Run(w) \/ NothingToSubmit(w) \/ SelectListings(w) \/ \E b \in todo[w] : NotEnded(w, b)
    BY <2>1 DEF Run, NothingToSubmit, SelectListings, NotEnded, world, KInv, Fresh, Current
  <2>2. CASE CreateBatch(w) \/ \E b \in todo[w] : ReadResults(w, b)
    BY <2>2 DEF CreateBatch, ReadResults, See, world, Fresh, Current, MInv, Shape
  <2>3. CASE StoreResults(w)
    BY <2>3 DEF StoreResults, See, None, Fresh, MInv, Shape
  <2> QED BY <1>3, <1>4, <2>1, <2>2, <2>3 DEF Advance, RecordPending, RecordCollides,
          StoreBreaks, ScoreListings, ScoringLost
<1>5. ASSUME NEW w \in Workers, Fails(w) PROVE Fresh(w)'
  <2>1. CASE \E b \in todo[w] : RetrieveFails(w, b)
    BY <2>1 DEF RetrieveFails, world, KInv, Fresh, Current
  <2>2. CASE StreamFails(w)
    <3>1. PICK D \in SUBSET DOMAIN view[w] :
            LET f == [i \in D |-> view[w][i]]
            IN IF Storable(f) THEN Escape(w, "score", f) ELSE Escape(w, "broken", None)
      BY <2>2 DEF StreamFails
    <3>2. UNCHANGED <<rows, version>>
      BY <2>2 DEF StreamFails, world
    <3>3. CASE Escape(w, "score", [i \in D |-> view[w][i]])
      <4>1. view'[w] = [i \in D |-> view[w][i]]
        BY <3>3 DEF Escape, See, MInv, Shape
      <4> QED BY <3>2, <4>1 DEF KInv, Fresh, Current
    <3> QED BY <1>3, <3>1, <3>3
  <2> QED BY <1>3, <1>5, <2>1, <2>2 DEF Fails, CreateFails, Crash
<1> QED BY <1>1, <1>2, <1>4, <1>5 DEF Next, OneSession

LEMMA NextKInv == ASSUME OneSession, MInv, KInv, [Next]_vars PROVE KInv'
<1>1. CASE rows' = rows
  BY <1>1, QuietReads, FreshStays DEF KInv
<1>2. CASE \E w \in Workers : StoreResults(w) \/ ScoreListings(w) \/ RecordPending(w)
  BY <1>2, StoreReads, RecordReads, FreshStays DEF KInv
<1> QED BY <1>1, <1>2 DEF Next, Edit, End, Deploy, Advance, Run, NothingToSubmit,
        SelectListings, CreateBatch, RecordCollides, StoreBreaks, ScoringLost, NotEnded,
        ReadResults, Fails, StreamFails, CreateFails, Crash, RetrieveFails, vars

(***************************************************************************)
(* ReadingsAreGiven: what the scorer reads of a listing is one answer, the *)
(* one its row names, in all its columns, as long as no two sessions       *)
(* overlap, under any releases, with any faults: a stream that breaks off  *)
(* leaves rows half of a batch, never half of an answer.                   *)
(***************************************************************************)
THEOREM ReadingsGiven == ASSUME OneSession PROVE Spec => []ReadingsAreGiven
<1>1. KInv => ReadingsAreGiven
  BY DEF KInv, RowsRead, RowReads, ReadingsAreGiven, Read, Rows
<1>2. Init => KInv
  BY DEF Init, KInv, RowsRead, Fresh, None
<1>3. MInv /\ KInv /\ [Next]_vars => KInv'
  BY NextKInv
<1>4. MInv /\ [Next]_vars => MInv'
  BY NextMInv
<1> QED BY InitMInv, <1>1, <1>2, <1>3, <1>4, PTL DEF Spec

-------------------------------------------------------------------------------
(***************************************************************************)
(* One session at a time, under one prompt version.                        *)
(***************************************************************************)
Serial == OneSession /\ MaxVersion = 1

NoStreamBroke == \A k \in 1..Len(faults) : faults[k] # "stream"

(***************************************************************************)
(* What the table says of a listing as long as no stream broke off: its    *)
(* row is about the text that was sent in the batch it names; it is        *)
(* settled only if that batch has ended, and it is 'ok' with its answer.   *)
(* The rows of a batch are open together, or none of them is.       *)
(***************************************************************************)
Typed ==
    /\ text \in [Ids -> Texts \cup {Null}] /\ live \subseteq Ids
    /\ DOMAIN asked = Workers
    /\ \A w \in Workers : /\ DOMAIN asked[w] \subseteq Ids
                          /\ \A i \in DOMAIN asked[w] : asked[w][i] \in Texts
    /\ \A b \in 1..Len(batches) :
          /\ batches[b].version = 1
          /\ DOMAIN batches[b].texts \subseteq Ids
          /\ \A i \in DOMAIN batches[b].texts :
                /\ batches[b].texts[i] \in Texts
                /\ Ended(b) => batches[b].results[i] \in Outcomes
    /\ IsSeq(faults)

Waits(i, b) == /\ Current(i) # Null
               /\ Current(i).status = "pending"
               /\ Current(i).batch = b

RowFits(i, row) ==
    /\ row \in Entry
    /\ i \in DOMAIN batches[row.batch].texts
    /\ row.hash = batches[row.batch].texts[i]
    /\ row.status # "pending" => Ended(row.batch)
    /\ row.status = "ok" => Holding(row, i, row.batch)

RowsFit == \A i \in Ids : Current(i) # Null => RowFits(i, Current(i))

OpenTogether ==
    \A i, j \in Ids : \A b \in 1..Len(batches) :
        Waits(i, b) /\ j \in DOMAIN batches[b].texts => Waits(j, b)

(***************************************************************************)
(* What the session knows is still so: the batches it has yet to look at   *)
(* are open, the rows it read are the stored ones, and the listings it is  *)
(* submitting are not open and are submitted with another text.            *)
(***************************************************************************)
Knows(w) ==
    /\ pc[w] \in {"collect", "store"} =>
         \A b \in todo[w] : \A j \in DOMAIN batches[b].texts : Waits(j, b)
    /\ pc[w] = "store" =>
         /\ at[w] \in 1..Len(batches) \ todo[w]
         /\ Ended(at[w])
         /\ DOMAIN view[w] = DOMAIN batches[at[w]].texts
         /\ \A i \in DOMAIN view[w] : view[w][i] = Current(i) /\ Waits(i, at[w])
    /\ pc[w] \in {"ask", "record"} =>
         \A i \in DOMAIN asked[w] : Current(i) # Null =>
             Current(i).status # "pending" /\ Current(i).hash # asked[w][i]
    /\ pc[w] = "record" =>
         /\ at[w] \in 1..Len(batches)
         /\ batches[at[w]].texts = asked[w]
         /\ DOMAIN view[w] = DOMAIN asked[w]
         /\ \A i \in DOMAIN view[w] : view[w][i] = Current(i)
    /\ pc[w] = "score" => DOMAIN view[w] = {}

SInv == Typed /\ RowsFit /\ OpenTogether /\ \A w \in Workers : Knows(w)

(***************************************************************************)
(* With no call half done, besides: a listing is sent again only when the  *)
(* batches it was sent in before have ended.                               *)
(***************************************************************************)
Unrepeated ==
    \A b, c \in 1..Len(batches) :
        b < c /\ DOMAIN batches[b].texts \cap DOMAIN batches[c].texts # {} => Ended(b)

LastNamed ==
    \A b \in 1..Len(batches) : \A i \in DOMAIN batches[b].texts :
        \/ \E c \in b + 1..Len(batches) : i \in DOMAIN batches[c].texts
        \/ \E w \in Workers : pc[w] = "record" /\ at[w] = b
        \/ Current(i) # Null /\ Current(i).batch = b

Newest == \A w \in Workers : pc[w] = "record" => at[w] = Len(batches)

HInv == Unrepeated /\ LastNamed /\ Newest

-------------------------------------------------------------------------------
(***************************************************************************)
(* The table stays as it is, and the batches only grow older.              *)
(***************************************************************************)
LEMMA OneVersion == ASSUME Serial, MInv PROVE version = 1 /\ Versions = {1}
BY DEF Serial, MInv, Shape, Versions

TableSame == \A i \in Ids : rows'[i][1] = rows[i][1]

LEMMA WaitsStay ==
    ASSUME Serial, MInv, MInv', TableSame, NEW i \in Ids
    PROVE  /\ Current(i)' = Current(i)
           /\ \A b : Waits(i, b)' <=> Waits(i, b)
<1>1. version = 1 /\ version' = 1
  BY OneVersion DEF Serial, MInv, Shape, Versions
<1>2. Current(i)' = Current(i)
  BY <1>1 DEF TableSame, Current
<1> QED BY <1>2 DEF Waits

LEMMA NamedBatch ==
    ASSUME Serial, MInv, NEW i \in Ids, Current(i) # Null
    PROVE  Current(i).batch \in 1..Len(batches)
BY OneVersion DEF MInv, RowsGiven, RowGiven, Current

LEMMA TableStays ==
    ASSUME Serial, MInv, MInv', SInv, Typed', Later, TableSame
    PROVE  RowsFit' /\ OpenTogether'
<1>1. RowsFit'
  <2> SUFFICES ASSUME NEW i \in Ids, Current(i)' # Null PROVE RowFits(i, Current(i))'
    BY DEF RowsFit
  <2> DEFINE row == Current(i)
  <2>1. row' = row
    BY WaitsStay
  <2>2. row # Null /\ RowFits(i, row) /\ row.batch \in 1..Len(batches)
    BY <2>1, NamedBatch DEF SInv, RowsFit
  <2> HIDE DEF row
  <2>3. RowFits(i, row)'
    BY <2>1, <2>2 DEF RowFits, Later, Ended, Holding, Answered
  <2> QED BY <2>3 DEF row
<1>2. OpenTogether'
  <2> SUFFICES ASSUME NEW i \in Ids, NEW j \in Ids, NEW b \in 1..Len(batches'),
                      Waits(i, b)', j \in DOMAIN batches'[b].texts
               PROVE  Waits(j, b)'
    BY DEF OpenTogether
  <2>1. Waits(i, b)
    BY WaitsStay
  <2>2. b \in 1..Len(batches)
    BY <2>1, NamedBatch DEF Waits
  <2>3. Waits(j, b)
    BY <2>1, <2>2 DEF SInv, OpenTogether, Later
  <2> QED BY <2>3, WaitsStay
<1> QED BY <1>1, <1>2

LEMMA KnowsStays ==
    ASSUME Serial, MInv, MInv', SInv, Typed', Later, TableSame, NEW w \in Workers,
           pc'[w] = pc[w], at'[w] = at[w], view'[w] = view[w], asked'[w] = asked[w],
           todo'[w] \subseteq todo[w]
    PROVE  Knows(w)'
<1>1. Knows(w) /\ todo[w] \subseteq 1..Len(batches)
  BY DEF SInv, MInv, Holds
<1>2. ASSUME NEW i \in Ids PROVE /\ Current(i)' = Current(i)
                                 /\ \A b : Waits(i, b)' <=> Waits(i, b)
  BY <1>2, WaitsStay
<1>3. \A b \in 1..Len(batches) :
        /\ b \in 1..Len(batches')
        /\ batches'[b].texts = batches[b].texts
        /\ DOMAIN batches[b].texts \subseteq Ids
  BY DEF Later, SInv, Typed
<1>4. DOMAIN asked[w] \subseteq Ids
  BY DEF SInv, Typed
<1>5. pc[w] \in {"collect", "store"} =>
        \A b \in todo'[w] : \A j \in DOMAIN batches'[b].texts : Waits(j, b)'
  <2> SUFFICES ASSUME pc[w] \in {"collect", "store"}, NEW b \in todo'[w],
                      NEW j \in DOMAIN batches'[b].texts
               PROVE  Waits(j, b)'
    OBVIOUS
  <2>1. b \in todo[w] /\ j \in DOMAIN batches[b].texts /\ j \in Ids
    BY <1>1, <1>3
  <2>2. Waits(j, b)
    BY <1>1, <2>1 DEF Knows
  <2> QED BY <1>2, <2>1, <2>2
<1>6. pc[w] = "store" =>
        /\ at[w] \in 1..Len(batches') \ todo'[w]
        /\ Ended(at[w])'
        /\ DOMAIN view[w] = DOMAIN batches'[at[w]].texts
        /\ \A i \in DOMAIN view[w] : view[w][i] = Current(i)' /\ Waits(i, at[w])'
  <2> SUFFICES ASSUME pc[w] = "store"
               PROVE  /\ at[w] \in 1..Len(batches') \ todo'[w]
                      /\ batches'[at[w]].results # None
                      /\ DOMAIN view[w] = DOMAIN batches'[at[w]].texts
                      /\ \A i \in DOMAIN view[w] :
                            view[w][i] = Current(i)' /\ Waits(i, at[w])'
    BY DEF Ended
  <2>1. /\ at[w] \in 1..Len(batches) \ todo[w]
        /\ Ended(at[w])
        /\ DOMAIN view[w] = DOMAIN batches[at[w]].texts
        /\ \A i \in DOMAIN view[w] : view[w][i] = Current(i) /\ Waits(i, at[w])
    BY <1>1 DEF Knows
  <2>2. \A i \in DOMAIN view[w] : i \in Ids
    BY <1>3, <2>1
  <2>3. batches'[at[w]].results # None
    BY <2>1 DEF Later, Ended
  <2> QED BY <1>2, <1>3, <2>1, <2>2, <2>3
<1>7. pc[w] \in {"ask", "record"} =>
        \A i \in DOMAIN asked[w] : Current(i)' # Null =>
            Current(i)'.status # "pending" /\ Current(i)'.hash # asked[w][i]
  BY <1>1, <1>2, <1>4 DEF Knows
<1>8. pc[w] = "record" =>
        /\ at[w] \in 1..Len(batches')
        /\ batches'[at[w]].texts = asked[w]
        /\ DOMAIN view[w] = DOMAIN asked[w]
        /\ \A i \in DOMAIN view[w] : view[w][i] = Current(i)'
  <2> SUFFICES ASSUME pc[w] = "record"
               PROVE  /\ at[w] \in 1..Len(batches')
                      /\ batches'[at[w]].texts = asked[w]
                      /\ DOMAIN view[w] = DOMAIN asked[w]
                      /\ \A i \in DOMAIN view[w] : view[w][i] = Current(i)'
    OBVIOUS
  <2>1. /\ at[w] \in 1..Len(batches)
        /\ batches[at[w]].texts = asked[w]
        /\ DOMAIN view[w] = DOMAIN asked[w]
        /\ \A i \in DOMAIN view[w] : view[w][i] = Current(i)
    BY <1>1 DEF Knows
  <2> QED BY <1>2, <1>3, <1>4, <2>1
<1> QED BY <1>1, <1>5, <1>6, <1>7, <1>8 DEF Knows

(***************************************************************************)
(* A step of the only session, of one that leaves the table alone.         *)
(***************************************************************************)
LEMMA SessionStep ==
    ASSUME Serial, MInv, MInv', SInv, Typed', Later, TableSame,
           NEW w \in Workers, Knows(w)'
    PROVE  SInv'
BY TableStays DEF SInv, Serial, OneSession

LEMMA FrameStays ==
    ASSUME Serial, MInv, MInv', SInv, Typed', Later, TableSame,
           UNCHANGED session
    PROVE  SInv'
BY TableStays, KnowsStays DEF SInv, session

LEMMA EscapeKnows ==
    ASSUME MInv, Typed, NEW w \in Workers, NEW place \in {"score", "broken", "idle"},
           Escape(w, place, None)
    PROVE  Knows(w)'
<1>1. pc'[w] = place /\ DOMAIN view'[w] = {}
  BY DEF Escape, GoTo, See, None, MInv, Shape
<1> QED BY <1>1 DEF Knows

LEMMA TypedStays ==
    ASSUME Typed, UNCHANGED <<text, live, batches>>, IsSeq(faults'), DOMAIN asked' = Workers,
           \A w \in Workers : asked'[w] = asked[w] \/ DOMAIN asked'[w] = {}
    PROVE  Typed'
BY DEF Typed, Ended

LEMMA FaultsStay ==
    ASSUME Typed, faults' = faults \/ \E kind : Fault(kind)
    PROVE  IsSeq(faults')
<1>1. IsSeq(faults)
  BY DEF Typed
<1>2. ASSUME NEW kind, Fault(kind) PROVE IsSeq(faults')
  <2>1. faults' = Append(faults, kind)
    BY <1>2 DEF Fault
  <2> QED BY <1>1, <2>1, AppendSeq
<1> QED BY <1>1, <1>2

LEMMA EscapeAsked ==
    ASSUME Typed, NEW w \in Workers, NEW place, NEW f, Escape(w, place, f)
    PROVE  /\ DOMAIN asked' = Workers
           /\ \A v \in Workers : asked'[v] = asked[v] \/ DOMAIN asked'[v] = {}
BY DEF Typed, Escape, None

-------------------------------------------------------------------------------
(***************************************************************************)
(* The steps of the session that write nothing.                            *)
(***************************************************************************)
LEMMA RunStays ==
    ASSUME Serial, MInv, MInv', SInv, NEW w \in Workers, Run(w) PROVE SInv'
<1>1. Later /\ TableSame /\ UNCHANGED <<batches, rows, version>>
  BY NothingLater DEF Run, TableSame, world
<1>2. Typed'
  BY TypedStays DEF Run, SInv, Typed, world
<1>3. pc'[w] = "collect" /\ todo'[w] = InFlight
  BY DEF Run, GoTo, MInv, Shape
<1>4. ASSUME NEW b \in InFlight, NEW j \in DOMAIN batches[b].texts PROVE Waits(j, b)
  <2>1. PICK x \in Pending : b = rows[x[1]][x[2]].batch
    BY DEF InFlight
  <2>2. x[1] \in Ids /\ x[2] = version
    BY OneVersion DEF Pending, Rows
  <2>3. Waits(x[1], b)
    BY <2>1, <2>2 DEF Pending, Rows, Waits, Current
  <2>4. b \in 1..Len(batches)
    BY <2>2, <2>3, NamedBatch DEF Waits
  <2>5. j \in Ids
    BY <2>4 DEF SInv, Typed
  <2> QED BY <2>2, <2>3, <2>4, <2>5 DEF SInv, OpenTogether
<1>5. \A b \in todo'[w] : \A j \in DOMAIN batches'[b].texts : Waits(j, b)'
  <2> SUFFICES ASSUME NEW b \in InFlight, NEW j \in DOMAIN batches[b].texts
               PROVE  Waits(j, b)'
    BY <1>1, <1>3
  <2>1. Waits(j, b)
    BY <1>4
  <2> QED BY <1>1, <2>1 DEF Waits, Current
<1>6. Knows(w)'
  BY <1>3, <1>5 DEF Knows
<1> QED BY <1>1, <1>2, <1>6, SessionStep

LEMMA LookStays ==
    ASSUME Serial, MInv, MInv', SInv, NEW w \in Workers,
           \E b : NotEnded(w, b) \/ RetrieveFails(w, b)
    PROVE  SInv'
<1>1. Later /\ TableSame
  BY NothingLater DEF NotEnded, RetrieveFails, TableSame, world
<1>2. faults' = faults \/ \E kind : Fault(kind)
  BY DEF NotEnded, RetrieveFails
<1>3. Typed'
  BY <1>2, FaultsStay, TypedStays DEF NotEnded, RetrieveFails, SInv, Typed, world
<1>4. /\ UNCHANGED <<pc, at, view, asked>> /\ todo'[w] \subseteq todo[w]
  BY DEF NotEnded, RetrieveFails, Done, MInv, Shape
<1> QED BY <1>1, <1>3, <1>4, KnowsStays, SessionStep

LEMMA SelectStays ==
    ASSUME Serial, MInv, MInv', SInv, NEW w \in Workers,
           SelectListings(w) \/ NothingToSubmit(w)
    PROVE  SInv'
<1>1. Later /\ TableSame /\ UNCHANGED <<rows, batches, text, version>>
  BY NothingLater DEF SelectListings, NothingToSubmit, TableSame, world
<1>2. CASE SelectListings(w)
  <2>1. PICK S \in SUBSET Needing : asked' = [asked EXCEPT ![w] = [i \in S |-> text[i]]]
    BY <1>2 DEF SelectListings
  <2>2. /\ asked'[w] = [i \in S |-> text[i]]
        /\ DOMAIN asked' = Workers
        /\ \A v \in Workers \ {w} : asked'[v] = asked[v]
        /\ pc'[w] = "ask"
    BY <1>2, <2>1 DEF SelectListings, GoTo, SInv, Typed, MInv, Shape
  <2>3. DOMAIN asked'[w] = S /\ \A i \in S : asked'[w][i] = text[i]
    BY <2>2
  <2>4. \A i \in S :
          /\ i \in Ids /\ text[i] # Null
          /\ Current(i) # Null =>
               Current(i).status # "pending" /\ Current(i).hash # text[i]
    <3>1. \A i \in Needing : i \in live /\ NeedsExtraction(i)
      BY DEF Needing
    <3> QED BY <3>1 DEF NeedsExtraction, SInv, Typed
  <2>5. Typed'
    <3>1. live' = live /\ faults' = faults
      BY <1>2 DEF SelectListings, world
    <3>2. ASSUME NEW i \in S PROVE i \in Ids /\ text[i] \in Texts
      <4>1. i \in Ids /\ text[i] # Null
        BY <2>4
      <4>2. text \in [Ids -> Texts \cup {Null}]
        BY DEF SInv, Typed
      <4> QED BY <4>1, <4>2
    <3>3. \A v \in Workers :
            /\ DOMAIN asked'[v] \subseteq Ids
            /\ \A i \in DOMAIN asked'[v] : asked'[v][i] \in Texts
      <4>1. /\ DOMAIN asked'[w] \subseteq Ids
            /\ \A i \in DOMAIN asked'[w] : asked'[w][i] \in Texts
        BY <2>3, <3>2
      <4> QED BY <2>2, <4>1 DEF SInv, Typed
    <3> QED BY <1>1, <2>2, <3>1, <3>3 DEF SInv, Typed, Ended
  <2>6. \A i \in DOMAIN asked'[w] :
          Current(i)' # Null =>
              Current(i)'.status # "pending" /\ Current(i)'.hash # asked'[w][i]
    <3> SUFFICES ASSUME NEW i \in S, Current(i)' # Null
                 PROVE  Current(i)'.status # "pending" /\ Current(i)'.hash # asked'[w][i]
      BY <2>3
    <3>1. Current(i)' = Current(i) /\ asked'[w][i] = text[i]
      BY <1>1, <2>3 DEF Current
    <3> QED BY <2>4, <3>1
  <2>7. Knows(w)'
    BY <2>2, <2>6 DEF Knows
  <2> QED BY <1>1, <2>5, <2>7, SessionStep
<1>3. CASE NothingToSubmit(w)
  <2>1. Typed'
    BY <1>3, TypedStays DEF NothingToSubmit, SInv, Typed, world
  <2>2. pc'[w] = "score" /\ DOMAIN view'[w] = {}
    BY <1>3 DEF NothingToSubmit, GoTo, MInv, Shape, Holds
  <2>3. Knows(w)'
    BY <2>2 DEF Knows
  <2> QED BY <1>1, <2>1, <2>3, SessionStep
<1> QED BY <1>2, <1>3

LEMMA ReadStays ==
    ASSUME Serial, MInv, MInv', SInv, NEW w \in Workers, NEW b, ReadResults(w, b)
    PROVE  SInv'
<1>1. Later /\ TableSame /\ UNCHANGED <<rows, batches, version>>
  BY NothingLater DEF ReadResults, TableSame, world
<1>2. Typed'
  BY TypedStays DEF ReadResults, SInv, Typed, world
<1>3. /\ pc[w] = "collect" /\ b \in todo[w] /\ Ended(b)
      /\ pc'[w] = "store" /\ at'[w] = b /\ todo'[w] = todo[w] \ {b}
      /\ view'[w] = [i \in DOMAIN batches[b].results |-> Current(i)]
  BY DEF ReadResults, Done, GoTo, See, MInv, Shape
<1>4. /\ b \in 1..Len(batches)
      /\ DOMAIN batches[b].results = DOMAIN batches[b].texts
  BY <1>3 DEF MInv, Holds, Shape, BatchShape, Ended
<1>5. \A c \in todo[w] : \A j \in DOMAIN batches[c].texts : Waits(j, c)
  BY <1>3 DEF SInv, Knows
<1>6. \A i : Current(i)' = Current(i) /\ \A c : Waits(i, c)' <=> Waits(i, c)
  BY <1>1 DEF Current, Waits
<1>7. \A c \in todo'[w] : \A j \in DOMAIN batches'[c].texts : Waits(j, c)'
  BY <1>1, <1>3, <1>5, <1>6
<1>8. /\ b \in 1..Len(batches') \ todo'[w] /\ Ended(b)'
      /\ DOMAIN view'[w] = DOMAIN batches'[b].texts
      /\ \A i \in DOMAIN view'[w] : view'[w][i] = Current(i)' /\ Waits(i, b)'
  <2>1. /\ DOMAIN view'[w] = DOMAIN batches[b].texts
        /\ \A i \in DOMAIN view'[w] : view'[w][i] = Current(i)
    BY <1>3, <1>4
  <2>2. Ended(b)'
    BY <1>1, <1>3 DEF Ended
  <2> QED BY <1>1, <1>3, <1>4, <1>5, <1>6, <2>1, <2>2
<1>9. Knows(w)'
  BY <1>3, <1>7, <1>8 DEF Knows
<1> QED BY <1>1, <1>2, <1>9, SessionStep

(***************************************************************************)
(* A batch is created: recorded in the next step, or never known of.       *)
(***************************************************************************)
LEMMA CreatedLater ==
    ASSUME Serial, MInv, SInv, NEW w \in Workers,
           batches' = batches \/ batches' = Created(w),
           UNCHANGED <<text, live, rows, version>>, IsSeq(faults'),
           DOMAIN asked' = Workers,
           \A v \in Workers : asked'[v] = asked[v] \/ DOMAIN asked'[v] = {}
    PROVE  Later /\ TableSame /\ Typed'
<1> DEFINE new == [version |-> version, texts |-> asked[w], results |-> None]
<1>1. new.texts = asked[w] /\ new.results = None /\ new.version = 1
  BY OneVersion
<1>2. batches' = batches \/ batches' = Append(batches, new)
  BY DEF Created
<1> HIDE DEF new
<1>3. /\ Len(batches) \in Nat /\ Len(batches') \in Nat
      /\ Len(batches) <= Len(batches')
      /\ \A b \in 1..Len(batches) : batches'[b] = batches[b]
      /\ \A b \in 1..Len(batches') : b \in 1..Len(batches) \/ batches'[b] = new
  <2>1. IsSeq(batches) /\ Len(batches) \in Nat
    BY AppendSeq DEF MInv, Shape
  <2>2. CASE batches' = batches
    BY <2>1, <2>2
  <2>3. CASE batches' = Append(batches, new)
    BY <2>1, <2>3, AppendSeq
  <2> QED BY <1>2, <2>2, <2>3
<1>4. Later /\ TableSame
  BY <1>3 DEF Later, TableSame
<1>5. ASSUME NEW b \in 1..Len(batches')
      PROVE  /\ batches'[b].version = 1
             /\ DOMAIN batches'[b].texts \subseteq Ids
             /\ \A i \in DOMAIN batches'[b].texts :
                   /\ batches'[b].texts[i] \in Texts
                   /\ Ended(b)' => batches'[b].results[i] \in Outcomes
  <2>1. CASE b \in 1..Len(batches)
    BY <1>3, <2>1 DEF SInv, Typed, Ended
  <2>2. CASE batches'[b] = new
    BY <1>1, <2>2 DEF SInv, Typed, Ended
  <2> QED BY <1>3, <2>1, <2>2
<1>6. Typed'
  BY <1>5 DEF SInv, Typed
<1> QED BY <1>4, <1>6

LEMMA CreateStays ==
    ASSUME Serial, MInv, MInv', SInv, NEW w \in Workers, CreateBatch(w) PROVE SInv'
<1>1. /\ batches' = Created(w) /\ UNCHANGED <<text, live, rows, version, asked, faults>>
      /\ pc[w] = "ask" /\ pc'[w] = "record" /\ at'[w] = Len(batches) + 1
      /\ view'[w] = [i \in DOMAIN asked[w] |-> Current(i)]
  BY DEF CreateBatch, GoTo, See, MInv, Shape, world
<1>2. Later /\ TableSame /\ Typed'
  BY <1>1, CreatedLater DEF SInv, Typed
<1>3. at'[w] \in 1..Len(batches') /\ batches'[at'[w]].texts = asked'[w]
  BY <1>1, AppendSeq DEF Created, MInv, Shape
<1>4. \A i : Current(i)' = Current(i)
  BY <1>1 DEF Current
<1>5. /\ DOMAIN view'[w] = DOMAIN asked'[w]
      /\ \A i \in DOMAIN view'[w] : view'[w][i] = Current(i)'
  BY <1>1, <1>4
<1>6. \A i \in DOMAIN asked'[w] : Current(i)' # Null =>
          Current(i)'.status # "pending" /\ Current(i)'.hash # asked'[w][i]
  BY <1>1, <1>4 DEF SInv, Knows
<1>7. Knows(w)'
  BY <1>1, <1>3, <1>5, <1>6 DEF Knows
<1> QED BY <1>2, <1>7, SessionStep

LEMMA CreateFailsStays ==
    ASSUME Serial, MInv, MInv', SInv, NEW w \in Workers, CreateFails(w) PROVE SInv'
<1>1. /\ batches' = batches \/ batches' = Created(w)
      /\ UNCHANGED <<text, live, rows, version>>
      /\ Escape(w, "score", None)
      /\ \E kind : Fault(kind)
  BY DEF CreateFails, world
<1>2. Later /\ TableSame /\ Typed'
  BY <1>1, CreatedLater, FaultsStay, EscapeAsked DEF SInv
<1> QED BY <1>1, <1>2, EscapeKnows, SessionStep DEF SInv

LEMMA DropStays ==
    ASSUME Serial, MInv, MInv', SInv, NEW w \in Workers,
           StoreBreaks(w) \/ RecordCollides(w) \/ ScoringLost(w) \/ Crash(w)
    PROVE  SInv'
<1>1. /\ UNCHANGED <<text, live, rows, batches>>
      /\ faults' = faults \/ \E kind : Fault(kind)
      /\ Escape(w, "broken", None) \/ Escape(w, "idle", None)
  BY DEF StoreBreaks, RecordCollides, ScoringLost, Crash, world
<1>2. Later /\ TableSame
  BY <1>1, NothingLater DEF TableSame
<1>3. Typed'
  BY <1>1, EscapeAsked, FaultsStay, TypedStays DEF SInv
<1>4. Knows(w)'
  BY <1>1, EscapeKnows DEF SInv
<1> QED BY <1>2, <1>3, <1>4, SessionStep

-------------------------------------------------------------------------------
(***************************************************************************)
(* The steps that write.  What the session read is what is stored, so a    *)
(* row becomes what the session would have it be, in every column.         *)
(***************************************************************************)
LEMMA WrittenRow ==
    ASSUME Serial, MInv, NEW f, NEW new, rows' = Written(f, new), version' = version,
           \A i \in DOMAIN f \cap Ids :
               f[i] = Current(i) /\ (f[i] # Null => DOMAIN f[i] = DOMAIN new[i])
    PROVE  /\ \A i \in DOMAIN f \cap Ids :
                 /\ Current(i) = Null => Current(i)' = new[i]
                 /\ Current(i) # Null =>
                      Current(i)' = [c \in DOMAIN new[i] |-> new[i][c]]
           /\ \A i \in Ids \ DOMAIN f : Current(i)' = Current(i)
<1>1. version = 1 /\ version' = 1
  BY OneVersion
<1>2. \A i \in Ids : DOMAIN rows[i] = {1}
  BY OneVersion DEF MInv, Shape
<1>3. ASSUME NEW i \in DOMAIN f \cap Ids
      PROVE  Current(i)' = IF f[i] = Null THEN new[i]
                           ELSE WriteColumns(Current(i), f[i], new[i])
  BY <1>1, <1>2 DEF Written, Current
<1>4. ASSUME NEW i \in DOMAIN f \cap Ids, Current(i) # Null
      PROVE  Current(i)' = [c \in DOMAIN new[i] |-> new[i][c]]
  <2>1. f[i] = Current(i) /\ DOMAIN Current(i) = DOMAIN new[i]
    BY <1>4
  <2>2. Current(i)' = [c \in DOMAIN new[i] |->
                         IF new[i][c] # f[i][c] THEN new[i][c] ELSE f[i][c]]
    BY <1>3, <1>4, <2>1 DEF WriteColumns
  <2> QED BY <2>2
<1>5. ASSUME NEW i \in Ids \ DOMAIN f PROVE Current(i)' = Current(i)
  BY <1>1, <1>2 DEF Written, Current
<1> QED BY <1>3, <1>4, <1>5

(***************************************************************************)
(* The answer row of a batch that has ended, made from the pending one.    *)
(***************************************************************************)
LEMMA ResultFits ==
    ASSUME MInv, SInv, NEW b \in 1..Len(batches), Ended(b),
           NEW i \in DOMAIN batches[b].texts, Waits(i, b), NEW row,
           row = [c \in DOMAIN ResultRow(Current(i), b, i) |->
                     ResultRow(Current(i), b, i)[c]]
    PROVE  RowFits(i, row) /\ row.status # "pending" /\ row.batch = b
<1> DEFINE old == Current(i)
           r   == batches[b].results[i]
<1>1. /\ i \in Ids /\ r \in Outcomes /\ batches[b].texts[i] \in Texts
      /\ i \in DOMAIN batches[b].results /\ BatchShape(batches[b])
      /\ b \in Nat
  BY AppendSeq DEF SInv, Typed, MInv, Shape, BatchShape, Ended
<1>2. old \in Entry /\ old.hash = batches[b].texts[i]
  BY <1>1 DEF SInv, RowsFit, RowFits, Waits
<1>3. /\ r.kind \in Kinds
      /\ r.kind = "answered" => r.reading \in Readings /\ DOMAIN r.reading = Fields
  BY <1>1, MotivationAssumption DEF Outcomes
<1>4. StatusOf[r.kind] \in {"ok", "refused", "invalid", "empty"}
      /\ (StatusOf[r.kind] = "ok" <=> r.kind = "answered")
  BY <1>3 DEF StatusOf, Kinds
<1>5. DOMAIN old = {"status", "hash", "batch"} \cup Fields
      /\ \A c \in Fields : old[c] \in Values(c)
  BY <1>2 DEF Entry, Fields
<1> HIDE DEF old, r
<1>6. /\ DOMAIN row = DOMAIN old
      /\ row.status = StatusOf[r.kind] /\ row.batch = b /\ row.hash = old.hash
      /\ \A c \in Fields : row[c] = IF r.kind = "answered" THEN r.reading[c] ELSE old[c]
      /\ row = [c \in DOMAIN row |-> row[c]]
  BY <1>1, <1>5, ResultColumns DEF old, r
<1>7. ASSUME NEW c \in Fields PROVE row[c] \in Values(c)
  <2>1. CASE r.kind = "answered"
    BY <1>3, <1>6, <2>1 DEF Values
  <2>2. CASE r.kind # "answered"
    BY <1>5, <1>6, <2>2
  <2> QED BY <2>1, <2>2
<1>8. row \in Entry
  <2>1. /\ row.motivated \in Values("motivated") /\ row.score \in Values("score")
        /\ row.signals \in Values("signals") /\ row.quote \in Values("quote")
        /\ row.confidence \in Values("confidence")
    BY <1>7 DEF Fields
  <2>2. row.status \in {"pending", "ok", "refused", "invalid", "empty"}
        /\ row.hash \in Texts /\ row.batch \in Nat
    BY <1>1, <1>2, <1>4, <1>6
  <2>3. DOMAIN row = {"status", "hash", "batch", "motivated", "score", "signals", "quote",
                      "confidence"}
    BY <1>5, <1>6 DEF Fields
  <2> QED BY <1>6, <2>1, <2>2, <2>3 DEF Entry
<1>9. row.status = "ok" => Holding(row, i, b)
  BY <1>4, <1>6 DEF Holding, Answered, r
<1> QED BY <1>2, <1>4, <1>6, <1>8, <1>9 DEF RowFits

(***************************************************************************)
(* What StoreResults makes of the rows, and of no others.                  *)
(***************************************************************************)
LEMMA StoredRows ==
    ASSUME Serial, MInv, MInv', SInv, NEW w \in Workers, StoreResults(w)
    PROVE  /\ at[w] \in 1..Len(batches) \ todo[w]
           /\ Ended(at[w])
           /\ DOMAIN view[w] = DOMAIN batches[at[w]].texts /\ DOMAIN view[w] \subseteq Ids
           /\ \A i \in DOMAIN view[w] :
                 /\ Waits(i, at[w]) /\ RowFits(i, Current(i)')
                 /\ Current(i)'.status # "pending" /\ Current(i)'.batch = at[w]
           /\ \A i \in Ids \ DOMAIN view[w] : Current(i)' = Current(i)
<1> DEFINE f   == view[w]
           b   == at[w]
           new == [i \in DOMAIN f |-> ResultRow(f[i], b, i)]
<1>1. /\ b \in 1..Len(batches) \ todo[w] /\ Ended(b)
      /\ DOMAIN f = DOMAIN batches[b].texts
      /\ \A i \in DOMAIN f : f[i] = Current(i) /\ Waits(i, b)
  BY DEF StoreResults, SInv, Knows
<1>2. DOMAIN f \subseteq Ids
  BY <1>1 DEF SInv, Typed
<1>3. rows' = Written(f, new) /\ version' = version
  BY DEF StoreResults, Stored, world
<1>4. \A i \in DOMAIN f : new[i] = ResultRow(Current(i), b, i)
  BY <1>1
<1> HIDE DEF new
<1>5. ASSUME NEW i \in DOMAIN f \cap Ids
      PROVE  f[i] = Current(i) /\ (f[i] # Null => DOMAIN f[i] = DOMAIN new[i])
  BY <1>1, <1>4 DEF ResultRow, With
<1>6. /\ \A i \in DOMAIN f \cap Ids :
            Current(i) # Null => Current(i)' = [c \in DOMAIN new[i] |-> new[i][c]]
      /\ \A i \in Ids \ DOMAIN f : Current(i)' = Current(i)
  BY <1>3, <1>5, WrittenRow
<1>7. ASSUME NEW i \in DOMAIN f
      PROVE  /\ RowFits(i, Current(i)')
             /\ Current(i)'.status # "pending" /\ Current(i)'.batch = b
  <2>1. Waits(i, b) /\ i \in DOMAIN batches[b].texts /\ i \in Ids
    BY <1>1, <1>2
  <2>2. Current(i)' = [c \in DOMAIN ResultRow(Current(i), b, i) |->
                          ResultRow(Current(i), b, i)[c]]
    BY <1>4, <1>6, <2>1 DEF Waits
  <2> QED BY <1>1, <2>1, <2>2, ResultFits
<1> QED BY <1>1, <1>2, <1>6, <1>7

LEMMA StoreStays ==
    ASSUME Serial, MInv, MInv', SInv, NEW w \in Workers, StoreResults(w) PROVE SInv'
<1> DEFINE f == view[w]
           b == at[w]
<1>1. /\ b \in 1..Len(batches) \ todo[w] /\ Ended(b)
      /\ DOMAIN f = DOMAIN batches[b].texts /\ DOMAIN f \subseteq Ids
      /\ \A i \in DOMAIN f : /\ Waits(i, b)
                             /\ RowFits(i, Current(i)')
                             /\ Current(i)'.status # "pending"
      /\ \A i \in Ids \ DOMAIN f : Current(i)' = Current(i)
  BY StoredRows
<1>2. /\ UNCHANGED <<text, live, batches, asked, faults>>
      /\ pc[w] = "store" /\ pc'[w] = "collect" /\ todo'[w] = todo[w]
  BY DEF StoreResults, GoTo, world, MInv, Shape
<1> HIDE DEF f, b
<1>3. Typed'
  BY <1>2, TypedStays DEF SInv, Typed
<1>4. \A i \in Ids \ DOMAIN f : \A c : Waits(i, c)' <=> Waits(i, c)
  BY <1>1 DEF Waits
<1>5. \A i \in DOMAIN f : \A c : ~Waits(i, c)' /\ (Waits(i, c) => c = b)
  BY <1>1 DEF Waits
<1>6. RowsFit'
  <2> SUFFICES ASSUME NEW i \in Ids, Current(i)' # Null PROVE RowFits(i, Current(i))'
    BY DEF RowsFit
  <2>1. RowFits(i, Current(i)')
    BY <1>1 DEF SInv, RowsFit
  <2> QED BY <1>2, <2>1 DEF RowFits, Ended, Holding, Answered
<1>7. \A i \in Ids : Waits(i, b) => i \in DOMAIN f
  BY <1>1 DEF SInv, RowsFit, RowFits, Waits
<1>8. OpenTogether'
  <2> SUFFICES ASSUME NEW i \in Ids, NEW j \in Ids, NEW c \in 1..Len(batches),
                      Waits(i, c)', j \in DOMAIN batches[c].texts
               PROVE  Waits(j, c)'
    BY <1>2 DEF OpenTogether
  <2>1. i \notin DOMAIN f /\ Waits(i, c)
    BY <1>4, <1>5
  <2>2. Waits(j, c)
    BY <2>1 DEF SInv, OpenTogether
  <2>3. c # b
    BY <1>7, <2>1
  <2> QED BY <1>4, <1>5, <2>2, <2>3
<1>9. \A c \in todo'[w] : \A j \in DOMAIN batches'[c].texts : Waits(j, c)'
  <2> SUFFICES ASSUME NEW c \in todo[w], NEW j \in DOMAIN batches[c].texts
               PROVE  Waits(j, c)'
    BY <1>2
  <2>1. Waits(j, c) /\ c # b
    BY <1>1, <1>2 DEF SInv, Knows
  <2>2. c \in 1..Len(batches)
    BY DEF MInv, Holds
  <2>3. j \in Ids
    BY <2>2 DEF SInv, Typed
  <2> QED BY <1>4, <1>5, <2>1, <2>3
<1>10. Knows(w)'
  BY <1>2, <1>9 DEF Knows
<1> QED BY <1>3, <1>6, <1>8, <1>10 DEF SInv, Serial, OneSession

LEMMA ScoreStays ==
    ASSUME Serial, MInv, MInv', SInv, NEW w \in Workers, ScoreListings(w) PROVE SInv'
<1>1. /\ rows' = Stored(view[w], at[w]) /\ UNCHANGED <<text, live, version, batches, faults>>
      /\ pc[w] = "score" /\ Escape(w, "idle", None)
  BY DEF ScoreListings, world
<1>2. DOMAIN view[w] = {}
  BY <1>1 DEF SInv, Knows
<1>3. TableSame
  BY <1>1, <1>2 DEF Stored, Written, TableSame
<1>4. Later
  BY <1>1, AppendSeq DEF Later, MInv, Shape
<1>5. Typed'
  BY <1>1, EscapeAsked, TypedStays DEF SInv, Typed
<1> QED BY <1>1, <1>3, <1>4, <1>5, EscapeKnows, SessionStep DEF SInv

(***************************************************************************)
(* What RecordPending makes of the rows, and of no others.                 *)
(***************************************************************************)
LEMMA RecordedRows ==
    ASSUME Serial, MInv, MInv', SInv, NEW w \in Workers, RecordPending(w)
    PROVE  /\ at[w] \in 1..Len(batches) /\ batches[at[w]].texts = asked[w]
           /\ DOMAIN view[w] = DOMAIN asked[w] /\ DOMAIN asked[w] \subseteq Ids
           /\ \A i \in DOMAIN asked[w] :
                 /\ Current(i) # Null => /\ Current(i).status # "pending"
                                         /\ Current(i).hash # asked[w][i]
                 /\ Current(i)' = PendingRow(w, i) /\ Current(i)' \in Entry
           /\ \A i \in Ids \ DOMAIN asked[w] : Current(i)' = Current(i)
<1> DEFINE f   == view[w]
           new == [i \in DOMAIN f |-> PendingRow(w, i)]
<1>1. /\ at[w] \in 1..Len(batches) /\ batches[at[w]].texts = asked[w]
      /\ DOMAIN f = DOMAIN asked[w] /\ DOMAIN asked[w] \subseteq Ids
      /\ \A i \in DOMAIN asked[w] :
            /\ Current(i) # Null => /\ Current(i).status # "pending"
                                    /\ Current(i).hash # asked[w][i]
            /\ f[i] = Current(i)
  BY DEF RecordPending, SInv, Knows, Typed
<1>2. rows' = Written(f, new) /\ version' = version
  BY DEF RecordPending, world
<1>3. \A i \in DOMAIN f : new[i] = PendingRow(w, i)
  OBVIOUS
<1> HIDE DEF new
<1>4. ASSUME NEW i \in DOMAIN f
      PROVE  /\ PendingRow(w, i) \in Entry
             /\ PendingRow(w, i) = [c \in DOMAIN PendingRow(w, i) |-> PendingRow(w, i)[c]]
  <2>1. asked[w][i] \in Texts /\ at[w] \in Nat
    BY <1>1, AppendSeq DEF SInv, Typed, MInv, Shape
  <2>2. \A c \in Fields : Cleared[c] \in Values(c)
    BY DEF Values
  <2>3. /\ Null \in Values("motivated") /\ Null \in Values("score")
        /\ {} \in Values("signals") /\ Null \in Values("quote")
        /\ Null \in Values("confidence")
    BY <2>2 DEF Fields, Cleared
  <2> QED BY <2>1, <2>3 DEF PendingRow, Entry
<1>5. ASSUME NEW i \in DOMAIN f \cap Ids
      PROVE  f[i] = Current(i) /\ (f[i] # Null => DOMAIN f[i] = DOMAIN new[i])
  <2>1. f[i] = Current(i) /\ new[i] \in Entry
    BY <1>1, <1>3, <1>4
  <2>2. f[i] # Null => f[i] \in Entry
    BY <2>1 DEF SInv, RowsFit, RowFits
  <2>3. \A x, y \in Entry : DOMAIN x = DOMAIN y
    BY DEF Entry
  <2> QED BY <2>1, <2>2, <2>3
<1>6. /\ \A i \in DOMAIN f \cap Ids :
            /\ Current(i) = Null => Current(i)' = new[i]
            /\ Current(i) # Null => Current(i)' = [c \in DOMAIN new[i] |-> new[i][c]]
      /\ \A i \in Ids \ DOMAIN f : Current(i)' = Current(i)
  BY <1>2, <1>5, WrittenRow
<1>7. ASSUME NEW i \in DOMAIN asked[w]
      PROVE  Current(i)' = PendingRow(w, i) /\ Current(i)' \in Entry
  <2>1. Current(i)' = PendingRow(w, i)
    BY <1>1, <1>3, <1>4, <1>6
  <2> QED BY <1>1, <1>4, <2>1
<1> QED BY <1>1, <1>6, <1>7

LEMMA RecordStays ==
    ASSUME Serial, MInv, MInv', SInv, NEW w \in Workers, RecordPending(w) PROVE SInv'
<1> DEFINE D == DOMAIN asked[w]
           b == at[w]
<1>1. /\ b \in 1..Len(batches) /\ batches[b].texts = asked[w] /\ D \subseteq Ids
      /\ \A i \in D : /\ Current(i) # Null => Current(i).status # "pending"
                      /\ Current(i)' = PendingRow(w, i) /\ Current(i)' \in Entry
      /\ \A i \in Ids \ D : Current(i)' = Current(i)
  BY RecordedRows
<1>2. UNCHANGED <<text, live, batches, faults>> /\ Escape(w, "score", None)
  BY DEF RecordPending, world
<1>3. Typed'
  BY <1>2, EscapeAsked, TypedStays DEF SInv, Typed
<1>4. Knows(w)'
  BY <1>2, EscapeKnows DEF SInv
<1>5. \A i \in D : /\ Current(i)' # Null /\ ~\E c : Waits(i, c)
                   /\ Current(i)'.status = "pending" /\ Current(i)'.batch = b
  BY <1>1, MotivationAssumption DEF PendingRow, Waits
<1> HIDE DEF D, b
<1>6. /\ \A i \in Ids \ D : \A c : Waits(i, c)' <=> Waits(i, c)
      /\ \A i \in D : \A c : Waits(i, c)' <=> c = b
  BY <1>1, <1>5 DEF Waits
<1>7. RowsFit'
  <2> SUFFICES ASSUME NEW i \in Ids, Current(i)' # Null PROVE RowFits(i, Current(i))'
    BY DEF RowsFit
  <2>1. CASE i \in D
    <3>1. Current(i)' = PendingRow(w, i)
      BY <1>1, <2>1
    <3>2. /\ Current(i)' \in Entry /\ Current(i)'.status = "pending"
          /\ Current(i)'.hash = asked[w][i] /\ Current(i)'.batch = b
      <4>1. Current(i)' \in Entry
        BY <1>1, <2>1
      <4> QED BY <3>1, <4>1 DEF PendingRow, b
    <3> QED BY <1>1, <1>2, <2>1, <3>2 DEF RowFits, D
  <2>2. CASE i \notin D
    <3>1. RowFits(i, Current(i)')
      BY <1>1, <2>2 DEF SInv, RowsFit
    <3> QED BY <1>2, <3>1 DEF RowFits, Ended, Holding, Answered
  <2> QED BY <2>1, <2>2
<1>8. OpenTogether'
  <2> SUFFICES ASSUME NEW i \in Ids, NEW j \in Ids, NEW c \in 1..Len(batches),
                      Waits(i, c)', j \in DOMAIN batches[c].texts
               PROVE  Waits(j, c)'
    BY <1>2 DEF OpenTogether
  <2>1. CASE i \in D
    BY <1>1, <1>6, <2>1 DEF D
  <2>2. CASE i \notin D
    <3>1. Waits(j, c)
      BY <1>6, <2>2 DEF SInv, OpenTogether
    <3> QED BY <1>5, <1>6, <3>1
  <2> QED BY <2>1, <2>2
<1> QED BY <1>3, <1>4, <1>7, <1>8 DEF SInv, Serial, OneSession

-------------------------------------------------------------------------------
(***************************************************************************)
(* The steps of the rest of the system.                                    *)
(***************************************************************************)
LEMMA OthersStay ==
    ASSUME Serial, MInv, MInv', SInv,
           (\E i \in Ids : Edit(i)) \/ UNCHANGED vars
    PROVE  SInv'
<1>1. UNCHANGED <<rows, batches, session, faults, version>>
  BY DEF Edit, vars, world
<1>2. Later /\ TableSame
  BY <1>1, NothingLater DEF TableSame
<1>3. text' \in [Ids -> Texts \cup {Null}] /\ live' \subseteq Ids
  BY DEF Edit, vars, world, SInv, Typed
<1>4. Typed'
  BY <1>1, <1>3 DEF SInv, Typed, session, Ended
<1> QED BY <1>1, <1>2, <1>4, FrameStays

LEMMA EndStays ==
    ASSUME Serial, MInv, MInv', SInv, NEW b \in 1..Len(batches), End(b) PROVE SInv'
<1>1. UNCHANGED <<text, live, rows, session, faults>>
  BY DEF End, world
<1>2. /\ Later /\ Len(batches') = Len(batches)
      /\ batches'[b].results \in [DOMAIN batches[b].texts -> Outcomes]
      /\ \A c \in 1..Len(batches) : c # b => batches'[c] = batches[c]
  BY EndLater
<1>3. ASSUME NEW c \in 1..Len(batches')
      PROVE  /\ batches'[c].version = 1
             /\ DOMAIN batches'[c].texts \subseteq Ids
             /\ \A i \in DOMAIN batches'[c].texts :
                   /\ batches'[c].texts[i] \in Texts
                   /\ Ended(c)' => batches'[c].results[i] \in Outcomes
  <2>1. /\ batches'[c].version = batches[c].version
        /\ batches'[c].texts = batches[c].texts
        /\ batches[c].version = 1
        /\ DOMAIN batches[c].texts \subseteq Ids
        /\ \A i \in DOMAIN batches[c].texts :
              /\ batches[c].texts[i] \in Texts
              /\ batches[c].results # None => batches[c].results[i] \in Outcomes
    BY <1>2 DEF Later, SInv, Typed, Ended
  <2>2. \A i \in DOMAIN batches[c].texts :
          batches'[c].results # None => batches'[c].results[i] \in Outcomes
    <3>1. CASE c = b
      BY <1>2, <3>1
    <3>2. CASE c # b
      BY <1>2, <2>1, <3>2
    <3> QED BY <3>1, <3>2
  <2> QED BY <2>1, <2>2 DEF Ended
<1>4. Typed'
  BY <1>1, <1>3 DEF SInv, Typed, session
<1>5. TableSame
  BY <1>1 DEF TableSame
<1> QED BY <1>1, <1>2, <1>4, <1>5, FrameStays

LEMMA FaultsGrow ==
    ASSUME IsSeq(faults), [Next]_vars
    PROVE  /\ IsSeq(faults') /\ Len(faults) \in Nat
           /\ \/ Len(faults') = Len(faults)
              \/ Len(faults') = Len(faults) + 1
           /\ \A k \in 1..Len(faults) : faults'[k] = faults[k]
<1>1. faults' = faults \/ \E kind : Fault(kind)
  BY DEF Next, Edit, End, Deploy, Advance, Run, NothingToSubmit, SelectListings,
         CreateBatch, RecordPending, RecordCollides, StoreResults, StoreBreaks,
         ScoreListings, ScoringLost, NotEnded, ReadResults, Fails, StreamFails,
         CreateFails, Crash, RetrieveFails, vars
<1>2. ASSUME NEW kind, Fault(kind)
      PROVE  /\ IsSeq(faults') /\ Len(faults') = Len(faults) + 1
             /\ \A k \in 1..Len(faults) : faults'[k] = faults[k]
  <2>1. faults' = Append(faults, kind)
    BY <1>2 DEF Fault
  <2> QED BY <2>1, AppendSeq
<1>3. Len(faults) \in Nat
  BY AppendSeq
<1> QED BY <1>1, <1>2, <1>3

LEMMA StreamBreaks ==
    ASSUME IsSeq(faults), Fault("stream") PROVE ~NoStreamBroke'
<1>1. faults' = Append(faults, "stream")
  BY DEF Fault
<1>2. /\ Len(faults) \in Nat /\ Len(faults') = Len(faults) + 1
      /\ faults'[Len(faults) + 1] = "stream"
  BY <1>1, AppendSeq
<1> QED BY <1>2 DEF NoStreamBroke

LEMMA NextSInv ==
    ASSUME Serial, MInv, MInv', SInv, NoStreamBroke', [Next]_vars PROVE SInv'
<1>1. CASE (\E i \in Ids : Edit(i)) \/ UNCHANGED vars
  BY <1>1, OthersStay
<1>2. CASE \E b \in 1..Len(batches) : End(b)
  BY <1>2, EndStays
<1>3. CASE Deploy
  BY <1>3, OneVersion DEF Deploy, Serial
<1>4. ASSUME NEW w \in Workers, Advance(w) PROVE SInv'
  <2>1. CASE \E b \in todo[w] : NotEnded(w, b) \/ ReadResults(w, b)
    BY <2>1, LookStays, ReadStays
  <2>2. CASE NothingToSubmit(w) \/ SelectListings(w) \/ CreateBatch(w)
    BY <2>2, SelectStays, CreateStays
  <2>3. CASE StoreBreaks(w) \/ RecordCollides(w) \/ ScoringLost(w)
    BY <2>3, DropStays
  <2> QED BY <1>4, <2>1, <2>2, <2>3, RunStays, StoreStays, ScoreStays, RecordStays
          DEF Advance
<1>5. ASSUME NEW w \in Workers, Fails(w) PROVE SInv'
  <2>1. ~StreamFails(w)
    BY StreamBreaks DEF StreamFails, SInv, Typed
  <2> QED BY <1>5, <2>1, LookStays, CreateFailsStays, DropStays DEF Fails
<1> QED BY <1>1, <1>2, <1>3, <1>4, <1>5 DEF Next

LEMMA InitSInv == ASSUME Init PROVE SInv
<1>1. \A i \in Ids : Current(i) = Null
  BY MotivationAssumption DEF Init, Current, Versions
<1>2. Len(batches) = 0 /\ IsSeq(faults)
  BY DEF Init, IsSeq
<1>3. Typed
  BY <1>2 DEF Init, Typed, None
<1>4. \A w \in Workers : Knows(w)
  BY DEF Init, Knows
<1> QED BY <1>1, <1>2, <1>3, <1>4 DEF SInv, RowsFit, OpenTogether

LEMMA SerialInvariant ==
    ASSUME Serial PROVE Spec => [](MInv /\ IsSeq(faults) /\ (NoStreamBroke => SInv))
<1> DEFINE Inv == MInv /\ IsSeq(faults) /\ (NoStreamBroke => SInv)
<1>1. Init => Inv
  BY InitMInv, InitSInv DEF SInv, Typed
<1>2. ASSUME Inv, [Next]_vars PROVE Inv'
  <2>1. MInv' /\ IsSeq(faults')
    BY <1>2, NextMInv, FaultsGrow
  <2>2. NoStreamBroke' => NoStreamBroke
    BY <1>2, FaultsGrow DEF NoStreamBroke
  <2> QED BY <1>2, <2>1, <2>2, NextSInv
<1> HIDE DEF Inv
<1>3. Spec => []Inv
  BY <1>1, <1>2, PTL DEF Spec
<1> QED BY <1>3, PTL DEF Inv

-------------------------------------------------------------------------------
(***************************************************************************)
(* With no call half done.  Most steps neither create a batch nor change   *)
(* the batch that a row names.                                             *)
(***************************************************************************)
LEMMA NamesStay ==
    ASSUME Serial, MInv, HInv, Later, SInv, Len(batches') = Len(batches),
           \A i \in Ids : Current(i) # Null =>
               Current(i)' # Null /\ Current(i)'.batch = Current(i).batch,
           \A w \in Workers : pc'[w] = "record" <=> pc[w] = "record",
           \A w \in Workers : pc[w] = "record" => at'[w] = at[w]
    PROVE  HInv'
<1>1. \A b \in 1..Len(batches) :
        /\ batches'[b].texts = batches[b].texts
        /\ DOMAIN batches[b].texts \subseteq Ids
        /\ batches[b].results # None => batches'[b].results # None
  BY DEF Later, SInv, Typed, Ended
<1>2. Unrepeated'
  BY <1>1 DEF HInv, Unrepeated, Ended
<1>3. LastNamed'
  <2> SUFFICES ASSUME NEW b \in 1..Len(batches), NEW i \in DOMAIN batches[b].texts
               PROVE  \/ \E c \in b + 1..Len(batches) : i \in DOMAIN batches'[c].texts
                      \/ \E w \in Workers : pc'[w] = "record" /\ at'[w] = b
                      \/ Current(i)' # Null /\ Current(i)'.batch = b
    BY <1>1 DEF LastNamed
  <2>1. CASE \E c \in b + 1..Len(batches) : i \in DOMAIN batches[c].texts
    BY <1>1, <2>1 DEF Later
  <2>2. CASE \E w \in Workers : pc[w] = "record" /\ at[w] = b
    BY <2>2
  <2>3. CASE Current(i) # Null /\ Current(i).batch = b
    BY <1>1, <2>3
  <2> QED BY <2>1, <2>2, <2>3 DEF HInv, LastNamed
<1>4. Newest'
  BY DEF HInv, Newest
<1> QED BY <1>2, <1>3, <1>4 DEF HInv

LEMMA CreateNames ==
    ASSUME Serial, MInv, MInv', SInv, HInv, NEW w \in Workers, CreateBatch(w) PROVE HInv'
<1> DEFINE n == Len(batches) + 1
<1>1. /\ batches' = Created(w) /\ UNCHANGED <<rows, version>>
      /\ pc[w] = "ask" /\ pc'[w] = "record" /\ at'[w] = n
  BY DEF CreateBatch, GoTo, See, MInv, Shape, world
<1>2. /\ Len(batches) \in Nat /\ Len(batches') = n
      /\ \A b \in 1..Len(batches) : batches'[b] = batches[b]
      /\ batches'[n].texts = asked[w]
  BY <1>1, AppendSeq DEF Created, MInv, Shape
<1>3. \A v \in Workers : v = w
  BY DEF Serial, OneSession
<1>4. ASSUME NEW b \in 1..Len(batches), NEW i \in DOMAIN batches[b].texts,
             i \in DOMAIN asked[w]
      PROVE  Ended(b)
  <2>1. i \in Ids /\ (Current(i) # Null => Current(i).status # "pending")
    BY <1>1, <1>4 DEF SInv, Knows, Typed
  <2>2. CASE \E c \in b + 1..Len(batches) : i \in DOMAIN batches[c].texts
    BY <1>2, <2>2 DEF HInv, Unrepeated
  <2>3. CASE Current(i) # Null /\ Current(i).batch = b
    BY <2>1, <2>3 DEF SInv, RowsFit, RowFits
  <2> QED BY <1>1, <1>3, <2>2, <2>3 DEF HInv, LastNamed
<1>5. Unrepeated'
  <2> SUFFICES ASSUME NEW b \in 1..n, NEW c \in 1..n, b < c,
                      NEW i \in DOMAIN batches'[b].texts \cap DOMAIN batches'[c].texts
               PROVE  Ended(b)'
    BY <1>2 DEF Unrepeated
  <2>1. b \in 1..Len(batches) /\ (c \in 1..Len(batches) \/ c = n)
    BY <1>2
  <2>2. Ended(b)
    BY <1>2, <1>4, <2>1 DEF HInv, Unrepeated
  <2> QED BY <1>2, <2>1, <2>2 DEF Ended
<1>6. LastNamed'
  <2> SUFFICES ASSUME NEW b \in 1..n, NEW i \in DOMAIN batches'[b].texts
               PROVE  \/ \E c \in b + 1..n : i \in DOMAIN batches'[c].texts
                      \/ \E v \in Workers : pc'[v] = "record" /\ at'[v] = b
                      \/ Current(i)' # Null /\ Current(i)'.batch = b
    BY <1>2 DEF LastNamed
  <2>1. CASE b = n
    BY <1>1, <2>1
  <2>2. CASE b # n
    <3>1. b \in 1..Len(batches) /\ i \in DOMAIN batches[b].texts
      BY <1>2, <2>2
    <3>2. \/ \E c \in b + 1..Len(batches) : i \in DOMAIN batches[c].texts
          \/ Current(i) # Null /\ Current(i).batch = b
      BY <1>1, <1>3, <3>1 DEF HInv, LastNamed
    <3>3. Current(i)' = Current(i)
      BY <1>1 DEF Current
    <3> QED BY <1>2, <3>2, <3>3
  <2> QED BY <2>1, <2>2
<1>7. Newest'
  BY <1>1, <1>2, <1>3 DEF Newest
<1> QED BY <1>5, <1>6, <1>7 DEF HInv

LEMMA RecordNames ==
    ASSUME Serial, MInv, MInv', SInv, HInv, NEW w \in Workers, RecordPending(w) PROVE HInv'
<1>1. /\ at[w] \in 1..Len(batches) /\ batches[at[w]].texts = asked[w]
      /\ \A i \in DOMAIN asked[w] : Current(i)' = PendingRow(w, i) /\ Current(i)' # Null
      /\ \A i \in Ids \ DOMAIN asked[w] : Current(i)' = Current(i)
  BY RecordedRows, MotivationAssumption
<1>2. /\ UNCHANGED batches /\ pc[w] = "record" /\ pc'[w] = "score"
  BY DEF RecordPending, Escape, GoTo, MInv, Shape
<1>3. \A v \in Workers : v = w
  BY DEF Serial, OneSession
<1>4. at[w] = Len(batches)
  BY <1>2 DEF HInv, Newest
<1>5. Unrepeated' /\ Newest'
  BY <1>2, <1>3 DEF HInv, Unrepeated, Newest, Ended
<1>6. LastNamed'
  <2> SUFFICES ASSUME NEW b \in 1..Len(batches), NEW i \in DOMAIN batches[b].texts
               PROVE  \/ \E c \in b + 1..Len(batches) : i \in DOMAIN batches[c].texts
                      \/ Current(i)' # Null /\ Current(i)'.batch = b
    BY <1>2 DEF LastNamed
  <2>1. i \in Ids
    BY DEF SInv, Typed
  <2>2. CASE i \in DOMAIN asked[w] /\ b = at[w]
    BY <1>1, <2>2 DEF PendingRow
  <2>3. CASE i \in DOMAIN asked[w] /\ b # at[w]
    BY <1>1, <1>4, <2>3
  <2>4. CASE i \notin DOMAIN asked[w]
    <3>1. b # at[w]
      BY <1>1, <2>4
    <3> QED BY <1>1, <1>3, <2>1, <2>4, <3>1 DEF HInv, LastNamed
  <2> QED BY <2>2, <2>3, <2>4
<1> QED BY <1>5, <1>6 DEF HInv

LEMMA OnlyApiFaults ==
    ASSUME IsSeq(faults), NEW kind, Fault(kind), NothingHalfDone' PROVE kind = "api"
<1>1. faults' = Append(faults, kind)
  BY DEF Fault
<1>2. /\ Len(faults) \in Nat /\ Len(faults') = Len(faults) + 1
      /\ faults'[Len(faults) + 1] = kind
  BY <1>1, AppendSeq
<1> QED BY <1>2 DEF NothingHalfDone

(***************************************************************************)
(* The steps after which every row names the batch that it named before.   *)
(***************************************************************************)
LEMMA QuietNames ==
    ASSUME Serial, MInv, MInv', SInv, HInv, NEW w \in Workers, NothingHalfDone',
           \/ Run(w) \/ NothingToSubmit(w) \/ SelectListings(w) \/ RecordCollides(w)
           \/ StoreBreaks(w) \/ ScoreListings(w) \/ ScoringLost(w)
           \/ CreateFails(w) \/ Crash(w) \/ StreamFails(w)
           \/ \E b : NotEnded(w, b) \/ ReadResults(w, b) \/ RetrieveFails(w, b)
    PROVE  HInv'
<1>1. IsSeq(faults)
  BY DEF SInv, Typed
<1>2. ~RecordCollides(w)
  <2> SUFFICES ASSUME pc[w] = "record" PROVE ~Collides(w)
    BY DEF RecordCollides
  <2>1. \A i \in DOMAIN view[w] : view[w][i] = Current(i)
    BY DEF SInv, Knows
  <2> QED BY <2>1 DEF Collides
<1>3. ~Crash(w) /\ ~StreamFails(w)
  BY <1>1, OnlyApiFaults DEF Crash, StreamFails
<1>4. CreateFails(w) => UNCHANGED batches /\ rows' = rows
  BY <1>1, OnlyApiFaults DEF CreateFails
<1>5. /\ UNCHANGED batches
      /\ pc[w] # "record" /\ pc'[w] # "record"
  BY <1>2, <1>3, <1>4 DEF Run, NothingToSubmit, SelectListings, StoreBreaks, ScoreListings,
     ScoringLost, CreateFails, NotEnded, ReadResults, RetrieveFails, GoTo, Escape, MInv, Shape
<1>6. TableSame
  <2>1. CASE ScoreListings(w)
    <3>1. DOMAIN view[w] = {} /\ rows' = Stored(view[w], at[w])
      BY <2>1 DEF ScoreListings, SInv, Knows
    <3> QED BY <3>1 DEF Stored, Written, TableSame
  <2>2. CASE ~ScoreListings(w)
    BY <1>2, <1>3, <1>4, <2>2 DEF TableSame, Run, NothingToSubmit, SelectListings, StoreBreaks,
       ScoringLost, CreateFails, NotEnded, ReadResults, RetrieveFails
  <2> QED BY <2>1, <2>2
<1>7. Later
  BY <1>5, AppendSeq DEF Later, MInv, Shape
<1>8. \A i \in Ids : Current(i)' = Current(i)
  BY <1>6, WaitsStay
<1>9. \A v \in Workers : pc[v] # "record" /\ pc'[v] # "record"
  BY <1>5 DEF Serial, OneSession
<1> QED BY <1>5, <1>7, <1>8, <1>9, NamesStay

LEMMA NextHInv ==
    ASSUME Serial, MInv, MInv', SInv, HInv, NothingHalfDone', [Next]_vars PROVE HInv'
<1>1. CASE (\E i \in Ids : Edit(i)) \/ UNCHANGED vars \/ \E b \in 1..Len(batches) : End(b)
  <2>1. UNCHANGED <<rows, version, session>>
    BY <1>1 DEF Edit, End, vars, world
  <2>2. Later /\ Len(batches') = Len(batches)
    <3>1. CASE \E b \in 1..Len(batches) : End(b)
      BY <3>1, EndLater
    <3>2. CASE UNCHANGED batches
      BY <3>2, AppendSeq DEF Later, MInv, Shape
    <3> QED BY <1>1, <3>1, <3>2 DEF Edit, vars
  <2>3. \A i \in Ids : Current(i)' = Current(i)
    BY <2>1 DEF Current
  <2>4. pc' = pc /\ at' = at
    BY <2>1 DEF session
  <2> QED BY <2>2, <2>3, <2>4, NamesStay
<1>2. CASE Deploy
  BY <1>2, OneVersion DEF Deploy, Serial
<1>3. ASSUME NEW w \in Workers, StoreResults(w) PROVE HInv'
  <2>1. /\ DOMAIN view[w] \subseteq Ids
        /\ \A i \in DOMAIN view[w] : /\ Waits(i, at[w])
                                     /\ Current(i)' # Null
                                     /\ Current(i)'.batch = at[w]
        /\ \A i \in Ids \ DOMAIN view[w] : Current(i)' = Current(i)
    BY <1>3, StoredRows, MotivationAssumption DEF RowFits
  <2>2. \A i \in Ids : Current(i) # Null =>
            Current(i)' # Null /\ Current(i)'.batch = Current(i).batch
    BY <2>1, MotivationAssumption DEF Waits
  <2>3. UNCHANGED batches /\ pc[w] = "store" /\ pc'[w] = "collect"
    BY <1>3 DEF StoreResults, GoTo, MInv, Shape
  <2>4. Later
    BY <2>3, AppendSeq DEF Later, MInv, Shape
  <2> QED BY <2>2, <2>3, <2>4, NamesStay DEF Serial, OneSession
<1>4. ASSUME NEW w \in Workers, Advance(w) \/ Fails(w) PROVE HInv'
  BY <1>3, <1>4, QuietNames, CreateNames, RecordNames DEF Advance, Fails
<1> QED BY <1>1, <1>2, <1>4 DEF Next

LEMMA HalfDoneStays ==
    ASSUME IsSeq(faults), [Next]_vars, NothingHalfDone' PROVE NothingHalfDone
BY FaultsGrow DEF NothingHalfDone

LEMMA HalfDoneBroke == ASSUME NothingHalfDone PROVE NoStreamBroke
BY DEF NothingHalfDone, NoStreamBroke

LEMMA InitHInv == ASSUME Init PROVE HInv
<1>1. Len(batches) = 0
  BY DEF Init
<1> QED BY <1>1 DEF Init, HInv, Unrepeated, LastNamed, Newest

LEMMA WholeInvariant ==
    ASSUME Serial
    PROVE  Spec => []/\ MInv /\ IsSeq(faults) /\ (NoStreamBroke => SInv)
                     /\ NothingHalfDone => SInv /\ HInv
<1> DEFINE Inv == MInv /\ IsSeq(faults) /\ (NoStreamBroke => SInv)
           Whole == NothingHalfDone => SInv /\ HInv
<1>1. Init => Whole
  BY InitSInv, InitHInv
<1>2. ASSUME Inv, Inv', Whole, [Next]_vars PROVE Whole'
  <2> SUFFICES ASSUME NothingHalfDone' PROVE SInv' /\ HInv'
    OBVIOUS
  <2>1. NothingHalfDone /\ SInv /\ HInv
    BY <1>2, HalfDoneStays
  <2>2. NoStreamBroke'
    BY DEF NothingHalfDone, NoStreamBroke
  <2>3. SInv'
    BY <1>2, <2>2
  <2> QED BY <1>2, <2>1, <2>3, NextHInv
<1> HIDE DEF Inv, Whole
<1>3. Spec => []Inv
  BY SerialInvariant DEF Inv
<1>4. Spec => [](Inv /\ Whole)
  BY <1>1, <1>2, <1>3, PTL DEF Spec
<1> QED BY <1>4, PTL DEF Inv, Whole

(***************************************************************************)
(* InFlightOnce: when one session runs at a time under one prompt version, *)
(* and as long as no call did half of its work, no listing is in two       *)
(* batches that submit_batch has created and that have not ended, however  *)
(* many listings a batch takes and whenever they are edited.               *)
(***************************************************************************)
THEOREM SentOnce == ASSUME Serial PROVE Spec => []InFlightOnce
<1> DEFINE Whole == NothingHalfDone => SInv /\ HInv
<1>1. ASSUME MInv, Whole PROVE InFlightOnce
  <2> SUFFICES ASSUME HInv, NEW b \in 1..Len(batches), NEW c \in 1..Len(batches),
                      b # c, ~Ended(b), ~Ended(c)
               PROVE  DOMAIN batches[b].texts \cap DOMAIN batches[c].texts = {}
    BY <1>1 DEF InFlightOnce, OneInFlight
  <2>1. b < c \/ c < b
    BY AppendSeq DEF MInv, Shape
  <2> QED BY <2>1 DEF HInv, Unrepeated
<1> HIDE DEF Whole
<1>2. Spec => [](MInv /\ Whole)
  BY WholeInvariant, PTL DEF Whole
<1> QED BY <1>1, <1>2, PTL

(***************************************************************************)
(* NoOrphan: under the same conditions every batch that was paid for is    *)
(* still named by the row of each listing that was last sent in it, unless *)
(* submit_batch is about to write that row.                                *)
(***************************************************************************)
THEOREM NothingForgotten == ASSUME Serial PROVE Spec => []NoOrphan
<1> DEFINE Whole == NothingHalfDone => SInv /\ HInv
<1>1. ASSUME MInv, Whole PROVE NoOrphan
  <2> SUFFICES ASSUME SInv, HInv, NEW b \in 1..Len(batches), NEW i \in DOMAIN batches[b].texts
               PROVE  \/ \E c \in b + 1..Len(batches) : i \in DOMAIN batches[c].texts
                      \/ \E w \in Workers : pc[w] = "record" /\ at[w] = b
                      \/ /\ rows[i][batches[b].version] # Null
                         /\ rows[i][batches[b].version].batch = b
    BY <1>1 DEF NoOrphan
  <2>1. rows[i][batches[b].version] = Current(i)
    BY <1>1, OneVersion DEF SInv, Typed, Current
  <2> QED BY <2>1 DEF HInv, LastNamed
<1> HIDE DEF Whole
<1>2. Spec => [](MInv /\ Whole)
  BY WholeInvariant, PTL DEF Whole
<1> QED BY <1>1, <1>2, PTL

-------------------------------------------------------------------------------
(***************************************************************************)
(* The table keeps the promise of ExtractionCache: storing results closes  *)
(* entries, recording a batch opens some, and no other step changes what   *)
(* the table says.                                                         *)
(***************************************************************************)
LEMMA TableQuiet ==
    ASSUME Serial, MInv, SInv, [Next]_vars
    PROVE  TableSame \/ \E w \in Workers : StoreResults(w) \/ RecordPending(w)
<1>1. ASSUME NEW w \in Workers, ScoreListings(w) PROVE TableSame
  <2>1. DOMAIN view[w] = {} /\ rows' = Stored(view[w], at[w])
    BY <1>1 DEF ScoreListings, SInv, Knows
  <2> QED BY <2>1 DEF Stored, Written, TableSame
<1>2. ASSUME NEW w \in Workers, Advance(w)
      PROVE  rows' = rows \/ ScoreListings(w) \/ StoreResults(w) \/ RecordPending(w)
  BY <1>2 DEF Advance, Run, NothingToSubmit, SelectListings, CreateBatch, RecordCollides,
              StoreBreaks, ScoringLost, NotEnded, ReadResults
<1>3. ASSUME NEW w \in Workers, Fails(w) PROVE rows' = rows
  BY <1>3 DEF Fails, StreamFails, CreateFails, Crash, RetrieveFails
<1>4. (\E i \in Ids : Edit(i)) \/ (\E b \in 1..Len(batches) : End(b)) \/ Deploy
      \/ UNCHANGED vars => rows' = rows
  BY DEF Edit, End, Deploy, vars
<1>5. rows' = rows => TableSame
  BY DEF TableSame
<1> QED BY <1>1, <1>2, <1>3, <1>4, <1>5 DEF Next

LEMMA EntryText ==
    ASSUME Serial, MInv, SInv, NEW i \in Ids, Current(i) # Null
    PROVE  Current(i).hash \in Texts
<1>1. Current(i).batch \in 1..Len(batches)
  BY NamedBatch
<1> QED BY <1>1 DEF SInv, RowsFit, RowFits, Typed

LEMMA NoEntry == ASSUME NEW i \in Ids, Current(i) = Null PROVE CacheEntry(i) = Null
BY DEF CacheEntry

Closing(row) == CASE row.status = "pending" -> "open"
                  [] row.status = "ok" -> "read"
                  [] OTHER -> "unread"

EntriesFit ==
    \A i \in Ids :
        IF Current(i) = Null THEN CacheEntry(i) = Null
        ELSE /\ CacheEntry(i) = [text |-> Current(i).hash, state |-> Closing(Current(i))]
             /\ CacheEntry(i) \in Cache!Entry /\ CacheEntry(i) # Null
             /\ CacheEntry(i).text = Current(i).hash
             /\ CacheEntry(i).state = "open" <=> Current(i).status = "pending"

LEMMA EntryFits == Serial /\ MInv /\ SInv => EntriesFit
<1> SUFFICES ASSUME Serial, MInv, SInv, NEW i \in Ids, Current(i) # Null
             PROVE  /\ CacheEntry(i) = [text |-> Current(i).hash,
                                        state |-> Closing(Current(i))]
                    /\ CacheEntry(i) \in Cache!Entry /\ CacheEntry(i) # Null
                    /\ CacheEntry(i).text = Current(i).hash
                    /\ CacheEntry(i).state = "open" <=> Current(i).status = "pending"
  BY NoEntry DEF EntriesFit
<1> DEFINE row == Current(i)
<1>1. row.hash \in Texts /\ RowFits(i, row)
  BY EntryText DEF SInv, RowsFit
<1>2. row.status = "ok" => /\ Holding(row, i, row.batch)
                           /\ batches[row.batch].texts[i] = row.hash
  BY <1>1 DEF RowFits
<1>3. CacheEntry(i) = [text |-> row.hash, state |-> Closing(row)]
  BY <1>2 DEF CacheEntry, Closing
<1>4. /\ Closing(row) \in {"open", "read", "unread"}
      /\ Closing(row) = "open" <=> row.status = "pending"
  BY DEF Closing
<1> HIDE DEF row
<1>5. CacheEntry(i) \in [text : Texts, state : {"open", "read", "unread"}]
  BY <1>1, <1>3, <1>4
<1>6. CacheEntry(i) \in Cache!Entry
  BY <1>5 DEF Cache!Entry, Cache!Closed
<1> QED BY <1>3, <1>4, <1>5, <1>6, MotivationAssumption DEF row

LEMMA EntriesStay ==
    ASSUME Serial, MInv', SInv' PROVE EntriesFit'
<1>1. (Serial /\ MInv /\ SInv => EntriesFit)'
  BY EntryFits, PTL
<1> QED BY <1>1 DEF Serial

LEMMA EntryStep ==
    ASSUME Serial, MInv, MInv', SInv, SInv', [Next]_vars, NEW i \in Ids
    PROVE  CacheEntry(i)' = CacheEntry(i) \/ Cache!Open(i) \/ Cache!Close(i)
<1>0. ASSUME Current(i)' = Current(i) PROVE CacheEntry(i)' = CacheEntry(i)
  <2>1. CASE Current(i) = Null
    BY <1>0, <2>1, EntryFits, EntriesStay DEF EntriesFit
  <2>2. CASE Current(i) # Null
    <3>1. CacheEntry(i) = [text |-> Current(i).hash, state |-> Closing(Current(i))]
      BY <2>2, EntryFits DEF EntriesFit
    <3>2. CacheEntry(i)' = [text |-> Current(i)'.hash, state |-> Closing(Current(i)')]
      BY <1>0, <2>2, EntriesStay DEF EntriesFit, Closing
    <3> QED BY <1>0, <3>1, <3>2
  <2> QED BY <2>1, <2>2
<1>1. CASE TableSame
  BY <1>0, <1>1, WaitsStay
<1>2. ASSUME NEW w \in Workers, StoreResults(w)
      PROVE  CacheEntry(i)' = CacheEntry(i) \/ Cache!Close(i)
  <2>1. CASE i \in DOMAIN view[w]
    <3>1. /\ Waits(i, at[w]) /\ RowFits(i, Current(i)')
          /\ Current(i)'.status # "pending"
          /\ Current(i)'.batch = at[w]
      BY <1>2, <2>1, StoredRows
    <3>2. Current(i)' # Null
      BY <3>1, MotivationAssumption DEF RowFits
    <3>3. Current(i)'.hash = Current(i).hash
      BY <3>1 DEF SInv, RowsFit, RowFits, Waits
    <3>4. /\ CacheEntry(i) # Null /\ CacheEntry(i).state = "open"
          /\ CacheEntry(i).text = Current(i).hash
      BY <3>1, EntryFits DEF EntriesFit, Waits
    <3>5. /\ CacheEntry(i)' \in Cache!Entry /\ CacheEntry(i)'.state # "open"
          /\ CacheEntry(i)'.text = Current(i)'.hash
      BY <3>1, <3>2, EntriesStay DEF EntriesFit
    <3> QED BY <3>3, <3>4, <3>5 DEF Cache!Close, Cache!Entry, Cache!Closed
  <2>2. CASE i \notin DOMAIN view[w]
    BY <1>0, <1>2, <2>2, StoredRows
  <2> QED BY <2>1, <2>2
<1>3. ASSUME NEW w \in Workers, RecordPending(w)
      PROVE  CacheEntry(i)' = CacheEntry(i) \/ Cache!Open(i)
  <2>1. CASE i \in DOMAIN asked[w]
    <3>1. /\ Current(i) # Null => Current(i).status # "pending" /\ Current(i).hash # asked[w][i]
          /\ Current(i)' = PendingRow(w, i) /\ Current(i)' \in Entry
      BY <1>3, <2>1, RecordedRows
    <3>2. /\ Current(i)' # Null /\ Current(i)'.status = "pending"
          /\ Current(i)'.hash = asked[w][i]
      <4>1. Current(i)' # Null
        BY <3>1, MotivationAssumption
      <4> QED BY <3>1, <4>1 DEF PendingRow
    <3>3. /\ CacheEntry(i)' \in Cache!Entry /\ CacheEntry(i)'.state = "open"
          /\ CacheEntry(i)'.text = asked[w][i]
      BY <3>2, EntriesStay DEF EntriesFit
    <3>4. CacheEntry(i) # Null => /\ CacheEntry(i) \in Cache!Entry
                                  /\ CacheEntry(i).state # "open"
                                  /\ CacheEntry(i).text # asked[w][i]
      BY <3>1, EntryFits DEF EntriesFit
    <3> QED BY <3>3, <3>4 DEF Cache!Open, Cache!Entry, Cache!Closed
  <2>2. CASE i \notin DOMAIN asked[w]
    BY <1>0, <1>3, <2>2, RecordedRows
  <2> QED BY <2>1, <2>2
<1> QED BY <1>1, <1>2, <1>3, TableQuiet

(***************************************************************************)
(* ImplementsCache: when one session runs at a time under one prompt       *)
(* version and no stream of results breaks off, the table behaves as the   *)
(* cache it is meant to be, whatever else fails: an open request is never  *)
(* repeated, a settled entry changes only by being asked again about       *)
(* another text, and an answer is for the text its entry is about.         *)
(***************************************************************************)
THEOREM CacheRefined == ASSUME Serial PROVE Spec /\ []NoStreamBroke => ImplementsCache
<1> DEFINE Known == MInv /\ SInv
<1>1. Init => Cache!Init
  <2> SUFFICES ASSUME Init PROVE \A i \in Ids : Current(i) = Null
    BY NoEntry DEF Cache!Init
  <2> QED BY MotivationAssumption DEF Init, Current, Versions
<1>2. ASSUME Serial, Known, Known', [Next]_vars
      PROVE  [Cache!Next]_[i \in Ids |-> CacheEntry(i)]
  <2>1. \A i \in Ids : CacheEntry(i)' \in Cache!Entry \cup {Null}
    BY <1>2, EntriesStay DEF EntriesFit, Known
  <2>2. \A i \in Ids : CacheEntry(i)' = CacheEntry(i) \/ Cache!Open(i) \/ Cache!Close(i)
    BY <1>2, EntryStep
  <2> QED BY <2>1, <2>2 DEF Cache!Next
<1> HIDE DEF Known
<1>3. Spec /\ []NoStreamBroke => []Known
  <2>1. Spec => [](MInv /\ (NoStreamBroke => SInv))
    BY SerialInvariant, PTL
  <2> QED BY <2>1, PTL DEF Known
<1> QED BY <1>1, <1>2, <1>3, PTL DEF Spec, ImplementsCache, Cache!Spec
===============================================================================
