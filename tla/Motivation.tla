------------------------------ MODULE Motivation ------------------------------
(***************************************************************************)
(* The seller-motivation pass (scoring/motivation.py) and the scoring call *)
(* that follows it in score_daily, run by any number of sessions over the  *)
(* table listing_motivation and the provider's Batch API.                  *)
(*                                                                         *)
(* A text stands for its hash as well.  _upsert reads the row afresh and   *)
(* writes it at a later flush, which names only the columns that differ    *)
(* from what was read, so reading and writing are separate steps; all the  *)
(* rows of a batch are read, and written, together.                        *)
(*                                                                         *)
(* A definition named Faulty... is not used: it is the definition that     *)
(* follows it with a plausible bug, with which a property below fails.     *)
(***************************************************************************)
EXTENDS Integers, Sequences, FiniteSets, Columns

CONSTANTS
    Ids,         \* listings
    Texts,       \* texts a listing may have
    Null,        \* SQL NULL, and no row
    Workers,     \* sessions that may run the pass
    Limit,       \* most listings submitted in one batch
    Results,     \* the kinds of result a request may get, a subset of Kinds
    Readings,    \* what an answer may say, as the columns it is stored in
    FaultKinds,  \* subset of {"api", "stream", "lost_reply", "crash"}
    MaxFaults, MaxEdits, MaxVersion  \* bounds of the model

Versions == 1..MaxVersion
Kinds    == {"answered", "refusal", "garbled", "blank", "errored"}

(***************************************************************************)
(* The columns of a reading, and what they hold while there is none.       *)
(***************************************************************************)
Fields  == {"motivated", "score", "signals", "quote", "confidence"}
Cleared == [motivated |-> Null, score |-> Null, signals |-> {}, quote |-> Null,
            confidence |-> Null]
Values(c) == {Cleared[c]} \cup {r[c] : r \in Readings}

Entry == [status : {"pending", "ok", "refused", "invalid", "empty"},
          hash : Texts, batch : Nat,
          motivated : Values("motivated"), score : Values("score"),
          signals : Values("signals"), quote : Values("quote"),
          confidence : Values("confidence")]

Outcomes == [kind : Results \cap {"answered"}, reading : Readings]
              \cup [kind : Results \ {"answered"}, reading : {Null}]

ASSUME MotivationAssumption ==
    /\ Limit \in Nat \ {0}
    /\ Results \subseteq Kinds
    /\ \A r \in Readings : DOMAIN r = Fields
    /\ MaxFaults \in Nat
    /\ MaxEdits \in Nat
    /\ MaxVersion \in Nat \ {0}
    /\ Null \notin Texts /\ Null \notin Entry
    /\ Null \notin [text : Texts, state : {"open", "read", "unread"}]

VARIABLES
    text,     \* title and description of each listing, Null if empty
    live,     \* the listings that are active or relisted
    version,  \* MOTIVATION_PROMPT_VERSION of the deployed code
    rows,     \* listing_motivation: rows[i][v], Null if there is none
    batches,  \* the provider's batches, in order of creation
    pc,       \* where each session is
    todo,     \* the batches it has yet to look at
    at,       \* the batch it is collecting or has created, 0 if none
    asked,    \* the texts of the listings it is submitting
    view,     \* the rows it has read and not yet written
    edits,    \* edits so far, for the bound
    faults    \* the faults so far, in order

world   == <<text, live, version>>
session == <<pc, todo, at, asked, view>>
vars    == <<world, rows, batches, session, edits, faults>>

None     == [x \in {} |-> Null]
Partial(f, T) == DOMAIN f \subseteq Ids /\ f \in [DOMAIN f -> T]
BatchOK(b) == /\ DOMAIN b = {"version", "texts", "results"}
              /\ b.version \in Versions
              /\ Partial(b.texts, Texts)
              /\ b.results = None \/ b.results \in [DOMAIN b.texts -> Outcomes]
Places   == {"idle", "collect", "store", "ask", "record", "score", "broken"}

Init ==
    /\ text \in [Ids -> Texts \cup {Null}]
    /\ live = Ids
    /\ version = 1
    /\ rows = [i \in Ids |-> [v \in Versions |-> Null]]
    /\ batches = <<>>
    /\ pc = [w \in Workers |-> "idle"]
    /\ todo = [w \in Workers |-> {}]
    /\ at = [w \in Workers |-> 0]
    /\ asked = [w \in Workers |-> None]
    /\ view = [w \in Workers |-> None]
    /\ edits = 0
    /\ faults = <<>>

Current(i) == rows[i][version]

-------------------------------------------------------------------------------
(***************************************************************************)
(* The rest of the system: ingestion edits a listing, removes or relists   *)
(* it; the provider ends a batch with a result for each request; a new     *)
(* release bumps the prompt version.                                       *)
(***************************************************************************)
Edit(i) ==
    /\ edits < MaxEdits
    /\ edits' = edits + 1
    /\ \/ /\ \E t \in Texts \ {text[i]} : text' = [text EXCEPT ![i] = t]
          /\ UNCHANGED live
       \/ /\ live' = IF i \in live THEN live \ {i} ELSE live \cup {i}
          /\ UNCHANGED text
    /\ UNCHANGED <<version, rows, batches, session, faults>>

Ended(b) == batches[b].results # None

End(b) ==
    /\ ~Ended(b)
    /\ \E r \in [DOMAIN batches[b].texts -> Outcomes] :
         batches' = [batches EXCEPT ![b].results = r]
    /\ UNCHANGED <<world, rows, session, edits, faults>>

Deploy ==
    /\ version < MaxVersion
    /\ \A w \in Workers : pc[w] = "idle"
    /\ version' = version + 1
    /\ UNCHANGED <<text, live, rows, batches, session, edits, faults>>

-------------------------------------------------------------------------------
(***************************************************************************)
(* collect_batches.  The batches to look at are those of the pending rows, *)
(* of every prompt version.                                                *)
(***************************************************************************)
Rows    == {x \in Ids \X Versions : rows[x[1]][x[2]] # Null}
Pending == {x \in Rows : rows[x[1]][x[2]].status = "pending"}
InFlight == {rows[x[1]][x[2]].batch : x \in Pending}

GoTo(w, place) == pc' = [pc EXCEPT ![w] = place]
See(w, f)      == view' = [view EXCEPT ![w] = f]

Fault(kind) == /\ kind \in FaultKinds
               /\ Len(faults) < MaxFaults
               /\ faults' = Append(faults, kind)

Run(w) ==
    /\ pc[w] = "idle"
    /\ GoTo(w, "collect")
    /\ todo' = [todo EXCEPT ![w] = InFlight]
    /\ UNCHANGED <<world, rows, batches, at, asked, view, edits, faults>>

Done(w, b) == todo' = [todo EXCEPT ![w] = @ \ {b}]

NotEnded(w, b) ==
    /\ pc[w] = "collect" /\ b \in todo[w]
    /\ ~Ended(b)
    /\ Done(w, b)
    /\ UNCHANGED <<world, rows, batches, pc, at, asked, view, edits, faults>>

RetrieveFails(w, b) ==
    /\ pc[w] = "collect" /\ b \in todo[w]
    /\ Fault("api")
    /\ Done(w, b)
    /\ UNCHANGED <<world, rows, batches, pc, at, asked, view, edits>>

(***************************************************************************)
(* _upsert looks the row up under the current prompt version, whatever the *)
(* version of the batch.                                                   *)
(***************************************************************************)
ReadResults(w, b) ==
    /\ pc[w] = "collect" /\ b \in todo[w]
    /\ Ended(b)
    /\ Done(w, b)
    /\ at' = [at EXCEPT ![w] = b]
    /\ See(w, [i \in DOMAIN batches[b].results |-> Current(i)])
    /\ GoTo(w, "store")
    /\ UNCHANGED <<world, rows, batches, asked, edits, faults>>

StatusOf == [answered |-> "ok", refusal |-> "refused", garbled |-> "invalid",
             blank |-> "empty", errored |-> "invalid"]

(***************************************************************************)
(* The values an _upsert names replace those of the row it has read.       *)
(***************************************************************************)
With(row, values) ==
    [c \in DOMAIN row |-> IF c \in DOMAIN values THEN values[c] ELSE row[c]]

Common(r, b) == [status |-> StatusOf[r.kind], batch |-> b]

FaultyResultRow(old, b, i) ==
    LET r == batches[b].results[i]
    IN With(With([old EXCEPT !.hash = text[i]], Common(r, b)),
            IF r.kind = "answered" THEN r.reading ELSE None)
FaultierResultRow(old, b, i) ==
    LET all == DOMAIN batches[b].results
        r   == batches[b].results[CHOOSE j \in all : j # i \/ all = {i}]
    IN With(With(old, Common(r, b)), IF r.kind = "answered" THEN r.reading ELSE None)
ResultRow(old, b, i) ==
    LET r == batches[b].results[i]
    IN With(With(old, Common(r, b)), IF r.kind = "answered" THEN r.reading ELSE None)

Written(f, new) ==
    [i \in Ids |->
       IF i \in DOMAIN f
       THEN [rows[i] EXCEPT ![version] = IF f[i] = Null THEN new[i]
                                         ELSE WriteColumns(@, f[i], new[i])]
       ELSE rows[i]]

Stored(f, b) == Written(f, [i \in DOMAIN f |-> ResultRow(f[i], b, i)])

(***************************************************************************)
(* A result whose row does not exist would have to insert it without its   *)
(* source_hash, which is NOT NULL: the flush fails.                        *)
(***************************************************************************)
Storable(f) == \A i \in DOMAIN f : f[i] # Null

StoreResults(w) ==
    /\ pc[w] = "store"
    /\ Storable(view[w])
    /\ rows' = Stored(view[w], at[w])
    /\ See(w, None)
    /\ at' = [at EXCEPT ![w] = 0]
    /\ GoTo(w, "collect")
    /\ UNCHANGED <<world, batches, todo, asked, edits, faults>>

(***************************************************************************)
(* An exception leaves motivation.run and is caught in score_daily.  After *)
(* a failed flush the session refuses every statement until a rollback     *)
(* nobody issues ("broken").  After a failed API call it is usable, and    *)
(* what it had not committed is committed by score_listings.               *)
(***************************************************************************)
Escape(w, place, f) ==
    /\ GoTo(w, place)
    /\ See(w, f)
    /\ todo' = [todo EXCEPT ![w] = {}]
    /\ asked' = [asked EXCEPT ![w] = None]
    /\ at' = [at EXCEPT ![w] = IF f = None THEN 0 ELSE @]

StoreBreaks(w) ==
    /\ pc[w] = "store"
    /\ ~Storable(view[w])
    /\ Escape(w, "broken", None)
    /\ UNCHANGED <<world, rows, batches, edits, faults>>

StreamFails(w) ==
    /\ pc[w] = "store"
    /\ Fault("stream")
    /\ \E D \in SUBSET DOMAIN view[w] :
         LET f == [i \in D |-> view[w][i]]
         IN IF Storable(f) THEN Escape(w, "score", f) ELSE Escape(w, "broken", None)
    /\ UNCHANGED <<world, rows, batches, edits>>

-------------------------------------------------------------------------------
(***************************************************************************)
(* submit_batch.  A listing needs extraction when it has a text and no row *)
(* of the current version, or a settled row for another text.              *)
(***************************************************************************)
FaultyNeedsExtraction(i) ==
    text[i] # Null /\ (Current(i) = Null \/ Current(i).hash # text[i])
FaultierNeedsExtraction(i) == text[i] # Null /\ Current(i) = Null
NeedsExtraction(i) ==
    /\ text[i] # Null
    /\ Current(i) # Null => /\ Current(i).status # "pending"
                            /\ Current(i).hash # text[i]

Needing == {i \in live : NeedsExtraction(i)}

SelectListings(w) ==
    /\ pc[w] = "collect" /\ todo[w] = {}
    /\ Needing # {}
    /\ \E S \in SUBSET Needing :
         /\ Cardinality(S) = IF Cardinality(Needing) > Limit
                             THEN Limit ELSE Cardinality(Needing)
         /\ asked' = [asked EXCEPT ![w] = [i \in S |-> text[i]]]
    /\ GoTo(w, "ask")
    /\ UNCHANGED <<world, rows, batches, todo, at, view, edits, faults>>

NothingToSubmit(w) ==
    /\ pc[w] = "collect" /\ todo[w] = {}
    /\ Needing = {}
    /\ GoTo(w, "score")
    /\ UNCHANGED <<world, rows, batches, todo, at, asked, view, edits, faults>>

Created(w) == Append(batches, [version |-> version, texts |-> asked[w],
                               results |-> None])

CreateBatch(w) ==
    /\ pc[w] = "ask"
    /\ batches' = Created(w)
    /\ at' = [at EXCEPT ![w] = Len(batches) + 1]
    /\ See(w, [i \in DOMAIN asked[w] |-> Current(i)])
    /\ GoTo(w, "record")
    /\ UNCHANGED <<world, rows, todo, asked, edits, faults>>

CreateFails(w) ==
    /\ pc[w] = "ask"
    /\ \/ Fault("api") /\ UNCHANGED batches
       \/ Fault("lost_reply") /\ batches' = Created(w)
    /\ Escape(w, "score", None)
    /\ UNCHANGED <<world, rows, edits>>

PendingRow(w, i) ==
    [status |-> "pending", hash |-> asked[w][i], batch |-> at[w],
     motivated |-> Null, score |-> Null, signals |-> {}, quote |-> Null,
     confidence |-> Null]

Collides(w) == \E i \in DOMAIN view[w] : view[w][i] = Null /\ Current(i) # Null

FaultyRecordPending(w) ==
    /\ pc[w] = "record"
    /\ ~Collides(w)
    /\ Escape(w, "score", None)
    /\ UNCHANGED <<world, rows, batches, edits, faults>>
RecordPending(w) ==
    /\ pc[w] = "record"
    /\ ~Collides(w)
    /\ rows' = Written(view[w], [i \in DOMAIN view[w] |-> PendingRow(w, i)])
    /\ Escape(w, "score", None)
    /\ UNCHANGED <<world, batches, edits, faults>>

RecordCollides(w) ==
    /\ pc[w] = "record"
    /\ Collides(w)
    /\ Escape(w, "broken", None)
    /\ UNCHANGED <<world, rows, batches, edits, faults>>

-------------------------------------------------------------------------------
(***************************************************************************)
(* score_listings on the same session: it scores what the rows hold and    *)
(* commits, or it raises at its first statement and the day is not scored. *)
(***************************************************************************)
ScoreListings(w) ==
    /\ pc[w] = "score"
    /\ rows' = Stored(view[w], at[w])
    /\ Escape(w, "idle", None)
    /\ UNCHANGED <<world, batches, edits, faults>>

ScoringLost(w) ==
    /\ pc[w] = "broken"
    /\ Escape(w, "idle", None)
    /\ UNCHANGED <<world, rows, batches, edits, faults>>

Crash(w) ==
    /\ pc[w] # "idle"
    /\ Fault("crash")
    /\ Escape(w, "idle", None)
    /\ UNCHANGED <<world, rows, batches, edits>>

Advance(w) ==
    \/ Run(w) \/ NothingToSubmit(w) \/ SelectListings(w) \/ CreateBatch(w)
    \/ RecordPending(w) \/ RecordCollides(w) \/ StoreResults(w) \/ StoreBreaks(w)
    \/ ScoreListings(w) \/ ScoringLost(w)
    \/ \E b \in todo[w] : NotEnded(w, b) \/ ReadResults(w, b)

Fails(w) ==
    \/ StreamFails(w) \/ CreateFails(w) \/ Crash(w)
    \/ \E b \in todo[w] : RetrieveFails(w, b)

Next ==
    \/ \E i \in Ids : Edit(i)
    \/ \E b \in 1..Len(batches) : End(b)
    \/ Deploy
    \/ \E w \in Workers : Advance(w) \/ Fails(w)

Spec == Init /\ [][Next]_vars

(***************************************************************************)
(* The scheduler runs the pass every day and the Batch API ends every      *)
(* batch within a day.  Failures are not fair: nothing makes them happen.  *)
(***************************************************************************)
FairSpec == /\ Spec
            /\ \A w \in Workers : WF_vars(Advance(w))
            /\ WF_vars(\E b \in 1..Len(batches) : End(b))

-------------------------------------------------------------------------------
(***************************************************************************)
(* Every row, batch and session is well formed; a pending row names a      *)
(* batch that exists.                                                      *)
(***************************************************************************)
TypeOK ==
    /\ text \in [Ids -> Texts \cup {Null}]
    /\ live \subseteq Ids
    /\ version \in Versions
    /\ rows \in [Ids -> [Versions -> Entry \cup {Null}]]
    /\ \A b \in 1..Len(batches) : BatchOK(batches[b])
    /\ pc \in [Workers -> Places]
    /\ todo \in [Workers -> SUBSET (1..Len(batches))]
    /\ at \in [Workers -> 0..Len(batches)]
    /\ \A w \in Workers : /\ Partial(asked[w], Texts)
                          /\ Partial(view[w], Entry \cup {Null})
    /\ edits \in 0..MaxEdits
    /\ faults \in Seq(FaultKinds) /\ Len(faults) <= MaxFaults

Read == {x \in Rows : rows[x[1]][x[2]].status = "ok"}

(***************************************************************************)
(* The provider answered to batch b's request about listing i; a row holds *)
(* that very answer, in all its columns.                                   *)
(***************************************************************************)
Answered(i, b)    == /\ i \in DOMAIN batches[b].texts
                     /\ Ended(b)
                     /\ batches[b].results[i].kind = "answered"
Holding(row, i, b) == /\ Answered(i, b)
                      /\ \A c \in Fields : row[c] = batches[b].results[i].reading[c]

(***************************************************************************)
(* "Key on custom_id, never position": no value of a reading is made up.   *)
(* Every column holds what an answer to a request about that very listing  *)
(* said, or nothing, whatever sessions overlap and whatever fails.         *)
(***************************************************************************)
ColumnsAreGiven ==
    \A x \in Rows : \A c \in Fields :
        LET value == rows[x[1]][x[2]][c]
        IN \/ value = Cleared[c]
           \/ \E b \in 1..Len(batches) :
                 Answered(x[1], b) /\ value = batches[b].results[x[1]].reading[c]

(***************************************************************************)
(* What the scorer reads is one answer: the columns of an 'ok' row are,    *)
(* all of them, the answer of the batch the row names.  With overlapping   *)
(* sessions the code does not ensure it: an UPDATE leaves out the columns  *)
(* that equal the value read (no signals, no quote), and so keeps another  *)
(* session's beside its own.                                               *)
(***************************************************************************)
ReadingsAreGiven ==
    \A x \in Read : LET row == rows[x[1]][x[2]] IN Holding(row, x[1], row.batch)

(***************************************************************************)
(* "An edited description invalidates the row instead of leaving a stale   *)
(* reading attached to new prose": what the scorer uses was extracted from *)
(* the very text whose hash the row carries.                               *)
(***************************************************************************)
ReadsItsText ==
    \A x \in Read : LET row == rows[x[1]][x[2]]
                    IN \E b \in 1..Len(batches) :
                         Holding(row, x[1], b) /\ batches[b].texts[x[1]] = row.hash

(***************************************************************************)
(* "A bump re-extracts rather than mixing two vocabularies": a row holds   *)
(* an answer to the prompt of its own version.                             *)
(***************************************************************************)
OneVocabulary ==
    \A x \in Read : \E b \in 1..Len(batches) :
        Holding(rows[x[1]][x[2]], x[1], b) /\ batches[b].version = x[2]

(***************************************************************************)
(* "Its batch is still in flight and re-submitting would double-bill": no  *)
(* listing is in two batches that are being processed, as long as one      *)
(* session runs at a time, under one prompt version, and no call does half *)
(* of its work: every batch that is created is recorded, and every batch   *)
(* that is collected is collected as a whole.                              *)
(***************************************************************************)
NothingHalfDone == \A k \in 1..Len(faults) : faults[k] = "api"

OneInFlight ==
    \A b, c \in 1..Len(batches) :
        b # c /\ ~Ended(b) /\ ~Ended(c) /\ batches[b].version = batches[c].version
        => DOMAIN batches[b].texts \cap DOMAIN batches[c].texts = {}

InFlightOnce == NothingHalfDone => OneInFlight

(***************************************************************************)
(* The same whatever fails.  The code does not ensure it: a stream of      *)
(* results that breaks off leaves some rows of its batch settled, the      *)
(* others pending; so the batch is collected again, over the row of a      *)
(* listing that has been sent in another one since.                        *)
(***************************************************************************)
InFlightAlwaysOnce == OneInFlight

(***************************************************************************)
(* No request is paid for and forgotten: the batch a listing was last sent *)
(* in is the batch its row names, unless a session is about to write it.   *)
(***************************************************************************)
NoOrphan ==
    NothingHalfDone =>
    \A b \in 1..Len(batches) : \A i \in DOMAIN batches[b].texts :
        \/ \E c \in b + 1..Len(batches) : i \in DOMAIN batches[c].texts
        \/ \E w \in Workers : pc[w] = "record" /\ at[w] = b
        \/ /\ rows[i][batches[b].version] # Null
           /\ rows[i][batches[b].version].batch = b

(***************************************************************************)
(* "A billing, quota, or network failure on an optional enrichment must    *)
(* never cost the whole day's scoring": the session scoring is given works.*)
(***************************************************************************)
ScoringSurvives == \A w \in Workers : pc[w] # "broken"

(***************************************************************************)
(* With one session at a time, one prompt version and no stream that       *)
(* breaks off, the table keeps the promise of ExtractionCache: an answer   *)
(* is for the text the row is about, an open request is never repeated, a  *)
(* settled row changes only by being asked again about another text.       *)
(***************************************************************************)
CacheEntry(i) ==
    LET row == Current(i)
    IN IF row = Null THEN Null
       ELSE [text |-> row.hash,
             state |-> CASE row.status = "pending" -> "open"
                         [] row.status = "ok" ->
                              IF /\ Holding(row, i, row.batch)
                                 /\ batches[row.batch].texts[i] = row.hash
                              THEN "read" ELSE "stale"
                         [] OTHER -> "unread"]

Cache == INSTANCE ExtractionCache WITH entry <- [i \in Ids |-> CacheEntry(i)]
ImplementsCache == Cache!Spec

(***************************************************************************)
(* The factor fills in on a later day: a live listing's text is in the end *)
(* read, or settled as unreadable, if it stays as it is.                   *)
(***************************************************************************)
Settled(i) == \/ i \notin live \/ text[i] = Null
              \/ /\ Current(i) # Null
                 /\ Current(i).status # "pending"
                 /\ Current(i).hash = text[i]
EventuallySettled == \A i \in Ids : <>[]Settled(i)

(***************************************************************************)
(* "Clear pending so the next submit re-queues it; leaving it pending      *)
(* would strand the listing forever": after an errored, cancelled or       *)
(* expired result the listing is asked about again, unless it has gone.    *)
(***************************************************************************)
LastFailed(i) == /\ Current(i) # Null
                 /\ Current(i).status = "invalid"
                 /\ batches[Current(i).batch].results[i].kind = "errored"
FailuresRequeued == \A i \in Ids : LastFailed(i) ~> (~LastFailed(i) \/ i \notin live)
===============================================================================
