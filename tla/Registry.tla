------------------------------- MODULE Registry -------------------------------
(***************************************************************************)
(* The RERA registry and what is made of it: rera.run, which upserts one   *)
(* page of the registry into builders and rera_projects, and the legal     *)
(* tagger, tag_recent_listings, which joins the listings with it.  The     *)
(* sessions that run them, from the schedule, the catch-up thread or the   *)
(* CLI, may overlap.                                                       *)
(*                                                                         *)
(* A row is known by its unique key: a builder by its normalised name, a   *)
(* project by its canonical registration number, a tag by its listing and  *)
(* its item.  Sessions are READ COMMITTED; what one has flushed is staged, *)
(* with the locks of the rows and unique keys, until it commits.           *)
(*                                                                         *)
(* A definition named Faulty... is not used: it is the definition that     *)
(* follows it with a plausible bug, with which a property below fails.     *)
(***************************************************************************)
EXTENDS Integers, SequencesExt, RunStatus, Columns

CONSTANTS
    Regs,        \* registration numbers
    Promoters,   \* normalised promoter names
    Names,       \* project names
    Pages,       \* pages of the registry: records, or Malformed
    Malformed,   \* a page whose arrays differ in length
    Listings,
    Facts,       \* what a listing may say of itself
    Items,       \* the text items, in order, without rera_registered
    Rules,       \* Rules[item]: its patterns with their statuses, in order
    Workers,     \* sessions
    Null,        \* SQL NULL, and no row
    MaxRuns, MaxEdits, MaxFaults  \* bounds of the model

Record == [reg : Regs \cup {Null}, promoter : Promoters \cup {Null},
           name : Names \cup {Null}]

ProjectRow == [builder : Promoters \cup {Null}, name : Names \cup {Null}, raw : Record]

(***************************************************************************)
(* What a tag may cite: the numbers that are not in the registry, the      *)
(* project of the first that is, or the words of the listing's text.       *)
(***************************************************************************)
Evidence == ({"unmatched"} \X {l.ids : l \in Facts})
                \cup ({"project"} \X Regs \X (Promoters \cup {Null}))
                \cup ({"text"} \X UNION {l.words : l \in Facts})

ASSUME RegistryAssumption ==
    /\ \A page \in Pages \ {Malformed} : page \in Seq(Record)
    /\ Items \in Seq(DOMAIN Rules)
    /\ "rera_registered" \notin DOMAIN Rules
    /\ Null \notin Regs \cup Promoters \cup Names \cup ProjectRow \cup Evidence
    /\ \A facts \in Facts : facts.ids \in Seq(Regs)
    /\ IsFiniteSet(Listings)

VARIABLES
    rows,      \* the three tables: the row of every unique key that has one
    runs,      \* scrape_runs of the source
    raw,       \* raw_payloads: the page each run has archived
    listings,  \* what each listing says, and whether the window has seen it
    pc,        \* where each session is
    cur,       \* its run
    page,      \* the page it fetched
    pos,       \* its record on the page, or its item of the listing
    snap,      \* the listings of its pass, as it read them
    todo,      \* the listings it has yet to tag, in order
    cache,     \* registry_cache
    view,      \* the row it has read
    want,      \* the key and the row it is about to flush
    staged,    \* what it has flushed
    stored,    \* the runs whose upserts were committed, in that order
    overlapped,  \* the jobs of which two sessions were ever at work at once
    edits, faults  \* changes and faults so far, for the bounds

tables  == <<rows, runs, raw>>
session == <<pc, cur, page, pos, snap, todo, cache, view, want, staged>>
history == <<stored, overlapped, edits, faults>>
vars    == <<tables, listings, session, history>>

AllItems == <<"rera_registered">> \o Items
Keys     == ({"builder"} \X Promoters) \cup ({"project"} \X Regs)
                \cup ({"tag"} \X (Listings \X Range(AllItems)))
Nothing  == [x \in {} |-> Null]
Override(new, old) == [k \in DOMAIN new \cup DOMAIN old |->
                          IF k \in DOMAIN new THEN new[k] ELSE old[k]]
Fetched(f, k) == IF k \in DOMAIN f THEN f[k] ELSE Null

Init ==
    /\ rows = Nothing
    /\ runs = <<>>
    /\ raw = <<>>
    /\ listings \in [Listings -> Facts]
    /\ pc = [w \in Workers |-> "idle"]
    /\ cur = [w \in Workers |-> 0]
    /\ page = [w \in Workers |-> <<>>]
    /\ pos = [w \in Workers |-> 1]
    /\ snap = [w \in Workers |-> Nothing]
    /\ todo = [w \in Workers |-> <<>>]
    /\ cache = [w \in Workers |-> Nothing]
    /\ view = [w \in Workers |-> Null]
    /\ want = [w \in Workers |-> Null]
    /\ staged = [w \in Workers |-> Nothing]
    /\ stored = <<>>
    /\ overlapped = {}
    /\ edits = 0
    /\ faults = 0

-------------------------------------------------------------------------------
(***************************************************************************)
(* Sessions: what a row is to one of them, whom it waits for, its ends.    *)
(***************************************************************************)
Mine(w, key) == Fetched(Override(staged[w], rows), key)

HeldByOther(w, key) == \E v \in Workers \ {w} : key \in DOMAIN staged[v]

WaitsFor(w, v) == v # w /\ pc[w] = "flush" /\ want[w].key \in DOMAIN staged[v]
Deadlocked(w) == \E v \in Workers : WaitsFor(w, v) /\ WaitsFor(v, w)

Go(w, place) == pc' = [pc EXCEPT ![w] = place]

Leave(w) ==
    /\ Go(w, "idle")
    /\ cur' = [cur EXCEPT ![w] = 0]
    /\ page' = [page EXCEPT ![w] = <<>>]
    /\ pos' = [pos EXCEPT ![w] = 1]
    /\ snap' = [snap EXCEPT ![w] = Nothing]
    /\ todo' = [todo EXCEPT ![w] = <<>>]
    /\ cache' = [cache EXCEPT ![w] = Nothing]
    /\ view' = [view EXCEPT ![w] = Null]
    /\ want' = [want EXCEPT ![w] = Null]
    /\ staged' = [staged EXCEPT ![w] = Nothing]

Job(w) == IF cur[w] # 0 THEN "rera" ELSE "tags"
Begin(w, job) ==
    overlapped' = IF \E v \in Workers \ {w} : pc[v] # "idle" /\ Job(v) = job
                  THEN overlapped \cup {job} ELSE overlapped

Close(w, status, items) ==
    /\ runs' = [runs EXCEPT ![cur[w]] = [status |-> status, items |-> items]]
    /\ Leave(w)

-------------------------------------------------------------------------------
(***************************************************************************)
(* rera.run.  The run is committed as 'running'; a fetch that fails closes *)
(* it.  The page, of today or, as html_override, one of the archive, is    *)
(* archived before anything looks at it; what parse refuses, arrays that   *)
(* disagree and an empty page, closes the run as well.                     *)
(***************************************************************************)
Start(w) ==
    /\ pc[w] = "idle"
    /\ Len(runs) < MaxRuns
    /\ runs' = Append(runs, [status |-> "running", items |-> 0])
    /\ cur' = [cur EXCEPT ![w] = Len(runs) + 1]
    /\ Go(w, "fetch")
    /\ Begin(w, "rera")
    /\ UNCHANGED <<rows, raw, listings, page, pos, snap, todo, cache, view, want,
                   staged, stored, edits, faults>>

FetchFails(w) ==
    /\ pc[w] = "fetch"
    /\ Close(w, "failed", 0)
    /\ UNCHANGED <<rows, raw, listings, history>>

Archive(w) ==
    /\ pc[w] = "fetch"
    /\ \E p \in Pages :
         /\ page' = [page EXCEPT ![w] = p]
         /\ raw' = Override([r \in {cur[w]} |-> p], raw)
    /\ Go(w, "parse")
    /\ UNCHANGED <<rows, runs, listings, cur, pos, snap, todo, cache, view, want,
                   staged, history>>

Unparsable(p) == p = Malformed \/ p = <<>>

ParseFails(w) ==
    /\ pc[w] = "parse"
    /\ Unparsable(page[w])
    /\ Close(w, "failed", 0)
    /\ UNCHANGED <<rows, raw, listings, history>>

Parse(w) ==
    /\ pc[w] = "parse"
    /\ ~Unparsable(page[w])
    /\ Go(w, "record")
    /\ UNCHANGED <<tables, listings, cur, page, pos, snap, todo, cache, view, want,
                   staged, history>>

(***************************************************************************)
(* One record.  An application without a number is counted and skipped.    *)
(* The builder is looked up, and inserted if there is none; then the       *)
(* project is.  A record without a promoter or a name keeps the builder or *)
(* the name the project has.                                               *)
(***************************************************************************)
Rec(w) == page[w][pos[w]]
AtRecord(w) == pc[w] = "record" /\ pos[w] <= Len(page[w])

Skip(w) ==
    /\ AtRecord(w)
    /\ Rec(w).reg = Null
    /\ pos' = [pos EXCEPT ![w] = @ + 1]
    /\ UNCHANGED <<tables, listings, pc, cur, page, snap, todo, cache, view, want,
                   staged, history>>

Seek(w, key, row) ==
    /\ view' = [view EXCEPT ![w] = Mine(w, key)]
    /\ want' = [want EXCEPT ![w] = [key |-> key, row |-> row]]
    /\ Go(w, "flush")

FindBuilder(w) ==
    /\ AtRecord(w)
    /\ Rec(w).reg # Null
    /\ LET key == <<"builder", Rec(w).promoter>>
       IN IF Rec(w).promoter = Null \/ Mine(w, key) # Null
          THEN Go(w, "project") /\ UNCHANGED <<view, want>>
          ELSE Seek(w, key, [name |-> Rec(w).promoter])
    /\ UNCHANGED <<tables, listings, cur, page, pos, snap, todo, cache, staged, history>>

Or(new, old) == IF new # Null THEN new ELSE old

FaultyUpserted(rec, old) ==
    [builder |-> rec.promoter, name |-> rec.name, raw |-> rec]
Upserted(rec, old) ==
    [builder |-> IF old = Null THEN rec.promoter ELSE Or(rec.promoter, old.builder),
     name    |-> IF old = Null THEN rec.name ELSE Or(rec.name, old.name),
     raw     |-> rec]

FindProject(w) ==
    /\ pc[w] = "project"
    /\ LET key == <<"project", Rec(w).reg>>
       IN Seek(w, key, Upserted(Rec(w), Mine(w, key)))
    /\ UNCHANGED <<tables, listings, cur, page, pos, snap, todo, cache, staged, history>>

(***************************************************************************)
(* The upserts are committed together; the run is closed by a transaction  *)
(* of its own, after the volume guard.                                     *)
(***************************************************************************)
Publish(w) ==
    /\ rows' = Override(staged[w], rows)
    /\ staged' = [staged EXCEPT ![w] = Nothing]

CommitPage(w) ==
    /\ pc[w] = "record"
    /\ pos[w] > Len(page[w])
    /\ Publish(w)
    /\ stored' = Append(stored, cur[w])
    /\ Go(w, "close")
    /\ UNCHANGED <<runs, raw, listings, cur, page, pos, snap, todo, cache, view, want,
                   overlapped, edits, faults>>

TrailingSizes ==
    LET ok == SelectSeq(runs, LAMBDA r : r.status = "ok")
    IN [k \in 1..Len(ok) |-> ok[k].items]

CloseRun(w) ==
    /\ pc[w] = "close"
    /\ Close(w, IF VolumeCollapsed(Len(page[w]), TrailingSizes) THEN "anomalous" ELSE "ok",
             Len(page[w]))
    /\ UNCHANGED <<rows, raw, listings, history>>

-------------------------------------------------------------------------------
(***************************************************************************)
(* tag_recent_listings: the active listings of the window, in whatever     *)
(* order the table returns them, each with its four items.                 *)
(***************************************************************************)
FaultyRecent == {l \in Listings : /\ listings[l].recent
                                  /\ <<"tag", <<l, "rera_registered">>>> \notin DOMAIN rows}
Recent == {l \in Listings : listings[l].recent}

List(w) ==
    /\ pc[w] = "idle"
    /\ Recent # {}
    /\ \E order \in SetToSeqs(Recent) : todo' = [todo EXCEPT ![w] = order]
    /\ snap' = [snap EXCEPT ![w] = [l \in Recent |-> listings[l]]]
    /\ Go(w, "tag")
    /\ Begin(w, "tags")
    /\ UNCHANGED <<tables, listings, cur, page, pos, cache, view, want, staged,
                   stored, edits, faults>>

(***************************************************************************)
(* rera_registered: the first of the listing's numbers that is in the      *)
(* registry, each looked up once in a pass.                                *)
(***************************************************************************)
Project(w, reg) == IF reg \in DOMAIN cache[w] THEN cache[w][reg]
                   ELSE Fetched(rows, <<"project", reg>>)

LookedUp(w, ids) ==
    {ids[k] : k \in {k \in DOMAIN ids : \A j \in 1..k - 1 : Project(w, ids[j]) = Null}}

FaultyRegistryTag(w, ids) ==
    IF ids = <<>> THEN [status |-> "unknown", evidence |-> Null]
    ELSE [status |-> IF Project(w, Head(ids)) # Null THEN "pass" ELSE "flag",
          evidence |-> IF Project(w, Last(ids)) # Null
                       THEN <<"project", Last(ids), Project(w, Last(ids)).builder>>
                       ELSE <<"unmatched", ids>>]
RegistryTag(w, ids) ==
    LET found == {k \in DOMAIN ids : Project(w, ids[k]) # Null}
        reg   == ids[Min(found)]
    IN CASE ids = <<>> -> [status |-> "unknown", evidence |-> Null]
         [] found # {} -> [status |-> "pass",
                           evidence |-> <<"project", reg, Project(w, reg).builder>>]
         [] OTHER -> [status |-> "flag", evidence |-> <<"unmatched", ids>>]

(***************************************************************************)
(* The other items: the first rule whose pattern the text matches.         *)
(***************************************************************************)
TextTag(item, words) ==
    LET hits == SelectSeq(Rules[item], LAMBDA rule : rule.pattern \in words)
    IN IF hits = <<>> THEN [status |-> "unknown", evidence |-> Null]
       ELSE [status |-> Head(hits).status, evidence |-> <<"text", Head(hits).pattern>>]

FindTag(w) ==
    /\ pc[w] = "tag"
    /\ todo[w] # <<>>
    /\ LET l    == Head(todo[w])
           item == AllItems[pos[w]]
           key  == <<"tag", <<l, item>>>>
           ids  == snap[w][l].ids
       IN IF item = "rera_registered"
          THEN /\ Seek(w, key, RegistryTag(w, ids))
               /\ cache' = [cache EXCEPT ![w] = Override(
                              @, [reg \in LookedUp(w, ids) |-> Project(w, reg)])]
          ELSE /\ Seek(w, key, TextTag(item, snap[w][l].words))
               /\ UNCHANGED cache
    /\ UNCHANGED <<tables, listings, cur, page, pos, snap, todo, staged, history>>

FaultyCommitTags(w) ==
    /\ pc[w] = "tag"
    /\ Publish(w)
    /\ Leave(w)
    /\ UNCHANGED <<runs, raw, listings, history>>
CommitTags(w) ==
    /\ pc[w] = "tag"
    /\ todo[w] = <<>>
    /\ Publish(w)
    /\ Leave(w)
    /\ UNCHANGED <<runs, raw, listings, history>>

-------------------------------------------------------------------------------
(***************************************************************************)
(* The flush: an INSERT that meets a row committed since the read breaks   *)
(* the unique constraint.  Any error rolls the session back; rera.run then *)
(* closes its run as failed.                                               *)
(***************************************************************************)
Fits(w) == view[w] = Null => Mine(w, want[w].key) = Null

Flush(w) ==
    /\ pc[w] = "flush"
    /\ ~HeldByOther(w, want[w].key)
    /\ Fits(w)
    /\ LET key  == want[w].key
           row  == IF view[w] = Null THEN want[w].row
                   ELSE WriteColumns(Mine(w, key), view[w], want[w].row)
           last == key[1] = "tag" /\ pos[w] = Len(AllItems)
       IN /\ staged' = [staged EXCEPT ![w] = Override([k \in {key} |-> row], @)]
          /\ Go(w, CASE key[1] = "builder" -> "project"
                     [] key[1] = "project" -> "record"
                     [] OTHER -> "tag")
          /\ pos' = [pos EXCEPT ![w] = IF last THEN 1
                                       ELSE IF key[1] = "builder" THEN @ ELSE @ + 1]
          /\ todo' = [todo EXCEPT ![w] = IF last THEN Tail(@) ELSE @]
    /\ view' = [view EXCEPT ![w] = Null]
    /\ want' = [want EXCEPT ![w] = Null]
    /\ UNCHANGED <<tables, listings, cur, page, snap, cache, history>>

FaultyRollback(w) ==
    /\ Publish(w)
    /\ IF Job(w) = "rera" THEN Close(w, "failed", Len(page[w]))
                          ELSE Leave(w) /\ UNCHANGED runs
    /\ UNCHANGED <<raw, listings, stored, overlapped, edits>>
Rollback(w) ==
    /\ IF Job(w) = "rera" THEN Close(w, "failed", Len(page[w]))
                          ELSE Leave(w) /\ UNCHANGED runs
    /\ UNCHANGED <<rows, raw, listings, stored, overlapped, edits>>

Collide(w) ==
    /\ pc[w] = "flush"
    /\ ~HeldByOther(w, want[w].key)
    /\ ~Fits(w)
    /\ Rollback(w)
    /\ UNCHANGED faults

DeadlockVictim(w) == Deadlocked(w) /\ Rollback(w) /\ UNCHANGED faults

(***************************************************************************)
(* Faults: a statement that fails within the try of rera.run or within the *)
(* tagger; the death of the process, or an error outside the try blocks,   *)
(* which leave the run as it is.                                           *)
(***************************************************************************)
Fault == faults < MaxFaults /\ faults' = faults + 1

Fail(w) ==
    /\ pc[w] \in {"record", "project", "flush", "tag"}
    /\ Fault
    /\ Rollback(w)

Crash(w) ==
    /\ pc[w] # "idle"
    /\ Fault
    /\ Leave(w)
    /\ UNCHANGED <<tables, listings, stored, overlapped, edits>>

(***************************************************************************)
(* Collection changes what a listing says, or stops to see it.             *)
(***************************************************************************)
Change(l) ==
    /\ edits < MaxEdits
    /\ edits' = edits + 1
    /\ \E facts \in Facts \ {listings[l]} : listings' = [listings EXCEPT ![l] = facts]
    /\ UNCHANGED <<tables, session, stored, overlapped, faults>>

Advance(w) ==
    \/ Archive(w) \/ ParseFails(w) \/ Parse(w)
    \/ Skip(w) \/ FindBuilder(w) \/ FindProject(w) \/ CommitPage(w) \/ CloseRun(w)
    \/ FindTag(w) \/ CommitTags(w)
    \/ Flush(w) \/ Collide(w) \/ DeadlockVictim(w)

Next ==
    \/ \E w \in Workers : \/ Start(w) \/ List(w) \/ Advance(w)
                          \/ FetchFails(w) \/ Fail(w) \/ Crash(w)
    \/ \E l \in Listings : Change(l)

Spec == Init /\ [][Next]_vars

(***************************************************************************)
(* A job that has begun goes on, a session that waits for a row is queued  *)
(* and gets it, and the schedule starts a tag pass every day.              *)
(***************************************************************************)
FairSpec ==
    /\ Spec
    /\ \A w \in Workers : /\ WF_vars(Advance(w))
                          /\ SF_vars(Flush(w) \/ Collide(w))
                          /\ WF_vars(List(w))

-------------------------------------------------------------------------------
(***************************************************************************)
(* The tables, the archive and the sessions are well formed.               *)
(***************************************************************************)
RowOf(key) ==
    CASE key[1] = "builder" -> [name : {key[2]}]
      [] key[1] = "project" -> {row \in ProjectRow : row.raw.reg = key[2]}
      [] OTHER -> [status : {"pass", "flag", "unknown"},
                   evidence : {Null} \cup Evidence]

TypeOK ==
    /\ DOMAIN rows \subseteq Keys
    /\ \A key \in DOMAIN rows : rows[key] \in RowOf(key)
    /\ \A r \in 1..Len(runs) : runs[r].status \in Statuses /\ runs[r].items \in Nat
    /\ DOMAIN raw \subseteq 1..Len(runs)
    /\ \A r \in DOMAIN raw : raw[r] \in Pages
    /\ listings \in [Listings -> Facts]
    /\ \A w \in Workers :
         /\ pc[w] \in {"idle", "fetch", "parse", "record", "project", "tag", "flush",
                       "close"}
         /\ cur[w] \in 0..Len(runs)
         /\ DOMAIN staged[w] \subseteq Keys
         /\ \A key \in DOMAIN staged[w] : staged[w][key] \in RowOf(key)
    /\ Range(stored) \subseteq 1..Len(runs)

Projects == {reg \in Regs : <<"project", reg>> \in DOMAIN rows}
RowFor(reg) == rows[<<"project", reg>>]
Registered(r, reg) == \E k \in DOMAIN raw[r] : raw[r][k].reg = reg

(***************************************************************************)
(* "raw page is archived, re-parseable": the pages of the runs that were   *)
(* not called failed account for the registry.  Every project's record is  *)
(* on the archived page of such a run, and every registered record of a    *)
(* run called ok or anomalous has its project, whatever failed, died or    *)
(* ran at the same time.                                                   *)
(***************************************************************************)
RunsAccountForRegistry ==
    /\ \A reg \in Projects : \E r \in DOMAIN raw :
          /\ runs[r].status # "failed"
          /\ raw[r] # Malformed
          /\ RowFor(reg).raw \in Range(raw[r])
    /\ \A r \in 1..Len(runs) : runs[r].status \in {"ok", "anomalous"} =>
          r \in DOMAIN raw /\ \A reg \in Regs : Registered(r, reg) => reg \in Projects

(***************************************************************************)
(* As long as no two runs have overlapped, the registry is what replaying  *)
(* the archived pages of the committed runs gives: the last record of a    *)
(* number, with the last promoter and the last name that were given for    *)
(* it.  A record is known by its run, in the order of the commits, and its *)
(* place on the page.                                                      *)
(***************************************************************************)
Archived ==
    [p \in UNION {{k} \X DOMAIN raw[stored[k]] : k \in DOMAIN stored} |->
        raw[stored[p[1]]][p[2]]]

Before(p, q) == p[1] < q[1] \/ (p[1] = q[1] /\ p[2] < q[2])
Latest(S) == CHOOSE p \in S : \A q \in S \ {p} : Before(q, p)

Of(recs, reg) == {p \in DOMAIN recs : recs[p].reg = reg}
LastGiven(recs, S, column) ==
    LET given == {p \in S : recs[p][column] # Null}
    IN IF given = {} THEN Null ELSE recs[Latest(given)][column]

Replayed(recs, reg) ==
    [builder |-> LastGiven(recs, Of(recs, reg), "promoter"),
     name    |-> LastGiven(recs, Of(recs, reg), "name"),
     raw     |-> recs[Latest(Of(recs, reg))]]

ReplayHolds ==
    \A reg \in Regs : /\ reg \in Projects <=> Of(Archived, reg) # {}
                      /\ reg \in Projects => RowFor(reg) = Replayed(Archived, reg)
RegistryReplays == "rera" \notin overlapped => ReplayHolds

(***************************************************************************)
(* The same with overlapping runs.  The code does not ensure it: an UPDATE *)
(* leaves out the columns that equal what its session read, and keeps      *)
(* there what the other run has committed since.                           *)
(***************************************************************************)
RegistryAlwaysReplays == ReplayHolds

(***************************************************************************)
(* "Every listing gets tagged on four items": the tags of a listing appear *)
(* together, whatever fails in a pass and however passes overlap, so that  *)
(* nothing reads a flagged khata as untagged.                              *)
(***************************************************************************)
Tagged(l) == {i \in Range(AllItems) : <<"tag", <<l, i>>>> \in DOMAIN rows}
TagsComplete == \A l \in Listings : Tagged(l) \in {{}, Range(AllItems)}

(***************************************************************************)
(* "A verifiable cross-source fact": a registration tag agrees with the    *)
(* evidence it cites, and a cited project is in the registry, with the     *)
(* builder it had if it had one.                                           *)
(***************************************************************************)
Agrees(tag) ==
    CASE tag.status = "unknown" -> tag.evidence = Null
      [] tag.status = "flag" -> tag.evidence # Null /\ tag.evidence[1] = "unmatched"
      [] OTHER -> /\ tag.evidence # Null
                  /\ tag.evidence[1] = "project"
                  /\ tag.evidence[2] \in Projects
                  /\ tag.evidence[3] # Null => <<"builder", tag.evidence[3]>> \in DOMAIN rows
RegistrationAgrees(l) == "rera_registered" \in Tagged(l) =>
                             Agrees(rows[<<"tag", <<l, "rera_registered">>>>])
TagsCite == "tags" \notin overlapped => \A l \in Listings : RegistrationAgrees(l)

(***************************************************************************)
(* The same with overlapping passes.  The code does not ensure it: one     *)
(* pass finds a number registered that the other did not, and the other's  *)
(* UPDATE writes its evidence beside the first one's status.               *)
(***************************************************************************)
TagsAlwaysCite == \A l \in Listings : RegistrationAgrees(l)

(***************************************************************************)
(* "Idempotent: re-tagging upserts": when collection, the registry and the *)
(* faults come to rest, the tags of every listing in the window come to    *)
(* say what its text and the registry say, a stale flag included.          *)
(***************************************************************************)
RightTag(l, item) ==
    IF item # "rera_registered" THEN TextTag(item, listings[l].words).status
    ELSE IF listings[l].ids = <<>> THEN "unknown"
    ELSE IF Range(listings[l].ids) \cap Projects # {} THEN "pass" ELSE "flag"
TagsConverge ==
    <>[](\A l \in Listings : listings[l].recent =>
            /\ Tagged(l) = Range(AllItems)
            /\ \A item \in Range(AllItems) :
                 rows[<<"tag", <<l, item>>>>].status = RightTag(l, item))
===============================================================================
