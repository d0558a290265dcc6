-------------------------------- MODULE Ingest --------------------------------
(***************************************************************************)
(* The ingestion pipeline of one portal source: run_source and             *)
(* sweep_stale_listings, executed by any number of sessions at once (the   *)
(* scheduler's job thread, the start-up catch-up thread, a CLI process)    *)
(* over one Postgres database.                                             *)
(*                                                                         *)
(* Transactions are READ COMMITTED: a statement sees what is committed     *)
(* when it starts plus its own session's writes, and an UPDATE, or an      *)
(* INSERT of a unique key, waits for the transaction that holds the row.   *)
(* The code reads a row, decides in Python, and writes at the next flush,  *)
(* so reading and writing are separate steps here.  A commit either        *)
(* happens and returns, or does not happen.                                *)
(*                                                                         *)
(* A definition named Faulty... is not used: it is the definition that     *)
(* follows it with a plausible bug, with which a property below fails.     *)
(***************************************************************************)
EXTENDS Listings, RunStatus, FiniteSets

CONSTANTS
    Workers,     \* sessions that may run the source or sweep it
    Feeds,       \* the feeds a fetch may return
    StaleDays,   \* the sweep's stale_days, in ticks of the clock
    FaultKinds,  \* subset of {"crash", "escape"}: the faults that may happen
    MaxFaults, MaxRuns, MaxTime,  \* bounds of the model
    MaxJobTicks  \* a bound too: no job outlasts this many ticks of the clock

ASSUME IngestAssumption == /\ Feeds \subseteq Seq(Item)
                           /\ StaleDays \in Nat
                           /\ MaxFaults \in Nat
                           /\ MaxRuns \in Nat
                           /\ MaxTime \in Nat
                           /\ MaxJobTicks \in Nat

VARIABLES
    now,       \* the clock
    runs,      \* scrape_runs of the source, in order of id
    raw,       \* raw_payloads: <<run, record>> pairs
    listings,  \* committed rows of listings, Null where there is none
    versions,  \* committed listing_versions of each listing, in order of id
    events,    \* committed price_events of each listing, in order of id
    pc,        \* where each session is in its job
    cur,       \* the run a session has open, 0 if none
    feed,      \* the records its fetch returned
    pos,       \* the record it is at
    failed,    \* its count of failed records
    view,      \* the rows it has read and not yet written
    asof,      \* its clock when it read them
    staged,    \* rows it has written and not yet committed: the rows it has locked
    faults     \* faults so far

database == <<runs, raw, listings, versions, events>>
rows     == <<listings, versions, events>>
session  == <<pc, cur, feed, pos, failed, view, asof, staged>>
vars     == <<now, database, session, faults>>

Places  == {"idle", "fetch", "archive", "items", "write", "close", "sweep"}
Run     == [status : Statuses, items : Nat \cup {Null},
            started : Nat, finished : Nat \cup {Null}]
Pending == [row : Row, versions : Seq(Version), events : Seq(PriceEvent)]
Partial(f, S, T) == DOMAIN f \subseteq S /\ f \in [DOMAIN f -> T]
Nothing == [x \in {} |-> Null]

Init ==
    /\ now = 0
    /\ runs = <<>>
    /\ raw = {}
    /\ listings = [i \in Ids |-> Null]
    /\ versions = [i \in Ids |-> <<>>]
    /\ events = [i \in Ids |-> <<>>]
    /\ pc = [w \in Workers |-> "idle"]
    /\ cur = [w \in Workers |-> 0]
    /\ feed = [w \in Workers |-> <<>>]
    /\ pos = [w \in Workers |-> 1]
    /\ failed = [w \in Workers |-> 0]
    /\ view = [w \in Workers |-> Nothing]
    /\ asof = [w \in Workers |-> 0]
    /\ staged = [w \in Workers |-> Nothing]
    /\ faults = 0

-------------------------------------------------------------------------------
(***************************************************************************)
(* Row locks and the session's own uncommitted writes.                     *)
(***************************************************************************)
LockedByOther(w, i) == \E v \in Workers \ {w} : i \in DOMAIN staged[v]

Mine(w, i) ==
    IF i \in DOMAIN staged[w]
    THEN staged[w][i]
    ELSE [row |-> listings[i], versions |-> <<>>, events |-> <<>>]

(***************************************************************************)
(* A session waits when every row it still has to write is locked, and     *)
(* Postgres breaks a cycle of waiting sessions by failing one statement.   *)
(***************************************************************************)
Waiting(w) == /\ pc[w] \in {"write", "sweep"}
              /\ DOMAIN view[w] # {}
              /\ \A i \in DOMAIN view[w] : LockedByOther(w, i)

WaitsFor(w, v) == /\ Waiting(w)
                  /\ v # w
                  /\ DOMAIN view[w] \cap DOMAIN staged[v] # {}

FaultyDeadlocked(w) == FALSE
Deadlocked(w) ==
    \E S \in SUBSET Workers :
        /\ w \in S
        /\ \A u \in S : /\ \E v \in S : WaitsFor(u, v)
                        /\ \E v \in S : WaitsFor(v, u)

(***************************************************************************)
(* The flush of what one observation or removal does to listing i, read as *)
(* old: insert or update the row, append the versions and the events.      *)
(***************************************************************************)
Flush(w, i, old, effect) ==
    LET mine == Mine(w, i)
    IN staged' = [staged EXCEPT ![w] =
         [j \in DOMAIN staged[w] \cup {i} |->
            IF j # i
            THEN staged[w][j]
            ELSE [row |-> IF old = Null
                          THEN effect.row
                          ELSE WriteColumns(mine.row, old, effect.row),
                  versions |-> mine.versions \o effect.versions,
                  events |-> mine.events \o effect.events]]]

Publish(w) ==
    /\ listings' = [i \in Ids |-> Mine(w, i).row]
    /\ versions' = [i \in Ids |-> versions[i] \o Mine(w, i).versions]
    /\ events' = [i \in Ids |-> events[i] \o Mine(w, i).events]

(***************************************************************************)
(* The end of a session: what it had not committed is rolled back and its  *)
(* locks are released.                                                     *)
(***************************************************************************)
EndSession(w) ==
    /\ pc' = [pc EXCEPT ![w] = "idle"]
    /\ cur' = [cur EXCEPT ![w] = 0]
    /\ feed' = [feed EXCEPT ![w] = <<>>]
    /\ pos' = [pos EXCEPT ![w] = 1]
    /\ failed' = [failed EXCEPT ![w] = 0]
    /\ view' = [view EXCEPT ![w] = Nothing]
    /\ asof' = [asof EXCEPT ![w] = 0]
    /\ staged' = [staged EXCEPT ![w] = Nothing]

FinishRun(w, status, items) ==
    runs' = [runs EXCEPT ![cur[w]] =
               [status |-> status, items |-> items,
                started |-> runs[cur[w]].started, finished |-> now]]

-------------------------------------------------------------------------------
(***************************************************************************)
(* run_source.  The run row is committed as 'running' before the fetch.    *)
(***************************************************************************)
Start(w) ==
    /\ pc[w] = "idle"
    /\ Len(runs) < MaxRuns
    /\ runs' = Append(runs, [status |-> "running", items |-> Null,
                             started |-> now, finished |-> Null])
    /\ pc' = [pc EXCEPT ![w] = "fetch"]
    /\ cur' = [cur EXCEPT ![w] = Len(runs) + 1]
    /\ UNCHANGED <<now, raw, rows, feed, pos, failed, view, asof, staged, faults>>

FetchFails(w) ==
    /\ pc[w] = "fetch"
    /\ FinishRun(w, "failed", 0)
    /\ EndSession(w)
    /\ UNCHANGED <<now, raw, rows, faults>>

Fetch(w) ==
    /\ pc[w] = "fetch"
    /\ \E f \in Feeds : feed' = [feed EXCEPT ![w] = f]
    /\ pc' = [pc EXCEPT ![w] = "archive"]
    /\ UNCHANGED <<now, database, cur, pos, failed, view, asof, staged, faults>>

(***************************************************************************)
(* Raw first: the whole feed is archived in one commit, before any row of  *)
(* listings is touched.                                                    *)
(***************************************************************************)
FaultyArchived(w) == {<<cur[w], feed[w][k]>> : k \in 2..Len(feed[w])}
Archived(w) == {<<cur[w], feed[w][k]>> : k \in 1..Len(feed[w])}

Archive(w) ==
    /\ pc[w] = "archive"
    /\ raw' = raw \cup Archived(w)
    /\ pc' = [pc EXCEPT ![w] = "items"]
    /\ UNCHANGED <<now, runs, rows, cur, feed, pos, failed, view, asof, staged, faults>>

(***************************************************************************)
(* One record.  Projects and stubs are only counted; a listing is read     *)
(* (_upsert_listing's SELECT), decided on, and written by the flush at the *)
(* end of its savepoint.                                                   *)
(***************************************************************************)
AtItem(w) == pc[w] = "items" /\ pos[w] <= Len(feed[w])

PassOver(w) ==
    /\ AtItem(w)
    /\ feed[w][pos[w]].kind # "listing"
    /\ failed' = [failed EXCEPT ![w] = @ + IF feed[w][pos[w]].kind = "stub"
                                           THEN 1 ELSE 0]
    /\ pos' = [pos EXCEPT ![w] = @ + 1]
    /\ UNCHANGED <<now, database, pc, cur, feed, view, asof, staged, faults>>

ReadItem(w) ==
    /\ AtItem(w)
    /\ LET item == feed[w][pos[w]]
       IN /\ item.kind = "listing"
          /\ view' = [view EXCEPT ![w] = [i \in {item.id} |-> Mine(w, i).row]]
    /\ asof' = [asof EXCEPT ![w] = now]
    /\ pc' = [pc EXCEPT ![w] = "write"]
    /\ UNCHANGED <<now, database, cur, feed, pos, failed, staged, faults>>

NextItem(w) ==
    /\ pc' = [pc EXCEPT ![w] = "items"]
    /\ pos' = [pos EXCEPT ![w] = @ + 1]
    /\ view' = [view EXCEPT ![w] = Nothing]
    /\ asof' = [asof EXCEPT ![w] = 0]

FaultyInsertFits(w, i) == TRUE
InsertFits(w, i) == view[w][i] = Null => Mine(w, i).row = Null

WriteItem(w) ==
    /\ pc[w] = "write"
    /\ LET item == feed[w][pos[w]]
           old  == view[w][item.id]
       IN /\ ~LockedByOther(w, item.id)
          /\ InsertFits(w, item.id)
          /\ Flush(w, item.id, old, Observe(old, item, cur[w], asof[w]))
    /\ NextItem(w)
    /\ UNCHANGED <<now, database, cur, feed, failed, faults>>

(***************************************************************************)
(* The savepoint of one record is rolled back and the record counted as    *)
(* failed: for any error at all, or because another session has inserted   *)
(* the same listing since the read (the unique constraint), or as the      *)
(* victim of a deadlock.                                                   *)
(***************************************************************************)
LoseItem(w) ==
    /\ NextItem(w)
    /\ failed' = [failed EXCEPT ![w] = @ + 1]
    /\ UNCHANGED <<now, database, cur, feed, staged, faults>>

FailItem(w) == pc[w] = "write" /\ LoseItem(w)

InsertCollides(w) ==
    /\ pc[w] = "write"
    /\ LET i == feed[w][pos[w]].id
       IN ~LockedByOther(w, i) /\ ~InsertFits(w, i)
    /\ LoseItem(w)

DeadlockVictim(w) == pc[w] = "write" /\ Deadlocked(w) /\ LoseItem(w)

CommitItems(w) ==
    /\ pc[w] = "items"
    /\ pos[w] > Len(feed[w])
    /\ Publish(w)
    /\ staged' = [staged EXCEPT ![w] = Nothing]
    /\ pc' = [pc EXCEPT ![w] = "close"]
    /\ UNCHANGED <<now, runs, raw, cur, feed, pos, failed, view, asof, faults>>

(***************************************************************************)
(* The outer exception handler, for an error in the archive, between two   *)
(* records or in their commit: everything since the last commit is rolled  *)
(* back and the run is closed as failed.                                   *)
(***************************************************************************)
Abort(w) ==
    /\ pc[w] \in {"archive", "items", "write"}
    /\ FinishRun(w, "failed", Len(feed[w]))
    /\ EndSession(w)
    /\ UNCHANGED <<now, raw, rows, faults>>

(***************************************************************************)
(* The last part of run_source, outside the try: the trailing average over *)
(* the last seven 'ok' runs, the classification, the final commit.         *)
(***************************************************************************)
TrailingSizes ==
    LET ok == SelectSeq(runs, LAMBDA r : r.status = "ok")
        recent == SubSeq(ok, IF Len(ok) > 7 THEN Len(ok) - 6 ELSE 1, Len(ok))
    IN [k \in 1..Len(recent) |-> recent[k].items]

Skipped(f) == Cardinality({k \in DOMAIN f : f[k].kind = "project"})

Close(w) ==
    /\ pc[w] = "close"
    /\ FinishRun(w, Classify(Len(feed[w]), failed[w], Skipped(feed[w]),
                             TrailingSizes),
                 Len(feed[w]))
    /\ EndSession(w)
    /\ UNCHANGED <<now, raw, rows, faults>>

-------------------------------------------------------------------------------
(***************************************************************************)
(* sweep_stale_listings.  The guard and the SELECT are one step: a commit  *)
(* between the two statements changes the outcome of at most one of them.  *)
(***************************************************************************)
HealthySince(cutoff) ==
    \E r \in 1..Len(runs) : runs[r].status = "ok" /\ runs[r].finished > cutoff

Stale(cutoff) ==
    {i \in Ids : /\ listings[i] # Null
                 /\ listings[i].status \in {"active", "relisted"}
                 /\ listings[i].seen < cutoff}

SweepSelect(w) ==
    /\ pc[w] = "idle"
    /\ HealthySince(now - StaleDays)
    /\ Stale(now - StaleDays) # {}
    /\ pc' = [pc EXCEPT ![w] = "sweep"]
    /\ view' = [view EXCEPT ![w] = [i \in Stale(now - StaleDays) |-> listings[i]]]
    /\ asof' = [asof EXCEPT ![w] = now]
    /\ UNCHANGED <<now, database, cur, feed, pos, failed, staged, faults>>

SweepWrite(w, i) ==
    /\ pc[w] = "sweep"
    /\ i \in DOMAIN view[w]
    /\ ~LockedByOther(w, i)
    /\ LET old == view[w][i]
       IN Flush(w, i, old, Removal(old, asof[w], asof[w] - StaleDays))
    /\ view' = [view EXCEPT ![w] = [j \in DOMAIN view[w] \ {i} |-> view[w][j]]]
    /\ UNCHANGED <<now, database, pc, cur, feed, pos, failed, asof, faults>>

SweepCommit(w) ==
    /\ pc[w] = "sweep"
    /\ DOMAIN view[w] = {}
    /\ Publish(w)
    /\ EndSession(w)
    /\ UNCHANGED <<now, runs, raw, faults>>

(***************************************************************************)
(* An error in the sweep, a deadlock among them, rolls all of it back.     *)
(***************************************************************************)
SweepFails(w) ==
    /\ pc[w] = "sweep"
    /\ EndSession(w)
    /\ UNCHANGED <<now, database, faults>>

SweepVictim(w) == Deadlocked(w) /\ SweepFails(w)

-------------------------------------------------------------------------------
(***************************************************************************)
(* Faults the code does not catch.  "crash": the process dies anywhere.    *)
(* "escape": an error outside the try (the trailing average, the final     *)
(* commit) or in the exception handler's own commit; the session is closed *)
(* by its context manager and the job logs the error.                      *)
(***************************************************************************)
Fault(w, kind, places) ==
    /\ kind \in FaultKinds
    /\ faults < MaxFaults
    /\ pc[w] \in places
    /\ faults' = faults + 1
    /\ EndSession(w)
    /\ UNCHANGED <<now, database>>

Crash(w) == Fault(w, "crash", Places \ {"idle"})
EscapedError(w) == Fault(w, "escape", {"archive", "items", "write", "close"})

Began(w) == IF cur[w] = 0 THEN asof[w] ELSE runs[cur[w]].started

Tick ==
    /\ now < MaxTime
    /\ \A w \in Workers : pc[w] # "idle" => now - Began(w) < MaxJobTicks
    /\ now' = now + 1
    /\ UNCHANGED <<database, session, faults>>

(***************************************************************************)
(* Advance(w): the steps a session takes by itself once its job is         *)
(* started, and the ones Postgres forces on it.                            *)
(***************************************************************************)
Advance(w) ==
    \/ Fetch(w) \/ Archive(w)
    \/ PassOver(w) \/ ReadItem(w) \/ WriteItem(w)
    \/ InsertCollides(w) \/ DeadlockVictim(w)
    \/ CommitItems(w) \/ Close(w)
    \/ \E i \in Ids : SweepWrite(w, i)
    \/ SweepCommit(w) \/ SweepVictim(w)

Next ==
    \/ Tick
    \/ \E w \in Workers :
         \/ Advance(w)
         \/ Start(w) \/ FetchFails(w) \/ FailItem(w) \/ Abort(w)
         \/ SweepSelect(w) \/ SweepFails(w)
         \/ Crash(w) \/ EscapedError(w)

Spec == Init /\ [][Next]_vars

(***************************************************************************)
(* A job that has begun keeps running: every wait in it is bounded by a    *)
(* timeout (the actor call, the deadlock detector).  Postgres queues the   *)
(* sessions that wait for a row, so one that waits cannot be overtaken     *)
(* forever: strong fairness of the writes.                                 *)
(***************************************************************************)
FairSpec ==
    /\ Spec
    /\ \A w \in Workers : /\ WF_vars(Advance(w))
                          /\ SF_vars(WriteItem(w) \/ InsertCollides(w))
                          /\ SF_vars(\E i \in Ids : SweepWrite(w, i))
-------------------------------------------------------------------------------
(***************************************************************************)
(* Every variable keeps its type.                                          *)
(***************************************************************************)
DatabaseTypeOK ==
    /\ runs \in Seq(Run)
    /\ raw \subseteq Nat \X Item
    /\ listings \in [Ids -> Row \cup {Null}]
    /\ versions \in [Ids -> Seq(Version)]
    /\ events \in [Ids -> Seq(PriceEvent)]

SessionTypeOK ==
    /\ pc \in [Workers -> Places]
    /\ cur \in [Workers -> Nat]
    /\ feed \in [Workers -> Seq(Item)]
    /\ pos \in [Workers -> Nat \ {0}]
    /\ failed \in [Workers -> Nat]
    /\ DOMAIN view = Workers
    /\ \A w \in Workers : Partial(view[w], Ids, Row \cup {Null})
    /\ asof \in [Workers -> Nat]
    /\ DOMAIN staged = Workers
    /\ \A w \in Workers : Partial(staged[w], Ids, Pending)

TypeOK == now \in Nat /\ faults \in Nat /\ DatabaseTypeOK /\ SessionTypeOK

(***************************************************************************)
(* Raw first: whatever is recorded of a listing, the record it was taken   *)
(* from is in the raw archive of the run named in the version, at every    *)
(* moment and whatever sessions crash, roll back or overlap.               *)
(***************************************************************************)
RawFirst ==
    \A i \in Ids : \A k \in 1..Len(versions[i]) :
        LET v == versions[i][k]
        IN v.kind # "removed" => /\ <<v.run, v.snapshot>> \in raw
                                 /\ v.snapshot.id = i

(***************************************************************************)
(* The price history replays to the price on the row, also when sessions   *)
(* overlap: the row's price is the one of the latest price event, and only *)
(* a listing never seen with a price has no event.                         *)
(***************************************************************************)
LastEventIsPrice ==
    \A i \in Ids :
        LET e == events[i]
        IN IF e = <<>>
           THEN listings[i] = Null \/ listings[i].price = Null
           ELSE listings[i] # Null /\ listings[i].price = e[Len(e)].new

(***************************************************************************)
(* Every price event starts from the price the one before it ended at, and *)
(* moves it.  Holds for one session at a time.                             *)
(***************************************************************************)
PriceEventsChain ==
    \A i \in Ids : \A k \in 1..Len(events[i]) :
        LET e == events[i][k]
        IN /\ e.old # e.new
           /\ e.old = IF k = 1 THEN Null ELSE events[i][k - 1].new

(***************************************************************************)
(* The versions replay to the row.  Its tracked columns are the latest     *)
(* snapshot's, its price the latest snapshot's that had one, its status    *)
(* the one that the last event of its life leaves it in; and that life is  *)
(* a legal one: new first and only first, relisted after a removal, and    *)
(* only then.  Holds for one session at a time.                            *)
(***************************************************************************)
StatusAfter(kind) == IF kind = "new" THEN "active" ELSE kind

SeenAt(h)   == {k \in 1..Len(h) : h[k].kind # "removed"}
PricedAt(h) == {k \in SeenAt(h) : h[k].snapshot.price # Null}
TurnsAt(h)  == {k \in 1..Len(h) : h[k].kind \in {"new", "removed", "relisted"}}
Last(k, S)  == k \in S /\ \A j \in S : j <= k

RowReplays(row, h) ==
    /\ row = Null <=> Len(h) = 0
    /\ \A k \in 1..Len(h) :
          /\ h[k].kind = "new" <=> k = 1
          /\ k > 1 => (h[k].kind = "relisted" <=> h[k - 1].kind = "removed")
    /\ \A k \in 1..Len(h) :
          /\ Last(k, SeenAt(h)) => row.attrs = h[k].snapshot.attrs
          /\ Last(k, PricedAt(h)) => row.price = h[k].snapshot.price
          /\ Last(k, TurnsAt(h)) => row.status = StatusAfter(h[k].kind)
    /\ row # Null /\ PricedAt(h) = {} => row.price = Null

HistoryReplays == \A i \in Ids : RowReplays(listings[i], versions[i])

(***************************************************************************)
(* A listing is new once, also when two sessions meet it first together.   *)
(***************************************************************************)
NewOnce ==
    \A i \in Ids : \A k \in 1..Len(versions[i]) :
        versions[i][k].kind = "new" <=> k = 1

(***************************************************************************)
(* "A re-observation with no changes only bumps last_seen_at": it adds no  *)
(* version.  The code does not do this for a listing whose price has       *)
(* vanished, because the kept price differs from it every time.            *)
(***************************************************************************)
ReobservationsAreSilent ==
    \A i \in Ids : \A k \in 2..Len(versions[i]) :
        ~ /\ versions[i][k].kind = "updated"
          /\ versions[i][k - 1].kind # "removed"
          /\ versions[i][k].snapshot = versions[i][k - 1].snapshot

(***************************************************************************)
(* removed_at is set exactly while the listing is removed, also when       *)
(* sessions overlap.                                                       *)
(***************************************************************************)
StampedIffRemoved ==
    \A i \in Ids : listings[i] # Null =>
        (listings[i].status = "removed" <=> listings[i].removedAt # Null)

(***************************************************************************)
(* A removed listing had gone unseen for more than stale_days when it was  *)
(* removed.  The code does not ensure it when sessions overlap: the sweep  *)
(* decides on rows that a run updates before the sweep commits.            *)
(***************************************************************************)
RemovedWereUnseen ==
    \A i \in Ids :
        /\ listings[i] # Null
        /\ listings[i].status = "removed"
        => listings[i].seen < listings[i].removedAt - StaleDays

(***************************************************************************)
(* A dead scraper removes nothing: behind every removal is a run that      *)
(* closed 'ok' after the sweep's cutoff, so after the listing was last     *)
(* seen, and whose feed had a listing in it: no empty feed, nor one of     *)
(* stubs, passes for a look at the market.                                 *)
(***************************************************************************)
RemovalsAuthorised ==
    \A i \in Ids : \A k \in 1..Len(versions[i]) :
        LET v == versions[i][k]
        IN v.kind = "removed" =>
             \E r \in 1..Len(runs) : /\ runs[r].status = "ok"
                                     /\ runs[r].finished > v.cutoff
                                     /\ v.cutoff > v.seen
                                     /\ \E x \in raw : x[1] = r /\ x[2].kind = "listing"

(***************************************************************************)
(* What the guard is for: "a dead or anomalous scraper must never convert  *)
(* its own failure into thousands of fake removals".  Behind a removal     *)
(* there should be an 'ok' run that began after the listing was last seen  *)
(* and did not find it.  The code does not ensure it: a cutoff that falls  *)
(* inside the run that saw the listing accepts that very run as evidence.  *)
(***************************************************************************)
RemovalsEvidenced ==
    \A i \in Ids : \A k \in 1..Len(versions[i]) :
        LET v == versions[i][k]
        IN v.kind = "removed" =>
             \E r \in 1..Len(runs) : /\ runs[r].status = "ok"
                                     /\ runs[r].started > v.seen

(***************************************************************************)
(* The run row reaches a terminal state: no row stays 'running' without a  *)
(* session working on it.                                                  *)
(***************************************************************************)
NoStrandedRun ==
    \A r \in 1..Len(runs) : runs[r].status = "running" =>
        \E w \in Workers : cur[w] = r

(***************************************************************************)
(* Every run closes and every sweep ends, also when sessions wait for each *)
(* other's rows, as long as no fault intervenes.                           *)
(***************************************************************************)
RunsClose ==
    \A r \in 1..MaxRuns :
        (r <= Len(runs) /\ runs[r].status = "running")
            ~> (r <= Len(runs) /\ runs[r].status \in Terminal)
SweepsEnd == \A w \in Workers : pc[w] = "sweep" ~> pc[w] = "idle"
JobsEnd   == RunsClose /\ SweepsEnd
===============================================================================
