# Atlas in TLA+

Atlas (`src/`, Python) collects property listings every morning, keeps their history, scores them, and
mails one briefing. This directory models its core logic in TLA+, checks the models with TLC on small
instances and proves, with TLAPS, what matters most for every size. Every definition is translated from
the source; `PROJECT.json` ("map") names the lines each one stands for.

Contents: [the system](#1-the-system) · [the modules](#2-the-modules) ·
[conventions](#3-modelling-conventions) · [the runs](#4-the-runs-what-they-show-their-bounds) ·
[fairness](#5-fairness) · [the proofs](#6-the-proofs) ·
[divergences](#7-where-the-code-and-its-words-part) · [not modelled](#8-what-is-not-modelled-and-why) ·
[plan](#9-the-plan)

## 1. The system

One Postgres database; a FastAPI process with an APScheduler (in-memory jobstore), a catch-up thread
started with the process, and the CLI, which runs the same functions in a process of its own. Nothing
stops two of them from running one job at a time together: each job opens a session, and the
transactions and unique constraints of Postgres are the only coordination.

| Component | State it keeps | Operations | Interacts with | What makes it correct |
|---|---|---|---|---|
| Ingestion pipeline (`ingest/pipeline.py`) | `scrape_runs`, `raw_payloads`, `listings`, `listing_versions`, `price_events` | `run_source`, `_upsert_listing`, `sweep_stale_listings` | fetchers (feed), jobs (caller), gate and health (read runs) | raw first; histories replay to the row; no removal without a working source; every run closes |
| Fetchers, parsers, geohash | none | HTTP, text to listing | input of the pipeline and of reparse | not modelled: pure |
| Source registry (`ingest/registry.py`) | constants of a release, copied to `sources.enabled` | `SOURCES`, `_get_or_create_source` | jobs, gate | the gate demands what the release enables |
| RERA collector (`ingest/rera.py`) | `builders`, `rera_projects`, run rows | `run`: archive a page, parse it, upsert its records | legal tagger, jobs, gate | projects come from archived pages, and from every page that a run calls good |
| Legal tagger (`ingest/legal.py`) | `listing_legal_tags` | `tag_recent_listings`: registry join and text rules | scoring and plan read it | a listing has all its tags or none; a tag cites what it says; none outlives its reason |
| Reparse (`ingest/reparse.py`) | rewrites `listings` | `reparse_source`: replay the archive through the current parser | pipeline's tables, runs in progress | a replay moves no price and leaves what a fresh run would |
| Daily jobs, catch-up, CLI (`jobs.py`, `main.py`, `cli.py`) | the scheduler's pending fires | `SCHEDULE`, `run_daily`, `catch_up_if_missed` | everything | a day is collected whatever restarts it meets |
| Phase-1 gate (`gate.py`), source health (`health.py`) | none: functions of `scrape_runs` | `gate_status`, `source_health` | digest, API | a counted day was collected; a dead source is named |
| Deal Score (`scoring/engine.py`, `weights.py`, `factors.py`) | `score_weights`, `scores`, `score_factors` | `ensure_weights`, `score_listings`, `latest_scores`; six factors | motivation (same session), listings, tags, profile, briefing | a score decomposes into its factors under its version's weights; past days stay; a cut or a flag moves it the right way |
| Seller motivation (`scoring/motivation.py`) | `listing_motivation`; batches at the provider | `collect`, `submit_batch`, `run` | scoring | every value of a reading was given for its listing; no request twice; nothing waits for ever |
| Daily briefing (`report.py`) | `reports`, `recommendations` | `build_report`, `save_report`, `send_digest` | scores, plan, feedback | one email a day; `sent_at` means mailed; what is shown can be funded, and is the best that can |
| Email rendering (`emailer.py`) | none | HTML | briefing | not modelled: layout |
| Investor profile and plan (`profile.py`, `plan.py`, `money.py`) | `InvestorProfile` | `max_price_for`, `cash_needed`, `can_unlock_for`, `build_plan` | scoring, briefing | the ceiling can be paid and is the highest; the ladder is soonest first |
| API, auth, feedback (`main.py`, `auth.py`) | `recommendations.feedback` | `record_feedback` | emailed links | an emailed link can be clicked |
| Schema, migrations, config | defaults, unique keys | | | in the modules whose tables they are |
| `trial/`, `deploy/`, `scripts/` | | | | outside the program |

What is hard here: two sessions over one database (catch-up beside the schedule, CLI beside both);
ORM sessions that read a row, decide, and write later only the columns that changed; a process that dies
between two commits or between an outside effect (a batch created, an email accepted) and the commit that
records it; releases between two runs (weights, prompt version, parser, registry); jobs missed and caught
up; a briefing read by several queries while the market moves; and arithmetic at slab and band
boundaries. `PROJECT.json` ("hazards") lists each at its line with the properties that watch over it.

## 2. The modules

| Module | Models | State and actions against the code |
|---|---|---|
| `RunStatus` | the status a run closes with (end of `run_source`) | `Classify`: pure function of the counts; quotients are cross-multiplied |
| `Columns` | SQLAlchemy's changed-columns UPDATE | `WriteColumns(stored, read, new)`; used by `Ingest`, `Motivation`, `Registry` and `Reparse` |
| `Listings` | `_upsert_listing` and one removal, as functions from the row read to row, versions and price events | `Observe`, `Kinds`, `Removal` |
| `Ingest` | `run_source` and `sweep_stale_listings` by any number of sessions | `Start`, `Fetch`, `Archive` (commit), `ReadItem`, `WriteItem` (flush in a savepoint), `CommitItems`, `Close`; `Abort`, `FailItem`, `InsertCollides`, `DeadlockVictim`; `SweepSelect`, `SweepWrite`, `SweepCommit`; `Crash`, `EscapedError` |
| `Registry` | `rera.run` and `tag_recent_listings` by any number of sessions | `Start`, `Archive`, `Parse` or `ParseFails`, `Skip`, `FindBuilder`, `FindProject`, `CommitPage`, `CloseRun`; `List`, `FindTag` (item `pos` of the first listing of `todo`), `CommitTags`; `Flush`, `Collide`, `DeadlockVictim`, `Fail`, `Crash`; `Change` (a listing says something else, or the window passes it) |
| `Reparse` | `reparse_source` beside the runs of its source | run: `Archive`, `PassOver` (a record that the parser cannot read), `ReadListing`, `WriteListing`, `CommitRun`, `RunFails`; replay: `ReadRows`, `ReadArchive`, `ReplayPayload` (an `Oldest` payload of those it has `left`, so those of one run in any order), `CommitReplay`, `RollbackReplay` (also a dry run); `Deploy` (a better parser) |
| `GateHealth` | `gate_status`, `source_health` over a sequence of runs | `Demanded`, `Clean`, `PendingDay`, `Streak`, `ConsecutiveBad` |
| `DailyJobs` (extends `GateHealth`) | the process that collects: schedule, catch-up thread, CLI, deaths, boots, releases | `Fire`, `StartRun` (the next source, in `Order`, of those a thread has yet to take: `todo`), `EndRun`, `Strand`, `Manual`, `Crash`, `Boot`, `CatchUp`, `Deploy`, `Tick` |
| `Motivation` | collect and submit passes, the Batch API, and the scoring call that shares the session | `Run`, `ReadResults`, `StoreResults` (collect); `SelectListings`, `CreateBatch`, `RecordPending` (submit); `RetrieveFails`, `StreamFails`, `CreateFails`, `RecordCollides`, `StoreBreaks`; `End` (provider); `ScoreListings`, `ScoringLost`, `Crash` |
| `ExtractionCache` | abstract specification of `listing_motivation` | `Motivation` implements it (`ImplementsCache`) |
| `Affordability` | the arithmetic of `InvestorProfile` | one operator per method, in whole units of money |
| `Factors` (extends `Affordability`) | the six factors, the medians they compare with, and the renormalised mean of those that did not abstain | one function per factor, in hundredths of a point: `legal_risk`, `capital_fit`, `price_vs_locality`, `thesis_fit`, `distress`, `seller_motivation`; `score_listing` |
| `CapitalPlan` (extends `Factors`) | `build_plan`'s ladder | functions of the profile and the listings: `Candidates`, `Rungs`, `Ladder` (each rung with its months) |
| `Scores` | `score_daily`'s scoring pass, `ensure_weights`, `latest_scores` | `Ensure`, `InsertVersion`, `ListLive`, `ReadFactor` (one query after another), `Find`, `Write` (flush), `Commit`, `Deadlock`, `Crash`; a factor is its value or an abstention |
| `Briefing` (extends `CapitalPlan`) | `build_report` over a market that moves while its owner saves | `Reprice`, `Relocate` (into a target corridor or out of it), `Tag`, `Extract`, `Date`, `Leave`, `Tick`; `Score`; `ReadTop` (the opportunities, and the profile the whole briefing uses), `ReadWatchlist`, `ReadPlan` (ladder and drops) |
| `Digest` | `send_digest`, `save_report`, feedback votes | `Daily`, `Rerun` (build the report); `SaveReport`, `PickLinks`, `FlushLinks` (one per flush), `Deliver`, `Commit`; `SaveCollides`, `DeliveryFails`; `Vote`, `Crash` |
| `MC*` | instances for TLC | constants and small sets only |
| `IngestProofs`, `RegistryProofs`, `ReparseProofs`, `MotivationProofs`, `DailyJobsProofs`, `DigestProofs`, `ScoresProofs`, `BriefingProofs` | theorems | section 6 |

The components meet through tables. `DailyJobs` sees a collection run as its row in `scrape_runs`;
`Ingest` models what happens inside one, `Registry` what happens inside one of RERA's. `Motivation` hands
its session to scoring as `score_daily` does, and `Scores` says what scoring does with a working one:
who writes which row, whatever the numbers. `Briefing` composes the numbers: listings with their tags and
price events, the factors, the score, the plan, and what the briefing shows of them. `Digest` takes it from
there: what the report says is a set of listings, and the question is who mails it and when.

## 3. Modelling conventions

* **Transactions.** READ COMMITTED. What a session flushed is in `staged` until it commits; it holds the
  locks of those rows and unique keys, and a second session's write of them waits. A rollback or a death
  drops `staged`. Every point where the code reads, and every point where it flushes or commits, is a step.
* **The ORM.** An UPDATE names only the columns whose value differs from the one the session read
  (`Columns`, and `Written` in `Scores`). A flush that fails leaves the session unusable until a rollback;
  `pipeline.py` has a savepoint per item, `motivation.py` has none.
* **Data.** Texts, prices, attributes, registration numbers and factor values are members of small sets; a
  text stands for its hash. Sums of money are whole units: the code computes in floats and truncates with
  `int`, the model truncates exact quotients, so a difference below one unit is outside the model. Factors
  are whole hundredths of a point.
* **Faulty definitions.** A definition named `Faulty...` is used by nothing: it is its neighbour with a
  plausible bug (a dropped guard, an off-by-one, a missing reset), and `PROJECT.json` ("mutants") says
  which property fails when it takes the neighbour's place.
* **Bounds** are constants named `Max...`; they appear only in guards.
* **History variables** serve a property and influence no step: `overlapped` (in `Digest`, `Scores`,
  `Registry`, `Reparse`) records whether two sessions were ever at work together; `stored` in `Registry`
  the order of the committed pages; `observed` and `last` in `Reparse`; `moved` and `seen` in the report
  of `Briefing`.

## 4. The runs: what they show, their bounds

Run one with `tlc -workers 2 -config X.cfg M`. Each finishes within three minutes or so on two cores.

| Configuration | What it shows | Bounds, and why they suffice |
|---|---|---|
| `MCIngest_serial` | One session, three runs and sweeps with failing items, aborted, crashed and escaping runs: `TypeOK`, `RawFirst`, `PriceEventsChain`, `HistoryReplays` (versions replay to the row, through a legal life) | Two listings, two prices and two attribute values let a price move, vanish and come back while the other listing keeps the source healthy. Three runs are what new → removed → relisted needs. The feeds (module `MCIngest`) have duplicates, stubs, projects only, nothing |
| `MCIngest_overlap` | Two sessions on one source: `NewOnce`, `LastEventIsPrice`, `RemovalsAuthorised`, `JobsEnd` (every run closes, every sweep ends, with lock waits and deadlocks) | Feeds that meet two listings in opposite orders, so the deadlock happens, and an empty one. A run that takes two ticks is old enough to be swept when it closes. No fault: a crash strands a run by definition |
| `MCRegistry_runs` | Two sessions of collector and tagger: `RunsAccountForRegistry`, `RegistryReplays`, `TagsComplete`, `TagsCite`, `TagsConverge` | Two numbers and promoters; a full page, one that begins with an application and moves a number to the other promoter, and a malformed one; a listing whose text changes once and which the window may pass; one fault |
| `MCReparse_archive` | Three runs and two replays, overlapping or not: `PriceIsLastObserved`, `DatesStayRecovered`, `PositionIsWhole`, `LeavesFreshFields` | Two listings, four records, two parsers: the second recovers a posting date, reads a stub and corrects a position; one record lacks price, locality and date |
| `MCDailyJobs_days` | `OnlyOkRunsExtend` (the streak grows only by an `ok` run), `DayRecovered`, `OnlyBadRunsBreak`, `DeadSourcesNamed` | Two mornings, four runs (each source on each day, or a source again after a bad run), a window of one day, so that a source can have died before it; two faults among bad runs, stranded runs, deaths, manual runs and releases. One portal and the registry source. The theorems have any number of runs |
| `MCMotivation_serial` | `InFlightOnce`, `NoOrphan`, the refinement `ImplementsCache` (which says that the five columns of a reading are one answer about the text its row names), `EventuallySettled` | Two listings with a batch limit of one: the rest must wait, and a stream that breaks off stores the batch's row or none (of larger batches see `MCMotivation_split` and the theorems). Two readings, of which one leaves signals and quote as an empty row has them. One edit and one fault among API error, broken stream, lost reply, death |
| `MCMotivation_overlap` | `ColumnsAreGiven` with two sessions and a prompt bump | Two listings in one batch, so that a result can be taken for another's; two readings that differ in each column but the confidence. Listings are alike, and so are sessions (`SYMMETRY`, sound as the property is an invariant). No fault: the theorem has them all |
| `MCScores_days` | `OneDecomposition`, `FactorsGiveScore`, `PastScoresFixed`, `VersionsFixed`, `ScoringEnds` | Two listings and two sessions for the deadlock, two days, two versions, two weightings, two events among changes, releases and deaths |
| `MCBriefing_market` | `SectionsAgree`, `BestFundableShown`, `DealIsMonotone` | Two listings out of a plot, a flat and an unpriced floor, among others of the locality; prices on either side of the slab and of the owner's reach; any two changes and a month of saving, before, between and after scoring and the three reads |
| `MCBriefing_history` | **violated**: `NoHistoryNoVerdict`, see section 7 | one change of price from none is enough |
| `MCDigest_days` | `OneMailPerDay`, `SentMeansMailed`, `EveryDayMailed` | One listing, recommended or not; two sessions, two days, two faults, one rerun |
| `MCBriefing_ladder` | `CeilingIsAffordable`, `CeilingIsHighestInSlab`, `LadderIsSoonest` | Capital on either side of each slab bound, with and without a loan; two listings of six prices or none, in one city or two, flagged or not, one rung per market; three months. No price moves here: the ladder is read off the listings there are, and these are all there can be |

Each module with variables defines its type invariant, `TypeOK`. Only that of `Ingest` has a run to itself;
that of another module is checked by adding `INVARIANT TypeOK` to its configuration above, and holds.
`CHECK_DEADLOCK FALSE` stands in the configurations where the bounds let the system stop: no more runs,
days or months.

**Which properties carry a condition.** `FactorsGiveScore`, `OneMailPerDay`, `RegistryReplays`, `TagsCite`,
`PositionIsWhole` and `LeavesFreshFields` assume that the sessions concerned have not overlapped;
`OneMailPerDay` also that no reply is lost and no session dies; `InFlightOnce` and `NoOrphan` that no call was half done (a batch created and not known of, a stream of
results that broke off); `ImplementsCache` that no stream broke off and no two sessions overlap; `BestFundableShown` that the market has not
moved while the briefing was built. `PriceEventsChain` and `HistoryReplays` are checked with one session
at a time. `PastScoresFixed` excepts a pass that took its date before midnight. Each condition is there
because the code does not do better; section 7 has the configurations that show it where this could be argued.

## 5. Fairness

* `Ingest` (`JobsEnd`): weak fairness of a begun session's next step (every wait in it is bounded by a
  timeout: the actor call, the deadlock detector); strong fairness of the two writes that wait for a row,
  because Postgres queues the waiters and a session in the queue is not overtaken for ever. Starting a run
  is not fair.
* `Registry` (`TagsConverge`): the same two for its sessions, and weak fairness of starting a tag pass,
  which the schedule does every day. RERA runs, changes, failures and deaths are not fair.
* `Motivation` (`EventuallySettled`): weak fairness of the pass, which the scheduler runs every day, and of
  the provider ending a batch, which it does within a day. Failures and edits are not fair.
* `Digest` (`EveryDayMailed`): weak fairness of a begun session and of the scheduler's daily job. A day may
  pass first: the digest is not among the jobs that are caught up.
* `Scores` (`ScoringEnds`): weak fairness of a begun session. A session blocked by a row has the lock's
  holder advance, or the deadlock detector end one of the two.
* `DailyJobs`, `Reparse` and `Briefing` state no liveness. `DayRecovered` is an invariant of
  noon instead: by then the morning's jobs are over.

## 6. The proofs

`tlapm X.tla` for each of the eight modules of theorems. Backends: Z3, Zenon, LS4. The theorems hold for
every set of sessions, listings, feeds and pages and for every bound, from the named assumptions of the
modules (`NullAssumption`, `IngestAssumption`, `RegistryAssumption`, `ReparseAssumption`,
`MotivationAssumption`, `DailyAssumption`, `DigestAssumption`, `AffordabilityAssumption`, `PlanAssumption`,
`CompsAssumption`, `BriefingAssumption`, `LotsAssumption`, `ScoresAssumption`), which say what kind of value a
constant is, that NULL is none of the values it stands beside, that there are finitely many listings, of the
slab bounds that they ascend, and of the lots that each comes with the event of its price, as
`_upsert_listing` records it, and with an area for which a thousandth of the unit of money per square foot is
a fine enough rate. What a theorem needs beyond them stands in its statement. Each invariant, or its parts, was an invariant of a TLC run
before it was proved; each proof has one lemma per action, or per kind of step.

| Theorem | It states, for every size | Invariant behind it |
|---|---|---|
| `IngestProofs.TypeCorrect`, `RawIsFirst` | `TypeOK`; `RawFirst` | `IInv` |
| `IngestProofs.NewIsOnce`, `LastEventGivesPrice` | `NewOnce`; `LastEventIsPrice` | `IInv`, `HInv` |
| `IngestProofs.EventsChain`, `VersionsReplay` (one session at a time) | `PriceEventsChain`; `HistoryReplays` | `HInv` with `Fresh` |
| `IngestProofs.RemovalsHaveCause` | `RemovalsAuthorised` | `IInv`, `AInv` |
| `RegistryProofs.RegistryAccounted` | `RunsAccountForRegistry` | `RInv` |
| `RegistryProofs.TagsStayComplete`, `TagsStayCited` | `TagsComplete`; `TagsCite` | `TInv`; `RefInv`, `CiteInv` |
| `RegistryProofs.RegistryIsReplay` | `RegistryReplays` | `RInv`, `RefInv`, `ReplayInv` |
| `ReparseProofs.ReplayKeepsPrices`, `DatesRecovered`, `PositionsWhole` | `PriceIsLastObserved`; `DatesStayRecovered`; `PositionIsWhole` | `Inv` |
| `ReparseProofs.ReplayIsFreshRun` | `LeavesFreshFields`, for parsers of which none loses a date (`KeepsDates`) | `AInv` |
| `MotivationProofs.ColumnsGiven` | `ColumnsAreGiven` | `MInv` |
| `MotivationProofs.ReadingsGiven` (`OneSession`) | `ReadingsAreGiven`, whatever is released and whatever fails | `MInv`, `KInv` |
| `MotivationProofs.SentOnce`, `NothingForgotten` (`Serial`) | `InFlightOnce`; `NoOrphan` | `MInv`, `SInv`, `HInv` |
| `MotivationProofs.CacheRefined` (`Serial`) | `ImplementsCache` | `MInv`, `SInv` |
| `DailyJobsProofs.StreakEarned`, `StreakKept` | `OnlyOkRunsExtend`; `OnlyBadRunsBreak` | `HInv` |
| `DailyJobsProofs.DeadAlwaysNamed` | `DeadSourcesNamed` | `HInv`, `Schedule` |
| `DailyJobsProofs.DayAlwaysRecovered` (both collection jobs scheduled) | `DayRecovered` | `HInv`, `Schedule`, `OwnRegistry`, `Covered` |
| `DigestProofs.SentIsMailed`, `OneMailADay` | `SentMeansMailed`; `OneMailPerDay` | `SentInv`; `OneInv` |
| `ScoresProofs.DecompositionHolds`, `VersionsHold` | `OneDecomposition`; `VersionsFixed` | `Inv` |
| `ScoresProofs.PastHolds`, `FactorsHold` | `PastScoresFixed`; `FactorsGiveScore` | `Dated`; `Inv`, `Alone` |
| `BriefingProofs.CeilingAffordable`, `CeilingStaysAffordable`, `CeilingStaysHighest` | the ceiling is affordable, for a profile and in every state; `CeilingIsHighestInSlab` | `TypeOK` |
| `BriefingProofs.LadderStaysSoonest` | `LadderIsSoonest` | `TypeOK` |
| `BriefingProofs.SectionsStayInAgreement`, `BestAreShown` | `SectionsAgree`; `BestFundableShown` | `TypeOK`, `IInv` |
| `BriefingProofs.DealStaysMonotone`, `FactorsStayInRange` | `DealIsMonotone`; `FactorsInRange` | `TypeOK`, `Known` |

**Raw first.** A version is never written, by whichever session, before the record it was made from is in the
archive of the run it names. `RawFirst` is not inductive: it says nothing of what sessions are about to
publish. `IInv` adds `OpenRuns` (a session has a run open, one that exists, exactly between `Start` and its
end), `InHand` (what a session has read and not written is the record it is at, or listings that exist; so a
row read as existing is never published as absent) and `ArchivedFirst` (what a session staged is of records
its run has archived). `PublishBacked` carries `ArchivedFirst` over to the tables at a commit.

**Histories.** `HInv` says of a row with its versions and its price events that they are `Whole` (the row
exists iff there are versions, the first and only the first is `new`, the price is the last event's), as
committed and as they would be with what a session has flushed, and that no two sessions hold a row at once
(`Exclusive`). The heart is `ObserveExtends`: a session that read a row that has since changed still writes
the price exactly when it writes an event, because the UPDATE leaves out an unchanged column; and one that
read no row meets `InsertFits`. With one session at a time `Whole` says more: the events chain and the
versions replay to the row. A session's view is then `Fresh`, so the version it writes is a `Turn` of the row
that the versions before it replay to (`TurnReplays`, `ObserveContinues`).

**Removals.** `AInv` says that a run that closed `ok` archived a listing (`OkFed`), that removals have a cause
as committed and as flushed, that a session's open run is running and its alone (so an `ok` run never changes
again), and what the session counts: the records it failed or skipped are all those it passed, if none was a
listing. So a feed without listings has nothing parsed at its end and is not `ok` (`NothingParsed`).

**Registry.** `RInv` says that every row of a project, committed or staged, is on an archived page
(`RowsBacked`, `StagedBacked`), that all registered records before the one a session is at have a row in the
table or among its own (`Done`), and that sessions work on different runs (`Distinct`). A session that loses
an insert rolls its page back, and a page is only closed after its commit.

**Tags.** `TInv`: what a session flushed is of its own kind, projects or tags (`OwnKind`), and a tag pass has
flushed every item of every listing of its window but those ahead of it (`Pass`), so that its commit stores
all four tags of a listing or none (`Whole`). `RefInv` says that nothing refers to what is not there: a
project's builder is committed or flushed by the same session before it, and what a pass has in its
`registry_cache` is in the registry. `CiteInv` adds, while passes have not overlapped, that the row a pass read
is the row it updates; so a column left out of its `UPDATE` had the value computed, and status and evidence are
those of one look at the registry.

**The registry as a replay.** The registry depends on the order of the commits, not of the runs. `ReplayInv`
says, while no two runs have overlapped, that the projects of the table are those of the archived records of
the committed runs (`stored`), each with the row that its `Latest` record and the last promoter and name given
for it make; and that what a session sees, its flushed rows over the table, replays those records and the
ones of its own page behind it (`SeenBy`, `RunReplays`). `ReplayExtended` is the step: one record more, later
than all others, is one upsert more. That a set of places has a latest one needs `Ordered`, finite.

**Reparse.** For any interleaving of a run with a replay. `Inv` says what each session holds (`Shape`): the
replay's corrected rows are the rows it read, in every column that reparse does not touch, the price among
them; so its UPDATE never names the price, whatever the run has stored meanwhile. `DatesKept`: neither what a
session is about to write nor what it staged takes back a date that the row it read had, and a column that
does not differ is not written. `Undisturbed`, while no two have overlapped: what was read is what is
stored, so a position and its geohash are written together.
`AInv` compares the replay with a fresh run, while no two have overlapped. `Says(row, id, D)` is what the
payloads `D` say of a listing without going through them in order: the title and position of the latest that
tells of it, the date of the latest that dates it. A replay's rows are what the payloads behind it say
(`Halfway`, `SaysNext`), so those it commits are what the whole archive says (`Settled`); `FreshFollows` says
the same of `Fresh`, by least counterexample over the archive, after `RowsExist` has shown that its recursion
defines it. A date that no payload gives cannot be in a row (`Backed`). That fact needs the theorem's
hypothesis, `KeepsDates`: a later parser still dates what an earlier one dated. It is true of the parsers of
the run; of a parser that read fewer dates the theorem says nothing, and there the code does differ from a
fresh run, since a replay never clears a date.

**Readings.** A reading is five columns, each set by `_store_result` for itself and each left out of the
`UPDATE` when it equals what the session read. `MInv` says that every column stored was given by the provider
(`RowsGiven`), and that so is every column of the rows a session holds when it writes them, though the table
has moved since (`Holds`): whichever columns an `UPDATE` names, what it writes and what it leaves were both
given for that listing. That is all that holds under overlap. That the five columns are one answer needs the
row written to be the row read; with one session it is (`Fresh`: a release waits for an idle process), and
`KInv` then says that an `ok` row is the answer of the batch it names.

**One pass at a time.** `SInv` says of the table (`RowsFit`, `OpenTogether`) and of what the one session knows
(`Knows`) that rows are about the text that was sent, that the rows of a batch are open together, and that the
listings being submitted have none in an open batch. `HInv` adds, as long as no call was half done, that a
listing was sent again only when the batches before had ended (`Unrepeated`), and that the last batch a listing
was sent in is the one its row names (`LastNamed`). The first attempt at this proof failed at a stream of
results that breaks off after some of its rows: they are flushed and, by the scoring pass that shares the
session, committed; the batch is then read a second time, and what has been re-submitted in between is
overwritten. The model had lacked that failure; it now has it, `MCMotivation_split` shows it, and the three
theorems say what they exclude. `CacheRefined` is the refinement: initial states, then storing results closes
entries, recording a batch opens some, and no other step moves the cache.

**The gate.** `Streak` is the greatest number in a finite set, and `StreakIs` is what that means. `StreakKept`
compares two of them: a step of today leaves what the gate makes of every past day (`PastStays`), because an
open run started today (`Open`: the clock passes midnight only when every thread is idle) and because a source
gets its row with its first run (`Seen`), so that it is not demanded of any day before. What today turns into, clean
or pending, then moves the streak by its own day at most. `StreakEarned` asks what can add that day. Runs and
their outcomes only grow (`RunsGrow`, `StatusesGrow`). Past midnight the window and the last day it looks at
move, and no day is in the new streak that was not in the old one (`MidnightAddsNothing`). Within a day a longer
streak means that today was not clean and is, or stopped being bad and is pending (`GrowthIs`); and either takes an
`ok` run that ended in this very step, since a release, a death or a bad run gives no source its first one
(`GrowthStep`). `DeadIsNamed`: runs are in the order of their start
(`Dated`), so the runs after a bad one of yesterday are of yesterday or today, and none of them is `ok`.

**The day's collection.** `Covered` says, once the catch-up has looked at the gate, that every enabled source has
its answer of today, or an open run, or is on somebody's list: of a thread, or of a job still due. Without a
release in between the table calls enabled what the registry enables (`OwnRegistry`), so the lists are
complete; `Schedule` says that a job that is due finds its own thread idle, so the scheduler's rule against
two runs of a job never drops one, and that a start leaves every later job of the day due. At noon nothing is due;
idle threads have no lists; and an enabled source is a demanded one (`EnabledIsDemanded`).

**One email.** `SentInv` says that past `save_report` the row exists, and past the delivery the email was
accepted. `OneInv` adds, as long as nothing overlapped, no reply was lost and nobody died (`Quiet`), that one session is at
work, that what it read is still so, that an unforced one works on an unsent day, and that every accepted
email has marked its day or is about to (`Calm`).

**Capital plan.** For any profile, months, and positions of the slab bounds, `max_price_for` names a price
that `is_affordable` accepts. The ceiling is computed with the cash share of some slab; the price so found
falls in that slab or a lower one (`SlabBelowCeilingSlab`: in the fall-back the top rate is taken); a lower
slab takes a smaller share (`ShareMonotone`); and rounding down loses nothing (`DivDown`, `DivBound`). So the
fall-back of `profile.py:259`, which section 7 shows is not the highest, is at least safe; and outside the gaps
that lead to it the ceiling is the highest price. The ladder asks for the least month at which a price can be
paid. That a set of months has a least one is proved from the finite initial segments and the well-foundedness of
their inclusion (`LeastNat`), which needs no induction over an operator.

**The briefing.** The invariant of a briefing being built, `IInv`, is about what was read, not about the market:
`TopIsBest` says that, as long as nothing has moved, the opportunities are what a reader would pick now;
`SeenIsNow`, that what the second query saw is still so; `SeenIsBest` then compares the first query with the
second, and `LadderIsHonest` the plan with both. Every step of the market only sets the mark (`StirredKeeps`),
so `SectionsAgree`, which has no condition on the mark, is about the captured profile and not about today's.
The rankings are described by what they are, sequences of a set without repetition in order of score
(`RankingListsAll`): the same holds of whichever order a tie is given, and the first so many of such a sequence are
the best so many (`FirstAreBest`).

**The score.** `NoMore` relates a value to one that is no less: both abstain, or both are shares in order. A
factor that abstained on one side only would shift its weight onto the others, so that the order of the
factors alone would prove nothing; with `NoMore` for each of the six, the covered weight is the same on both sides and the
mean keeps the order (`ScoreNoMore`). Then one lemma per factor. `capital_fit`: what can be paid can be paid at
a lower price, by an owner who has saved, with finance where there was none (`PaidMonotone`), and the first
such month is in no worse a band (`BandsNoMore`). `legal_risk`: each multiplier of a flag is no more than that
of the status it replaces (`MultiplierMonotone`). `distress`: a cut leaves the peak and adds a drop
(`FallKeepsPeak`). `price_vs_locality` is the hard one, as the rate that falls is among those whose median it is
compared with. The median needs no sorting: `Kth`, the least rate that k of them are no larger than, stays
where it was unless the fall crosses it (`KthFalls`), and so it falls by no larger a share than the rate
did (`MedianFalls`); an odd number of rates, an even one and ties are the same case. For `Known`, the invariant
behind it, the last event of every listing has its price, without which a cut would not continue the history.
`FactorsStayInRange` needs no argument of its own: a value is no more than itself exactly when it is a share
or abstains. (`FactorsInRange` is not among the properties of a run; it was checked with the instance of
`MCBriefing_market`.)

**Scores.** For sessions that overlap in any way. `Inv` adds what a session holds: past `ensure_weights` it
works with the weights on record for its version, or holds the insertion of that version (`GuardInv`); such an
insertion is of a version nobody has committed and nobody else holds (`NewInv`); what it staged is under its
own version (`StagedInv`). `CommitVersions`: a commit never changes weights that are on record. `Dated`: what
a session staged is of the date it took. `Alone`, while no two have overlapped: the row a session read is the row
it updates, so the number and the factors it leaves are those it computed; how a number follows from factors
and weights (`Scored`) stays uninterpreted.

**Only model-checked.** Liveness and fairness (`JobsEnd`, `TagsConverge`, `EventuallySettled`,
`EveryDayMailed`, `ScoringEnds`), which this prover does not do. What `Classify` answers for
which counts is defined by TLC's evaluation alone. The other invariants and step properties of the passing runs are theorems.

## 7. Where the code and its words part

One disagreement is a run of the project (`PROJECT.json`, "findings"). The others have a configuration that
reproduces them with TLC. Where a configuration lists several properties, TLC stops at the first that fails:
remove its line to see the next.

| Property (module) | Configuration | What happens |
|---|---|---|
| `NoHistoryNoVerdict` (Briefing) | `MCBriefing_history` | the first price of a listing is a `PriceEvent`, and `distress` takes it for a history without a cut: 0 points, where `factors.py:325` and a test say that it abstains |
| `SilenceIsHonest` (Briefing) | `MCBriefing_gaps` | under "Nothing is fundable today" (`report.py:352`) the ladder may name as due now a listing that no pass has scored |
| `WatchlistInCorridor` (Briefing) | `MCBriefing_gaps` | the watchlist is "in-corridor" (`report.py:138`), and nothing filters by corridor |
| `FailuresRequeued` (Motivation) | `MCMotivation_requeue` | an errored, cancelled or expired request is stored as `invalid` with the unchanged text's hash, so `_needs_extraction` never asks again; `motivation.py:367` says the next submit re-queues it |
| `ReadsItsText` (Motivation) | `MCMotivation_races` | a session stores an old batch's answer over a row another session re-submitted for a new text |
| `InFlightAlwaysOnce` (Motivation) | `MCMotivation_split` | a stream of results that breaks off leaves some rows of its batch stored; read again later, the batch overwrites the row of a listing that was re-submitted meanwhile, and the next submit pays for it a second time |
| `ReadingsAreGiven` (Motivation) | `MCMotivation_races` | of two sessions that store different answers over one row, the later one leaves out the columns that equal what it read (`signals` empty, no `quote`), and the earlier one's stay: one row, two answers |
| `OneVocabulary` (Motivation) | `MCMotivation_races` | after a prompt bump, batches of the old version are stored under the new one |
| `ScoringSurvives` (Motivation) | `MCMotivation_races` | a failed flush of the motivation pass leaves scoring a session that cannot be used |
| `CeilingIsHighest` (Briefing) | `MCBriefing_capital` | for capital between two slabs no slab's own rate is consistent, and the fall-back to the top rate (`profile.py:259`) names a price below one that can be paid: about Rs 18.3 lakh instead of Rs 20 lakh |
| `UnlockIsEnough` (Briefing) | `MCBriefing_capital` | `can_unlock_for` adds the tax on the gap and forgets the tax on what is sold for the tax |
| `NoStrandedRun` (Ingest) | `MCIngest_serial_gaps` | an error after the items' commit, or in the handler, leaves the run `running` |
| `ReobservationsAreSilent` (Ingest) | `MCIngest_serial_gaps` | a listing whose price vanished gets an `updated` version at every run, because the kept price differs from the absent one |
| `RemovalsEvidenced` (Ingest) | `MCIngest_serial_gaps` | a cutoff inside the run that last saw the listing accepts that run as evidence of its absence |
| `PriceEventsChain` (Ingest) | `MCIngest_races` | two sessions that read the same old price both record a move from it |
| `RemovedWereUnseen` (Ingest) | `MCIngest_races` | the sweep removes a listing that a run observed after the sweep's query |
| `RegistryAlwaysReplays` (Registry) | `MCRegistry_races` | of two overlapping runs, one leaves out of its UPDATE a column that equals what it read, and the other's older value stays |
| `TagsAlwaysCite` (Registry) | `MCRegistry_races` | of two overlapping passes one finds a number registered that the other did not, and the other's `UPDATE` writes its evidence beside the first one's status |
| `PositionIsAlwaysWhole` (Reparse) | `MCReparse_gaps` | a replay and a run each write only the columns that differ from what they read: one changes the latitude, the other the longitude, and the geohash is of neither position's pair |
| `LeavesFreshLocality` (Reparse) | `MCReparse_gaps` | "replaying the archive … leaves exactly the state a fresh run would" (`reparse.py:75`); a run clears the locality that its payload does not give, a replay keeps the one of an older payload |
| `MailLinksResolve` (Digest) | `MCDigest_gaps` | a rerun after the email replaces the recommendations its links point to |
| `CitesItsScore` (Digest) | `MCDigest_gaps` | `recommendations.score_id` is never set |
| `OffIsNotDemanded` (DailyJobs) | `MCDailyJobs_gaps` | a source switched off in the registry stays enabled in the database, and the gate goes on demanding it |
| `NoPreemption` (DailyJobs) | `MCDailyJobs_gaps` | a start inside the collection window collects portals that the schedule still collects |
| `FactorsAlwaysGiveScore` (Scores) | `MCScores_gaps` | a session that computes the `overall` it read leaves the column out of its UPDATE and so keeps another session's number beside its own factors |
| `RankedOnce` (Scores) | `MCScores_gaps` | `latest_scores` takes the newest date: after a bump on the day, a listing appears under both versions |

Two more are visible in the properties' conditions: a pass that takes its date before midnight rewrites
scores of a day that is over (`PastScoresFixed` excepts it), and a rerun of the same day replaces a number
that has been emailed (the docstring of `score_listings` promises yesterday's only).

## 8. What is not modelled, and why

* HTTP, HTML and text parsing, geohashes, email layout, formatting of money, the wording of the briefing:
  pure, without state; what they return is an input.
* What a pattern of the legal rules matches in a text: a listing says some of the words that rules look for.
* The evidence and the rounding to two digits of the factors; `Factors` counts in hundredths of a point.
* The appreciation column and the corridors of `build_plan`, the EMI reserve, the ceiling with an unlock.
* In `Briefing`, the statements of one call of `latest_scores`, and those of `build_plan` with the price
  drops, are one step: the market moves between the opportunities, the watchlist and the plan.
* Rows that are shared beside the table a module is about: the insert of a new `localities` row
  (`_get_or_create_locality` flushes it, so a second session that meets the same new locality waits there or loses its
  item) is not a step of `Ingest`; nor is the insert of a `sources` row in `Ingest` and `Registry`, where the loser
  of a race on a source's very first run fails before it has a run. `Digest` has no dry run, which
  returns before it writes anything, and no unconfigured delivery as such: it is the `outage` of
  `DeliveryFails`, a delivery that answers no.
* The cap of 200 rows in `source_health`; actor parameters of the registry; migrations and settings.
* Two portal runs beside a replay: `Reparse` has one run at a time, `Ingest` has them overlap.
* Time inside a step: `Ingest` counts days of the sweep with `Tick`, `DailyJobs` stops the clock only at
  the schedule's times, midnight and noon.
* `trial/`, `deploy/`, `scripts/`: not part of the running program.

## 9. The plan

Written so far, in the order of importance that led it: the pipeline and its proofs; motivation with its
abstract cache; the briefing's sending; the gate, health and the daily jobs; affordability and the ladder;
scores; then the registry with the tagger, reparse, the factors and the briefing's content; and the proofs of
histories, removals, registry, tags, replays, readings, the cache, the gate, the day's collection and emails.

What is left, should the code move there:

1. `DailyJobs`: the sweep and scoring jobs as further jobs of the schedule, and a composition with two
   overlapping `Ingest` sessions instead of the note that `NoPreemption` fails.
2. The unlock in `max_price_for`, and the appreciation column, once the briefing shows them.
