------------------------------- MODULE Reparse --------------------------------
(***************************************************************************)
(* The replay of the raw archive through the current parser (reparse.py),  *)
(* beside the portal runs that archive feeds and upsert listings, and with *)
(* a parser that is replaced by a better one.  One source, whose runs do   *)
(* not overlap each other (Ingest is about that); replay and run may.      *)
(*                                                                         *)
(* A row is what both write of a listing: title stands for the fields of   *)
(* REPARSED_FIELDS other than the position, geo for geohash6.              *)
(*                                                                         *)
(* A definition named Faulty... is not used: it is the definition that     *)
(* follows it with a plausible bug, with which a property below fails.     *)
(***************************************************************************)
EXTENDS Integers, SequencesExt, Columns

CONSTANTS
    Ids,      \* external ids of the portal's listings
    Records,  \* raw records of the portal
    Feeds,    \* what a fetch may return: sequences of records
    Parsers,  \* Parsers[v][record]: what version v reads in it, or Unusable
    Unusable, \* a stub, a project, or an exception of the parser
    Null,
    MaxRuns, MaxReplays  \* bounds of the model

Versions == DOMAIN Parsers

ASSUME ReparseAssumption ==
    /\ Feeds \subseteq Seq(Records)
    /\ Versions = 1..Len(Parsers) /\ Len(Parsers) \in Nat \ {0}
    /\ \A v \in Versions : \A r \in Records :
          Parsers[v][r] # Unusable => Parsers[v][r].id \in Ids

VARIABLES
    rows,       \* the listings of the source, by external id
    localities, \* the localities of its city
    archive,    \* raw_payloads, with the transaction that wrote each
    parser,     \* the version that is deployed
    run,        \* the run in progress
    replay,     \* the replay in progress
    observed,   \* the last price observed of each listing
    overlapped, \* whether a run and a replay were ever open together
    last,       \* how much of the archive the last committed replay read, with
                \* which parser, and the listings that replays knew a date of
    runs, replays  \* counted, for the bounds

vars == <<rows, localities, archive, parser, run, replay, observed, overlapped, last,
          runs, replays>>

Idle == [at |-> "idle"]
Empty == [id \in {} |-> Null]
Override(new, old) == [k \in DOMAIN new \cup DOMAIN old |->
                          IF k \in DOMAIN new THEN new[k] ELSE old[k]]
Or(new, old) == IF new # Null THEN new ELSE old

Init ==
    /\ rows = Empty
    /\ localities = {}
    /\ archive = <<>>
    /\ parser = 1
    /\ run = Idle
    /\ replay = Idle
    /\ observed = Empty
    /\ overlapped = FALSE
    /\ last = [read |-> 0, parser |-> 0, dated |-> {}]
    /\ runs = 0
    /\ replays = 0

Encode(lat, lon) == IF lat = Null \/ lon = Null THEN Null ELSE <<lat, lon>>

(***************************************************************************)
(* A better parser is deployed.                                            *)
(***************************************************************************)
Deploy ==
    /\ parser + 1 \in Versions
    /\ run = Idle /\ replay = Idle
    /\ parser' = parser + 1
    /\ UNCHANGED <<rows, localities, archive, run, replay, observed, overlapped, last,
                   runs, replays>>

-------------------------------------------------------------------------------
(***************************************************************************)
(* The portal run: it archives the feed in one transaction, so that every  *)
(* payload of it has the same fetched_at, and then goes through it record  *)
(* by record, and passes over those that the parser cannot read.  A        *)
(* posting date or a price that is missing keeps the old one, a locality   *)
(* that is missing does not.                                               *)
(***************************************************************************)
Archive ==
    /\ run = Idle
    /\ runs < MaxRuns
    /\ runs' = runs + 1
    /\ \E feed \in Feeds :
         /\ archive' = archive \o [k \in DOMAIN feed |-> [at |-> runs', record |-> feed[k]]]
         /\ run' = [at |-> "read", staged |-> Empty, todo |-> feed]
    /\ overlapped' = (overlapped \/ replay # Idle)
    /\ UNCHANGED <<rows, localities, parser, replay, observed, last, replays>>

FaultyObserved(row, p) ==
    [title |-> p.title, lat |-> p.lat, lon |-> p.lon, geo |-> Encode(p.lat, p.lon),
     locality |-> p.locality, posted |-> p.posted,
     price |-> Or(p.price, row.price), parser |-> parser]
Observed(row, p) ==
    [title |-> p.title, lat |-> p.lat, lon |-> p.lon, geo |-> Encode(p.lat, p.lon),
     locality |-> p.locality, posted |-> Or(p.posted, row.posted),
     price |-> Or(p.price, row.price), parser |-> parser]

NewRow == [posted |-> Null, price |-> Null]

Reading(record) == Parsers[parser][record]

PassOver ==
    /\ run.at = "read"
    /\ run.todo # <<>>
    /\ Reading(Head(run.todo)) = Unusable
    /\ run' = [run EXCEPT !.todo = Tail(@)]
    /\ UNCHANGED <<rows, localities, archive, parser, replay, observed, overlapped, last,
                   runs, replays>>

ReadListing ==
    /\ run.at = "read"
    /\ run.todo # <<>>
    /\ Reading(Head(run.todo)) # Unusable
    /\ LET p    == Reading(Head(run.todo))
           mine == Override(run.staged, rows)
           view == [id \in DOMAIN mine \cap {p.id} |-> mine[id]]
       IN run' = [at |-> "write", todo |-> run.todo, staged |-> run.staged, view |-> view,
                  want |-> Observed(IF p.id \in DOMAIN view THEN view[p.id] ELSE NewRow, p)]
    /\ UNCHANGED <<rows, localities, archive, parser, replay, observed, overlapped, last,
                   runs, replays>>

WriteListing ==
    /\ run.at = "write"
    /\ LET id   == Reading(Head(run.todo)).id
           mine == Override(run.staged, rows)
           row  == IF id \in DOMAIN run.view
                   THEN WriteColumns(mine[id], run.view[id], run.want)
                   ELSE run.want
       IN run' = [at |-> "read", todo |-> Tail(run.todo),
                  staged |-> Override([i \in {id} |-> row], run.staged)]
    /\ UNCHANGED <<rows, localities, archive, parser, replay, observed, overlapped, last,
                   runs, replays>>

CommitRun ==
    /\ run.at = "read"
    /\ run.todo = <<>>
    /\ rows' = Override(run.staged, rows)
    /\ observed' = Override([id \in DOMAIN run.staged |-> run.staged[id].price], observed)
    /\ localities' = localities \cup
                         ({run.staged[id].locality : id \in DOMAIN run.staged} \ {Null})
    /\ run' = Idle
    /\ UNCHANGED <<archive, parser, replay, overlapped, last, runs, replays>>

(***************************************************************************)
(* A run that fails or dies once its feed is archived: no listing is       *)
(* written.                                                                *)
(***************************************************************************)
RunFails ==
    /\ run # Idle
    /\ run' = Idle
    /\ UNCHANGED <<rows, localities, archive, parser, replay, observed, overlapped, last,
                   runs, replays>>

-------------------------------------------------------------------------------
(***************************************************************************)
(* The replay: it reads the listings and the localities, then the archive, *)
(* in the order of fetched_at, and goes through it payload by payload.     *)
(* Payloads of one run come in any order.                                  *)
(***************************************************************************)
ReadRows ==
    /\ replay = Idle
    /\ replays < MaxReplays
    /\ replays' = replays + 1
    /\ replay' = [at |-> "select", view |-> rows, known |-> localities]
    /\ overlapped' = (overlapped \/ run # Idle)
    /\ UNCHANGED <<rows, localities, archive, parser, run, observed, last, runs>>

ReadArchive ==
    /\ replay.at = "select"
    /\ replay' = [at |-> "replay", view |-> replay.view, known |-> replay.known,
                  want |-> replay.view, left |-> DOMAIN archive, read |-> Len(archive)]
    /\ UNCHANGED <<rows, localities, archive, parser, run, observed, overlapped, last,
                   runs, replays>>

FaultyOldest(payloads) == payloads
Oldest(payloads) == {n \in payloads : \A m \in payloads : archive[n].at <= archive[m].at}

(***************************************************************************)
(* What one parsed payload does to the listing as the session holds it.  A *)
(* posting date or a locality it does not give, or a locality that is not  *)
(* in the table, keeps the old one; the geohash and the parser's version   *)
(* are written when anything else is.                                      *)
(***************************************************************************)
FaultyCorrected(row, p, known) ==
    LET new == [row EXCEPT !.title = p.title, !.lat = p.lat, !.lon = p.lon,
                           !.posted = Or(p.posted, @),
                           !.locality = IF p.locality \in known THEN p.locality ELSE @]
    IN IF new = row THEN row ELSE [new EXCEPT !.parser = parser]
Corrected(row, p, known) ==
    LET new == [row EXCEPT !.title = p.title, !.lat = p.lat, !.lon = p.lon,
                           !.posted = Or(p.posted, @),
                           !.locality = IF p.locality \in known THEN p.locality ELSE @]
    IN IF new = row THEN row
       ELSE [new EXCEPT !.geo = Encode(new.lat, new.lon), !.parser = parser]

Replayed(table, payload, known) ==
    LET p == Reading(payload.record)
    IN IF p = Unusable \/ p.id \notin DOMAIN table THEN table
       ELSE [table EXCEPT ![p.id] = Corrected(@, p, known)]

ReplayPayload ==
    /\ replay.at = "replay"
    /\ \E n \in Oldest(replay.left) :
         replay' = [replay EXCEPT !.want = Replayed(@, archive[n], replay.known),
                                  !.left = @ \ {n}]
    /\ UNCHANGED <<rows, localities, archive, parser, run, observed, overlapped, last,
                   runs, replays>>

(***************************************************************************)
(* The commit flushes the rows that changed, once no run holds them.       *)
(***************************************************************************)
Touched == {id \in DOMAIN replay.view : replay.view[id] # replay.want[id]}
HeldByRun(id) == run # Idle /\ id \in DOMAIN run.staged

CommitReplay ==
    /\ replay.at = "replay"
    /\ replay.left = {}
    /\ ~\E id \in Touched : HeldByRun(id)
    /\ rows' = [id \in DOMAIN rows |->
                   IF id \in Touched
                   THEN WriteColumns(rows[id], replay.view[id], replay.want[id])
                   ELSE rows[id]]
    /\ last' = [read |-> replay.read, parser |-> parser,
                dated |-> last.dated \cup {id \in DOMAIN replay.want :
                                             replay.want[id].posted # Null}]
    /\ replay' = Idle
    /\ UNCHANGED <<localities, archive, parser, run, observed, overlapped, runs, replays>>

(***************************************************************************)
(* A dry run, a failure or a death: the session is rolled back.            *)
(***************************************************************************)
RollbackReplay ==
    /\ replay # Idle
    /\ replay' = Idle
    /\ UNCHANGED <<rows, localities, archive, parser, run, observed, overlapped, last,
                   runs, replays>>

Next ==
    \/ Deploy
    \/ Archive \/ PassOver \/ ReadListing \/ WriteListing \/ CommitRun \/ RunFails
    \/ ReadRows \/ ReadArchive \/ ReplayPayload \/ CommitReplay \/ RollbackReplay

Spec == Init /\ [][Next]_vars

-------------------------------------------------------------------------------
(***************************************************************************)
(* Rows and sessions are well formed.                                      *)
(***************************************************************************)
Parsed == {Parsers[v][r] : v \in Versions, r \in Records} \ {Unusable}
Given(column) == {p[column] : p \in Parsed} \cup {Null}
Row == [title : Given("title"), lat : Given("lat"), lon : Given("lon"),
        geo : {Null} \cup (Given("lat") \X Given("lon")),
        locality : Given("locality"), posted : Given("posted"),
        price : Given("price"), parser : Versions]
IsTable(table) == DOMAIN table \subseteq Ids /\ Range(table) \subseteq Row

TypeOK ==
    /\ IsTable(rows)
    /\ localities \subseteq Given("locality") \ {Null}
    /\ archive \in Seq([at : 1..MaxRuns, record : Records])
    /\ parser \in Versions
    /\ run.at \in {"idle", "read", "write"}
    /\ run # Idle => IsTable(run.staged)
    /\ replay.at \in {"idle", "select", "replay"}
    /\ replay # Idle => IsTable(replay.view)
    /\ DOMAIN observed = DOMAIN rows
    /\ last.read <= Len(archive) /\ last.dated \subseteq DOMAIN rows

(***************************************************************************)
(* "It does not [...] emit price_events": a replay, even one that read the *)
(* listing before a run moved its price and commits after it, leaves the   *)
(* price the runs have observed.                                           *)
(***************************************************************************)
PriceIsLastObserved == \A id \in DOMAIN rows : rows[id].price = observed[id]

(***************************************************************************)
(* "Real days-on-market is recoverable for the entire archive": once a     *)
(* replay has committed with a posting date in its hands, the listing has  *)
(* one, whichever run read the row before it and writes it afterwards.     *)
(***************************************************************************)
DatesStayRecovered == \A id \in last.dated : rows[id].posted # Null

(***************************************************************************)
(* As long as no run and replay have overlapped, the geohash is that of    *)
(* the position beside it, which the two write in columns of their own.    *)
(***************************************************************************)
Whole(row) == row.geo = Encode(row.lat, row.lon)
PositionIsWhole == ~overlapped => \A id \in DOMAIN rows : Whole(rows[id])

(***************************************************************************)
(* The same with a run and a replay that overlap.  The code does not       *)
(* ensure it: each writes the columns that differ from what it read, and   *)
(* one may change the latitude, the other the longitude.                   *)
(***************************************************************************)
PositionIsAlwaysWhole == \A id \in DOMAIN rows : Whole(rows[id])

(***************************************************************************)
(* What the runs would have made of the archive with this parser.          *)
(***************************************************************************)
Tells(n, id) == LET p == Reading(archive[n].record) IN p # Unusable /\ p.id = id

Fresh(id) ==
    LET row[n \in 0..Len(archive)] ==
            IF n = 0 THEN NewRow
            ELSE IF Tells(n, id) THEN Observed(row[n - 1], Reading(archive[n].record))
                 ELSE row[n - 1]
    IN row[Len(archive)]

ToldApart == \A j, k \in DOMAIN archive :
                j # k /\ archive[j].at = archive[k].at =>
                    \A id \in Ids : ~(Tells(j, id) /\ Tells(k, id))
JustReplayed == /\ run = Idle /\ ~overlapped /\ ToldApart
                /\ last.read = Len(archive) /\ last.parser = parser

(***************************************************************************)
(* "Replaying the archive in the order it arrived leaves exactly the state *)
(* a fresh run would", but for the locality: with no run meanwhile and no  *)
(* feed that repeats a listing, whose payloads no order tells apart.       *)
(***************************************************************************)
Agree(column) == \A id \in DOMAIN rows :
                    (\E n \in DOMAIN archive : Tells(n, id))
                        => rows[id][column] = Fresh(id)[column]
LeavesFreshFields == JustReplayed =>
                        \A column \in {"title", "lat", "lon", "geo", "posted"} : Agree(column)

(***************************************************************************)
(* The same of the locality.  The code does not ensure it: a run clears    *)
(* the locality that its payload does not give, a replay keeps the one of  *)
(* an older payload.                                                       *)
(***************************************************************************)
LeavesFreshLocality == JustReplayed => Agree("locality")
===============================================================================
