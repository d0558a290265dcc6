-------------------------------- MODULE Scores --------------------------------
(***************************************************************************)
(* The Deal Score pass: score_listings (scoring/engine.py), run by         *)
(* score_daily and by hand, the version table it guards with               *)
(* ensure_weights, and the ranking latest_scores makes of its results.     *)
(*                                                                         *)
(* Each session is one READ COMMITTED transaction.  What it has flushed is *)
(* staged until it commits, and holds the locks of the rows and of the     *)
(* unique keys concerned.  A factor is abstracted to its value, from 0 to  *)
(* Top; overall is a percentage.  The rows score_factors gets for a score  *)
(* in one run are one decomposition of it, without the factors of weight   *)
(* 0, which always abstain.  A score's key, the columns of its unique      *)
(* index, stands for its id.                                               *)
(*                                                                         *)
(* A definition named Faulty... is not used: it is the definition that     *)
(* follows it with a plausible bug, with which a property below fails.     *)
(***************************************************************************)
EXTENDS Integers, Sequences, FiniteSets, Functions

CONSTANTS
    Ids,             \* listings
    Workers,         \* sessions that may score
    ACTIVE_FACTORS,  \* the weighted factors, in the order they are computed
    Top,             \* the highest value of a factor
    Weightings,      \* the WEIGHTS a release may have
    FirstWeights,    \* those of version 1 at first
    Findings,        \* what may be known of a listing, factor by factor
    Initially,       \* what known may be at first
    Null,            \* SQL NULL, and no row
    Abstained,       \* a factor without data
    Events,          \* what may happen: subset of {"change", "release", "crash"}
    MaxVersion, MaxDay, MaxRuns, MaxEvents  \* bounds of the model

Active == Range(ACTIVE_FACTORS)

ASSUME ScoresAssumption ==
    /\ Weightings \subseteq [Active -> Nat \ {0}]
    /\ FirstWeights \in Weightings
    /\ Findings \subseteq [Active -> (0..Top) \cup {Abstained}]
    /\ Initially \subseteq [Ids -> Findings]
    /\ Null \notin Weightings
    /\ Top \in Nat \ {0}
    /\ MaxVersion \in Nat \ {0}
    /\ MaxDay \in Nat \ {0}

VARIABLES
    day,            \* today, an Asia/Kolkata date
    release,        \* the deployed code: WEIGHTS_VERSION and WEIGHTS
    live,           \* the listings that are active or relisted
    known,          \* what the tables say of each listing, factor by factor
    score_weights,  \* the table: the weights of a version, Null if no row
    scores,         \* the table: scores[k] for the keys k of its rows
    score_factors,  \* the table: the decompositions a score has
    pc,             \* where each session is in score_listings
    code,           \* the release its process runs
    date,           \* its score_date
    todo,           \* the listings it has yet to persist
    read,           \* what it has read of them
    at,             \* the listing it is persisting
    view,           \* the row it found for it
    staged,         \* the scores it has flushed, with their factors
    new_version,    \* whether it has flushed a row of score_weights
    overlapped,     \* whether two sessions have ever been at work at once
    runs,           \* sessions started so far, for the bound
    events          \* the changes, releases and crashes so far, in order

world   == <<day, release, live, known>>
tables  == <<score_weights, scores, score_factors>>
session == <<pc, code, date, todo, read, at, view, staged, new_version>>
history == <<overlapped, runs, events>>
vars    == <<world, tables, session, history>>

Versions == 1..MaxVersion
Days     == 1..MaxDay
Keys     == Ids \X Versions \X Days
Release  == [version : Versions, weights : Weightings]
Score    == [overall : 0..100, coverage : 0..100]
Decomposition == [Active -> (0..Top) \cup {Abstained}]
None     == [x \in {} |-> 0]
Stored   == DOMAIN scores
Places   == {"idle", "ensure", "insert", "list", "read", "find", "write"}

Init ==
    /\ day = 1
    /\ release = [version |-> 1, weights |-> FirstWeights]
    /\ live = Ids
    /\ known \in Initially
    /\ \E first \in {Null, release.weights} :
         score_weights = [v \in Versions |-> IF v = 1 THEN first ELSE Null]
    /\ scores = None
    /\ score_factors = [k \in Keys |-> <<>>]
    /\ pc = [w \in Workers |-> "idle"]
    /\ code = [w \in Workers |-> Null]
    /\ date = [w \in Workers |-> Null]
    /\ todo = [w \in Workers |-> {}]
    /\ read = [w \in Workers |-> <<>>]
    /\ at = [w \in Workers |-> Null]
    /\ view = [w \in Workers |-> Null]
    /\ staged = [w \in Workers |-> None]
    /\ new_version = [w \in Workers |-> FALSE]
    /\ overlapped = FALSE
    /\ runs = 0
    /\ events = <<>>

-------------------------------------------------------------------------------
(***************************************************************************)
(* The rest of the system: the day turns; collection, tagging and          *)
(* extraction change what is known of a listing, or remove or relist it; a *)
(* release has another version of the weights, or edits them in place.     *)
(***************************************************************************)
Happens(kind) ==
    /\ kind \in Events
    /\ Len(events) < MaxEvents
    /\ events' = Append(events, kind)

NewDay ==
    /\ day < MaxDay
    /\ day' = day + 1
    /\ UNCHANGED <<release, live, known, tables, session, history>>

Change(l) ==
    /\ Happens("change")
    /\ \/ /\ \E k \in Findings \ {known[l]} : known' = [known EXCEPT ![l] = k]
          /\ UNCHANGED live
       \/ /\ live' = IF l \in live THEN live \ {l} ELSE live \cup {l}
          /\ UNCHANGED known
    /\ UNCHANGED <<day, release, tables, session>>
    /\ UNCHANGED <<overlapped, runs>>

Deploy ==
    /\ Happens("release")
    /\ release' \in Release \ {release}
    /\ release'.version \in {release.version, release.version + 1}
    /\ UNCHANGED <<day, live, known, tables, session>>
    /\ UNCHANGED <<overlapped, runs>>

-------------------------------------------------------------------------------
(***************************************************************************)
(* score_listing: overall is renormalised over the weight that had data.   *)
(***************************************************************************)
Covered(found) == {f \in Active : found[f] # Abstained}

WeightOf(weights, F) == SumFunctionOnSet(weights, F)

Overall(weights, found) ==
    LET total == [f \in Covered(found) |-> weights[f] * found[f]]
    IN (100 * SumFunction(total)) \div (Top * WeightOf(weights, Covered(found)))

Scored(weights, found) ==
    [overall  |-> Overall(weights, found),
     coverage |-> (100 * WeightOf(weights, Covered(found)))
                      \div WeightOf(weights, Active)]

-------------------------------------------------------------------------------
(***************************************************************************)
(* A session begins, in a process that runs the deployed code, or ends.    *)
(* One that ends has nothing flushed any more: the rest is rolled back.    *)
(***************************************************************************)
Busy == {w \in Workers : pc[w] # "idle"}

Start(w) ==
    /\ pc[w] = "idle"
    /\ runs < MaxRuns
    /\ runs' = runs + 1
    /\ pc' = [pc EXCEPT ![w] = "ensure"]
    /\ code' = [code EXCEPT ![w] = release]
    /\ overlapped' = (overlapped \/ Busy # {})
    /\ UNCHANGED <<world, tables, date, todo, read, at, view, staged>>
    /\ UNCHANGED <<new_version, events>>

FaultyEnds(w) ==
    /\ pc' = [pc EXCEPT ![w] = "idle"]
    /\ code' = [code EXCEPT ![w] = Null]
    /\ date' = [date EXCEPT ![w] = Null]
    /\ todo' = [todo EXCEPT ![w] = {}]
    /\ read' = [read EXCEPT ![w] = <<>>]
    /\ at' = [at EXCEPT ![w] = Null]
    /\ view' = [view EXCEPT ![w] = Null]
    /\ new_version' = [new_version EXCEPT ![w] = FALSE]
    /\ UNCHANGED staged
Ends(w) ==
    /\ pc' = [pc EXCEPT ![w] = "idle"]
    /\ code' = [code EXCEPT ![w] = Null]
    /\ date' = [date EXCEPT ![w] = Null]
    /\ todo' = [todo EXCEPT ![w] = {}]
    /\ read' = [read EXCEPT ![w] = <<>>]
    /\ at' = [at EXCEPT ![w] = Null]
    /\ view' = [view EXCEPT ![w] = Null]
    /\ staged' = [staged EXCEPT ![w] = None]
    /\ new_version' = [new_version EXCEPT ![w] = FALSE]

(***************************************************************************)
(* An exception ends score_listings: the row of the version has other      *)
(* weights (WeightsDriftError), or a unique key is taken.                  *)
(***************************************************************************)
Raise(w) == Ends(w) /\ UNCHANGED <<world, tables, history>>

-------------------------------------------------------------------------------
(***************************************************************************)
(* ensure_weights looks the version up, and inserts it where there is no   *)
(* row.  The insertion waits for another session's insertion of the same   *)
(* version, and fails if that one is committed.                            *)
(***************************************************************************)
FaultyDrifts(w) == FALSE
Drifts(w) == score_weights[code[w].version] # code[w].weights

Ensure(w) ==
    /\ pc[w] = "ensure"
    /\ \/ /\ score_weights[code[w].version] = Null
          /\ pc' = [pc EXCEPT ![w] = "insert"]
          /\ UNCHANGED <<world, tables, code, date, todo, read, at, view, staged>>
          /\ UNCHANGED <<new_version, history>>
       \/ /\ score_weights[code[w].version] # Null
          /\ Drifts(w)
          /\ Raise(w)
       \/ /\ score_weights[code[w].version] # Null
          /\ ~Drifts(w)
          /\ pc' = [pc EXCEPT ![w] = "list"]
          /\ UNCHANGED <<world, tables, code, date, todo, read, at, view, staged>>
          /\ UNCHANGED <<new_version, history>>

FaultyInsertVersion(w) ==
    /\ pc[w] = "insert"
    /\ new_version' = [new_version EXCEPT ![w] = TRUE]
    /\ pc' = [pc EXCEPT ![w] = "list"]
    /\ UNCHANGED <<world, tables, code, date, todo, read, at, view, staged>>
    /\ UNCHANGED history
InsertVersion(w) ==
    /\ pc[w] = "insert"
    /\ \A u \in Workers \ {w} :
         ~(new_version[u] /\ code[u].version = code[w].version)
    /\ \/ /\ score_weights[code[w].version] # Null
          /\ Raise(w)
       \/ /\ score_weights[code[w].version] = Null
          /\ new_version' = [new_version EXCEPT ![w] = TRUE]
          /\ pc' = [pc EXCEPT ![w] = "list"]
          /\ UNCHANGED <<world, tables, code, date, todo, read, at, view, staged>>
          /\ UNCHANGED history

-------------------------------------------------------------------------------
(***************************************************************************)
(* The inputs are read one table after another: the live listings, then    *)
(* what each factor reads.  The date is taken when all have been read.     *)
(***************************************************************************)
ListLive(w) ==
    /\ pc[w] = "list"
    /\ todo' = [todo EXCEPT ![w] = live]
    /\ pc' = [pc EXCEPT ![w] = "read"]
    /\ UNCHANGED <<world, tables, code, date, read, at, view, staged>>
    /\ UNCHANGED <<new_version, history>>

ReadFactor(w) ==
    LET n == Len(read[w]) + 1
        f == ACTIVE_FACTORS[n]
    IN /\ pc[w] = "read"
       /\ read' = [read EXCEPT ![w] = Append(@, [l \in todo[w] |-> known[l][f]])]
       /\ IF n = Len(ACTIVE_FACTORS)
            THEN /\ pc' = [pc EXCEPT ![w] = "find"]
                 /\ date' = [date EXCEPT ![w] = day]
            ELSE UNCHANGED <<pc, date>>
       /\ UNCHANGED <<world, tables, code, todo, at, view, staged>>
       /\ UNCHANGED <<new_version, history>>

Found(w, l) ==
    [f \in Active |-> read[w][CHOOSE n \in DOMAIN ACTIVE_FACTORS : ACTIVE_FACTORS[n] = f][l]]

-------------------------------------------------------------------------------
(***************************************************************************)
(* _persist looks for today's row of the listing, and inserts it or        *)
(* updates it and replaces its factors.  A listing of which nothing is     *)
(* known is skipped.                                                       *)
(***************************************************************************)
FaultyKey(w, l) == <<l, code[w].version, 1>>
Key(w, l) == <<l, code[w].version, date[w]>>

Skip(w, l) ==
    /\ pc[w] = "find"
    /\ l \in todo[w]
    /\ Covered(Found(w, l)) = {}
    /\ todo' = [todo EXCEPT ![w] = @ \ {l}]
    /\ UNCHANGED <<world, tables, pc, code, date, read, at, view, staged>>
    /\ UNCHANGED <<new_version, history>>

Find(w, l) ==
    /\ pc[w] = "find"
    /\ l \in todo[w]
    /\ Covered(Found(w, l)) # {}
    /\ at' = [at EXCEPT ![w] = l]
    /\ view' = [view EXCEPT ![w] = IF Key(w, l) \in Stored THEN scores[Key(w, l)] ELSE Null]
    /\ pc' = [pc EXCEPT ![w] = "write"]
    /\ UNCHANGED <<world, tables, code, date, todo, read, staged, new_version, history>>

(***************************************************************************)
(* Another session has flushed the row, so that writing it has to wait.    *)
(***************************************************************************)
Holds(u, k) == k \in DOMAIN staged[u]
WaitsFor(w, u) == u # w /\ pc[w] = "write" /\ Holds(u, Key(w, at[w]))
Blocked(w) == \E u \in Workers : WaitsFor(w, u)

(***************************************************************************)
(* The UPDATE leaves out a column whose value compares equal to the one    *)
(* read.  A percentage that a float cannot hold compares unequal to the    *)
(* decimal it was stored as, so an equal one may be written as well.       *)
(***************************************************************************)
Written(stored, seen, new) ==
    {row \in [overall  : {stored.overall, new.overall},
             coverage : {stored.coverage, new.coverage}] :
        \A c \in DOMAIN row : new[c] # seen[c] => row[c] = new[c]}

Rewrites(w, k, new) == IF view[w] = Null THEN {new} ELSE Written(scores[k], view[w], new)

Write(w) ==
    LET k == Key(w, at[w])
        found == Found(w, at[w])
    IN /\ pc[w] = "write"
       /\ ~Blocked(w)
       /\ \/ /\ view[w] = Null /\ k \in Stored
             /\ Raise(w)
          \/ /\ ~(view[w] = Null /\ k \in Stored)
             /\ \E row \in Rewrites(w, k, Scored(code[w].weights, found)) :
                  staged' = [staged EXCEPT ![w] =
                    [j \in DOMAIN @ \cup {k} |->
                       IF j = k THEN [row |-> row, factors |-> found]
                                ELSE @[j]]]
             /\ todo' = [todo EXCEPT ![w] = @ \ {at[w]}]
             /\ pc' = [pc EXCEPT ![w] = "find"]
             /\ at' = [at EXCEPT ![w] = Null]
             /\ view' = [view EXCEPT ![w] = Null]
             /\ UNCHANGED <<world, tables, code, date, read, new_version, history>>

(***************************************************************************)
(* The commit.  The rows of score_factors that an updated score had are    *)
(* gone.                                                                   *)
(***************************************************************************)
FaultyKept(w, k) == score_factors[k]
Kept(w, k) == IF Holds(w, k) THEN <<>> ELSE score_factors[k]

Commit(w) ==
    /\ pc[w] = "find"
    /\ todo[w] = {}
    /\ score_weights' = IF new_version[w]
                          THEN [score_weights EXCEPT ![code[w].version] = code[w].weights]
                          ELSE score_weights
    /\ scores' = [k \in Stored \cup DOMAIN staged[w] |->
         IF Holds(w, k) THEN staged[w][k].row ELSE scores[k]]
    /\ score_factors' = [k \in Keys |->
         IF Holds(w, k) THEN Append(Kept(w, k), staged[w][k].factors) ELSE Kept(w, k)]
    /\ Ends(w)
    /\ UNCHANGED <<world, history>>

(***************************************************************************)
(* Two sessions that wait for one another: Postgres aborts one.  A process *)
(* may die.                                                                *)
(***************************************************************************)
Deadlock(w) ==
    /\ \E u \in Workers : WaitsFor(w, u) /\ WaitsFor(u, w)
    /\ Raise(w)

Crash(w) ==
    /\ pc[w] # "idle"
    /\ Happens("crash")
    /\ Ends(w)
    /\ UNCHANGED <<world, tables, overlapped, runs>>

-------------------------------------------------------------------------------
Advance(w) ==
    \/ Ensure(w) \/ InsertVersion(w) \/ ListLive(w) \/ ReadFactor(w)
    \/ \E l \in Ids : Skip(w, l) \/ Find(w, l)
    \/ Write(w) \/ Commit(w) \/ Deadlock(w)

Next == \/ NewDay \/ Deploy
        \/ \E l \in Ids : Change(l)
        \/ \E w \in Workers : Start(w) \/ Advance(w) \/ Crash(w)

Spec == Init /\ [][Next]_vars

(***************************************************************************)
(* A started score_listings is code that runs to its end.                  *)
(***************************************************************************)
FairSpec == Spec /\ \A w \in Workers : WF_vars(Advance(w))

-------------------------------------------------------------------------------
(***************************************************************************)
(* latest_scores: the scores of the newest day of each live listing.       *)
(***************************************************************************)
Newest(l) == {k \in Stored : k[1] = l /\ \A j \in Stored : j[1] = l => j[3] <= k[3]}

latest_scores == UNION {Newest(l) : l \in live}

-------------------------------------------------------------------------------
TypeOK ==
    /\ day \in Days
    /\ release \in Release
    /\ live \subseteq Ids
    /\ known \in [Ids -> Findings]
    /\ score_weights \in [Versions -> Weightings \cup {Null}]
    /\ Stored \subseteq Keys
    /\ scores \in [Stored -> Score]
    /\ score_factors \in [Keys -> Seq(Decomposition)]
    /\ pc \in [Workers -> Places]
    /\ code \in [Workers -> Release \cup {Null}]
    /\ date \in [Workers -> Days \cup {Null}]
    /\ todo \in [Workers -> SUBSET Ids]
    /\ at \in [Workers -> Ids \cup {Null}]
    /\ view \in [Workers -> Score \cup {Null}]
    /\ \A w \in Workers :
         /\ Len(read[w]) <= Len(ACTIVE_FACTORS)
         /\ \A n \in DOMAIN read[w] : DOMAIN read[w][n] \subseteq Ids
         /\ DOMAIN staged[w] \subseteq Keys
         /\ \A k \in DOMAIN staged[w] : staged[w][k] \in [row : Score, factors : Decomposition]
    /\ new_version \in [Workers -> BOOLEAN]
    /\ overlapped \in BOOLEAN
    /\ runs \in 0..MaxRuns
    /\ Len(events) <= MaxEvents
    /\ Range(events) \subseteq Events

(***************************************************************************)
(* "Every score decomposes": a stored score has one decomposition, however *)
(* many sessions have scored the listing that day, and whichever of them   *)
(* failed; and a row of factors belongs to a stored score, whose version   *)
(* has its weights on record.                                              *)
(***************************************************************************)
OneDecomposition ==
    \A k \in Keys : /\ Len(score_factors[k]) = IF k \in Stored THEN 1 ELSE 0
                    /\ k \in Stored => score_weights[k[2]] # Null

(***************************************************************************)
(* "Weights are never edited in place": a version keeps the weights it was *)
(* first stored with, even when two releases that disagree about them      *)
(* score at the same time.                                                 *)
(***************************************************************************)
VersionsFixed ==
    [][\A v \in Versions : score_weights[v] # Null
          => score_weights'[v] = score_weights[v]]_vars

(***************************************************************************)
(* A stored score can be interrogated: it is the number its own factors    *)
(* give under the weights on record for its version.  Sessions that        *)
(* overlap can break it (FactorsAlwaysGiveScore).                          *)
(***************************************************************************)
Gives(k) == scores[k] = Scored(score_weights[k[2]], score_factors[k][1])

FactorsGiveScore == ~overlapped => \A k \in Stored : Gives(k)

(***************************************************************************)
(* The same of every stored score.  The code does not ensure it: a session *)
(* that computes the value it read leaves the column out of its UPDATE,    *)
(* and so keeps the overall of a session that committed in between, beside *)
(* its own factors.                                                        *)
(***************************************************************************)
FactorsAlwaysGiveScore == \A k \in Stored : Gives(k)

(***************************************************************************)
(* "Yesterday's is immutable, so a recommendation already emailed still    *)
(* points at the number that was actually sent": a score of an earlier day *)
(* changes only at the hands of a session that had taken its date before   *)
(* midnight.                                                               *)
(***************************************************************************)
PastScoresFixed ==
    [][\A k \in Keys :
         k[3] < day /\ (\A w \in Workers : pc[w] \in {"find", "write"} => date[w] # k[3])
            => /\ k \in Stored' <=> k \in Stored
               /\ k \in Stored => UNCHANGED <<scores[k], score_factors[k]>>]_vars

(***************************************************************************)
(* "Top listings by most recent score": no listing is shown twice.  The    *)
(* code does not ensure it: latest_scores takes the newest date, and a     *)
(* listing scored under two versions on that date has two scores of it.    *)
(***************************************************************************)
RankedOnce ==
    \A l \in live : Cardinality({k \in latest_scores : k[1] = l}) <= 1

(***************************************************************************)
(* Every session that starts to score ends, whatever the others do: what   *)
(* one holds is released in the end, and none waits for ever.              *)
(***************************************************************************)
ScoringEnds == \A w \in Workers : pc[w] # "idle" ~> pc[w] = "idle"
===============================================================================
