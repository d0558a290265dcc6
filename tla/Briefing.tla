------------------------------- MODULE Briefing -------------------------------
(***************************************************************************)
(* The listings of one market as they change, an owner who saves, the Deal *)
(* Score the listings get (Factors), and the briefing build_report makes   *)
(* of them (report.py): the opportunities, the watchlist, the ladder of    *)
(* the capital plan (CapitalPlan) and the price drops.  build_report takes *)
(* the profile once, then reads each section with queries of its own, so   *)
(* that the market may move in between.                                    *)
(*                                                                         *)
(* A definition named Faulty... is not used: it is the definition that     *)
(* follows it with a plausible bug, with which a property below fails.     *)
(***************************************************************************)
EXTENDS CapitalPlan

CONSTANTS
    Count,       \* how many listings there are
    Lots,        \* what a listing may be when it is first seen
    Prices, TagSets, Readings, Postings,  \* what becomes known of one later
    Neighbours,  \* rates of other listings of the locality, by class
    Profiles,    \* the owner's profile at first
    Cities,
    TOP_N, WATCHLIST_MONTHS, WATCHLIST_N, SCANNED,  \* sizes in build_report
    DaysPerTick, MaxTicks, MaxChanges, MaxPasses    \* bounds of the model

Ids == 1..Count

(***************************************************************************)
(* A row of the table, with its tags, its price events and its extraction. *)
(***************************************************************************)
Event   == [old : Prices \cup {None}, new : Prices, day : Nat]
Listing == [kind : Kinds, area : Nat, price : Prices \cup {None},
            lister : {"owner", "broker", "builder"}, city : Cities, corridor : BOOLEAN,
            tags : TagSets \cup {<<>>}, posted : Postings \cup {None},
            events : Seq(Event), reading : Readings \cup {None}]

ASSUME BriefingAssumption ==
    /\ Count \in Nat
    /\ Profiles \subseteq Profile
    /\ Prices \subseteq Nat \ {0}
    /\ Lots \subseteq Listing
    /\ TOP_N \in Nat \ {0}
    /\ DaysPerTick \in Nat
    /\ \A t \in TagSets : \A item \in DOMAIN t : t[item] \in DOMAIN RERA_BASE
    /\ Readings \subseteq Nat
    /\ Postings \subseteq Int
    /\ Neighbours.land \in Seq(Nat \ {0}) /\ Neighbours.built \in Seq(Nat \ {0})
    /\ WATCHLIST_N \in Nat /\ SCANNED \in Nat /\ WATCHLIST_MONTHS \in Nat

(***************************************************************************)
(* A lot comes with the event of the price it has, if any, and none is so  *)
(* large that a thousandth of the unit of money is too coarse for its      *)
(* rate.                                                                   *)
(***************************************************************************)
PriceIsLast(l) == l.price # None => l.events # <<>> /\ Last(l.events).new = l.price

ASSUME LotsAssumption ==
    \A l \in Lots : PriceIsLast(l) /\ \A c \in Prices : l.area <= 1000 * c

VARIABLES
    profile,   \* the settings default_profile reads
    today,
    listings,  \* what is known of each listing
    live,      \* those that are active or relisted
    scores,    \* the most recent score of each, or None
    report,    \* the briefing, as far as it is built
    ticks, changes, passes  \* so far, for the bounds

counts == <<ticks, changes, passes>>
vars   == <<profile, today, listings, live, scores, report, counts>>

NoReport == [at |-> "none", moved |-> FALSE, profile |-> None, top |-> <<>>,
             watchlist |-> <<>>, seen |-> <<>>, ladder |-> <<>>, drops |-> {}]

Init ==
    /\ profile \in Profiles
    /\ today = 0
    /\ listings \in [Ids -> Lots]
    /\ live = Ids
    /\ scores = [k \in Ids |-> None]
    /\ report = NoReport
    /\ ticks = 0 /\ changes = 0 /\ passes = 0

-------------------------------------------------------------------------------
(***************************************************************************)
(* The market.  A price that is seen for the first time, or that moves, is *)
(* recorded as an event, and its locality may be corrected, into a target  *)
(* corridor or out of it (_upsert_listing).                                *)
(***************************************************************************)
Building == report.at \in {"top", "watched"}
Stirred  == IF Building THEN [report EXCEPT !.moved = TRUE] ELSE report

Change(k, new) ==
    /\ changes < MaxChanges
    /\ changes' = changes + 1
    /\ listings[k] # new
    /\ listings' = [listings EXCEPT ![k] = new]
    /\ report' = Stirred
    /\ UNCHANGED <<profile, today, live, scores, ticks, passes>>

Priced(l, c) ==
    [l EXCEPT !.price = c, !.events = Append(@, [old |-> l.price, new |-> c, day |-> today])]

Reprice(k)  == \E c \in Prices \ {listings[k].price} : Change(k, Priced(listings[k], c))
Relocate(k) == Change(k, [listings[k] EXCEPT !.corridor = ~@])
Tag(k)      == \E tags \in TagSets : Change(k, [listings[k] EXCEPT !.tags = tags])
Extract(k)  == \E r \in Readings : Change(k, [listings[k] EXCEPT !.reading = r])
Date(k)     == /\ listings[k].posted = None
               /\ \E d \in Postings : Change(k, [listings[k] EXCEPT !.posted = d])

Leave(k) ==
    /\ changes < MaxChanges
    /\ changes' = changes + 1
    /\ live' = IF k \in live THEN live \ {k} ELSE live \cup {k}
    /\ report' = Stirred
    /\ UNCHANGED <<profile, today, listings, scores, ticks, passes>>

(***************************************************************************)
(* Time goes by, and a month's contribution is saved.                      *)
(***************************************************************************)
Tick ==
    /\ ticks < MaxTicks
    /\ ticks' = ticks + 1
    /\ today' = today + DaysPerTick
    /\ profile' = [profile EXCEPT !.liquid = @ + profile.monthly]
    /\ UNCHANGED <<listings, live, scores, report, changes, passes>>

-------------------------------------------------------------------------------
(***************************************************************************)
(* score_listings, with the medians of the live listings of a locality,    *)
(* which is here what lies in a city's corridors, or what does not.        *)
(***************************************************************************)
SameMarket(l, m) ==
    /\ l.city = m.city
    /\ l.corridor = m.corridor
    /\ asset_class(l.kind) = asset_class(m.kind)

PeerRates(ls, lv, k) ==
    LET class == asset_class(ls[k].kind)
        peers == SetToSeq({j \in lv : SameMarket(ls[j], ls[k]) /\ Rate(ls[j]) # None})
    IN IF class = None THEN <<>>
       ELSE Neighbours[class] \o [n \in DOMAIN peers |-> Rate(ls[peers[n]])]

DealOf(p, ls, lv, now, k) == score_listing(p, ls[k], PeerRates(ls, lv, k), now)
Deal(k)     == DealOf(profile, listings, live, today, k)
DealNext(k) == DealOf(profile', listings', live', today', k)

Score ==
    /\ passes < MaxPasses
    /\ passes' = passes + 1
    /\ scores' = [k \in Ids |-> IF k \in live /\ Deal(k) # None THEN Deal(k) ELSE scores[k]]
    /\ report' = Stirred
    /\ UNCHANGED <<profile, today, listings, live, ticks, changes>>

-------------------------------------------------------------------------------
(***************************************************************************)
(* build_report.  latest_scores goes through the live listings that have a *)
(* score, the best first, and skips what cannot be funded today, unless it *)
(* is asked not to.                                                        *)
(***************************************************************************)
Affordable(p, k) == is_affordable(p, listings[k].price, Financeable(listings[k]), 0)

Rankings(S) ==
    {s \in SetToSeqs(S) : \A m, n \in DOMAIN s : m < n => scores[s[m]] >= scores[s[n]]}

First(n, s) == SubSeq(s, 1, AtMost(n, Len(s)))

Scored == {k \in live : scores[k] # None}

FaultyReadTop ==
    /\ ~Building
    /\ \E order \in Rankings(Scored) :
         \E top \in Rankings({k \in Range(First(TOP_N, order)) : Affordable(profile, k)}) :
           report' = [NoReport EXCEPT !.at = "top", !.profile = profile, !.top = top]
    /\ UNCHANGED <<profile, today, listings, live, scores, counts>>
ReadTop ==
    /\ ~Building
    /\ \E order \in Rankings({k \in Scored : Affordable(profile, k)}) :
         report' = [NoReport EXCEPT !.at = "top", !.profile = profile,
                                    !.top = First(TOP_N, order)]
    /\ UNCHANGED <<profile, today, listings, live, scores, counts>>

(***************************************************************************)
(* The watchlist: of the best, those that are priced, out of reach today,  *)
(* and within it in six months.  seen is what the query went through.      *)
(***************************************************************************)
FaultyWatched(k) ==
    /\ listings[k].price # None
    /\ ~Affordable(report.profile, k)
    /\ LET months == MonthsAway(report.profile, listings[k])
       IN months # None /\ months <= WATCHLIST_MONTHS
Watched(k) ==
    /\ k \notin Range(report.top)
    /\ listings[k].price # None
    /\ ~Affordable(report.profile, k)
    /\ LET months == MonthsAway(report.profile, listings[k])
       IN months # None /\ months <= WATCHLIST_MONTHS

Row(k)    == [id |-> k, months |-> MonthsAway(report.profile, listings[k])]
Glance(k) == [score |-> scores[k], fundable |-> Affordable(report.profile, k)]

ReadWatchlist ==
    /\ report.at = "top"
    /\ \E order \in Rankings(Scored) :
         \E rows \in Rankings({k \in Range(First(SCANNED, order)) : Watched(k)}) :
           report' = [report EXCEPT
                        !.at = "watched",
                        !.watchlist = [n \in DOMAIN First(WATCHLIST_N, rows) |-> Row(rows[n])],
                        !.seen = [k \in Scored |-> Glance(k)]]
    /\ UNCHANGED <<profile, today, listings, live, scores, counts>>

(***************************************************************************)
(* The ladder is that of build_plan, whatever has been scored.             *)
(***************************************************************************)
Dropped(k) == \E n \in Drops(listings[k].events) : listings[k].events[n].day = today

ReadPlan ==
    /\ report.at = "watched"
    /\ report' = [report EXCEPT !.at = "built",
                                !.ladder = Ladder(report.profile, listings, live),
                                !.drops = {k \in Ids : Dropped(k)}]
    /\ UNCHANGED <<profile, today, listings, live, scores, counts>>

Next ==
    \/ \E k \in Ids : \/ Reprice(k) \/ Relocate(k) \/ Tag(k) \/ Extract(k) \/ Date(k)
                      \/ Leave(k)
    \/ Tick \/ Score \/ ReadTop \/ ReadWatchlist \/ ReadPlan

Spec == Init /\ [][Next]_vars

-------------------------------------------------------------------------------
(***************************************************************************)
(* Every variable is of its kind: whatever saves, moves or is corrected,   *)
(* __post_init__ would accept the profile and the tables could hold the    *)
(* listings.                                                               *)
(***************************************************************************)
TypeOK ==
    /\ profile \in Profile
    /\ today \in Nat
    /\ listings \in [Ids -> Listing]
    /\ live \subseteq Ids
    /\ DOMAIN report = DOMAIN NoReport
    /\ report.at \in {"none", "top", "watched", "built"}
    /\ report.at # "none" => report.profile \in Profile

(***************************************************************************)
(* Every factor, and every score, is a share or abstains.                  *)
(***************************************************************************)
Value == (0..Scale) \cup {None}
FactorsInRange ==
    /\ scores \in [Ids -> Value]
    /\ \A k \in Ids : LET found == Decomposed(profile, listings[k], PeerRates(listings, live, k), today)
                     IN found \in [DOMAIN WEIGHTS -> Value]

(***************************************************************************)
(* The score moves the right way, though six factors move at once: a       *)
(* seller who cuts the price never loses rank by it (nearer to the         *)
(* capital, at or below where it was in its locality, whose median it is   *)
(* part of, and with more of a price history); nor does a month of saving  *)
(* and of not being sold cost any; and a listing one of whose tags turns   *)
(* to a flag, "flags are severe", never gains by what a cash purchase      *)
(* needs.                                                                  *)
(***************************************************************************)
NoWorse(k)  == Deal(k) # None => DealNext(k) # None /\ DealNext(k) >= Deal(k)
NoBetter(k) == Deal(k) # None => DealNext(k) # None /\ DealNext(k) <= Deal(k)

Cut(k) == /\ listings[k].price # None
          /\ \E c \in Prices : /\ c < listings[k].price
                               /\ listings' = [listings EXCEPT ![k] = Priced(@, c)]

Flagged(k) ==
    LET old == listings[k].tags
        new == listings[k].tags'
    IN /\ DOMAIN old # {}
       /\ DOMAIN new = DOMAIN old
       /\ new # old
       /\ \A i \in DOMAIN old : new[i] = old[i] \/ (new[i] = "flag" /\ old[i] # "fail")
       /\ listings' = [listings EXCEPT ![k].tags = new]

DealIsMonotone ==
    [][\A k \in live : /\ Cut(k) \/ ticks' # ticks => NoWorse(k)
                       /\ Flagged(k) => NoBetter(k)]_vars

(***************************************************************************)
(* The sections of a briefing agree, even where the market has moved       *)
(* between the reading of the one and of the other: no listing is both     *)
(* worth reading today and on the watchlist, and nothing on the watchlist  *)
(* is there already, which "makes the section read as noise".              *)
(***************************************************************************)
Built == report.at = "built"
SectionsAgree == report.at \in {"watched", "built"} =>
    \A n \in DOMAIN report.watchlist : LET row == report.watchlist[n]
                                      IN /\ row.id \notin Range(report.top)
                                         /\ row.months \in 1..WATCHLIST_MONTHS

(***************************************************************************)
(* "The briefing must never surface a property that cannot be funded on    *)
(* the day it is shown", however old its score is, and it surfaces the     *)
(* best that can: what is left out has no better score.  If nothing moves  *)
(* meanwhile, a ladder without opportunities above it names as due now     *)
(* only what was never scored.                                             *)
(***************************************************************************)
BestFundableShown == Built /\ ~report.moved =>
    /\ \A k \in Range(report.top) : report.seen[k].fundable
    /\ \A k \in DOMAIN report.seen \ Range(report.top) :
         report.seen[k].fundable =>
             /\ Len(report.top) = TOP_N
             /\ \A j \in Range(report.top) : report.seen[j].score >= report.seen[k].score
    /\ report.top = <<>> =>
         \A k \in DOMAIN report.ladder : report.ladder[k] = 0 => k \notin DOMAIN report.seen

-------------------------------------------------------------------------------
(***************************************************************************)
(* The ceiling can be paid: "purchase costs come out of your own funds",   *)
(* so the price max_price_for names, with its down payment and its duty,   *)
(* is within the capital, at every slab boundary and beyond.               *)
(***************************************************************************)
CeilingIsAffordable ==
    \A f \in BOOLEAN : \A m \in 0..Horizon :
        is_affordable(profile, max_price_for(profile, f, m), f, m)

(***************************************************************************)
(* "Highest purchase price the profile can fund": no price that needs no   *)
(* more than the capital, before rounding, is above the ceiling.  The code *)
(* does not ensure it: between two slabs there is capital for which no     *)
(* slab's own rate gives a price in that slab, and the top rate taken then *)
(* names a price well below the slab's bound, which could be paid.         *)
(***************************************************************************)
Payable(c, f) == c * CashShare(profile, f, Slab(c)) <= deployable_at(profile, 0) * Scale

CeilingIsHighest ==
    \A f \in BOOLEAN : \A c \in Prices : Payable(c, f) => c <= max_price_for(profile, f, 0)

(***************************************************************************)
(* The same outside those gaps.                                            *)
(***************************************************************************)
InAGap(f) ==
    \A k \in 1..3 : ~FallsIn(profile, f, deployable_at(profile, 0), k)

CeilingIsHighestInSlab ==
    \A f \in BOOLEAN : \A c \in Prices :
        Payable(c, f) /\ ~InAGap(f) => c <= max_price_for(profile, f, 0)

(***************************************************************************)
(* "Cheapest first within each market, so the ladder starts at the lowest  *)
(* real bar": at every moment, no candidate left off the ladder, of either *)
(* kind of finance, can be afforded before a rung of its city.             *)
(***************************************************************************)
Sooner(m, n) == m # None /\ (n = None \/ m < n)
LadderIsSoonest ==
    \A k \in Rungs(profile, listings, live) :
        \A j \in Candidates(listings, live) \ Rungs(profile, listings, live) :
            listings[j].city = listings[k].city =>
                ~Sooner(MonthsAway(profile, listings[j]), MonthsAway(profile, listings[k]))

(***************************************************************************)
(* "The tax is paid from the same pot, so the unlock has to cover both the *)
(* gap and its own cost": where can_unlock_for says yes, some part of the  *)
(* committed holdings leaves the gap after its tax.  The code does not     *)
(* ensure it: it adds the tax on the gap, and forgets that the tax is sold *)
(* for and taxed as well, so that close to the limit the plan comes up     *)
(* short.                                                                  *)
(***************************************************************************)
UnlockIsEnough ==
    \A f \in BOOLEAN : \A c \in Prices :
        can_unlock_for(profile, c, f, 0) =>
            \E sold \in 0..profile.committed :
                sold - unlock_cost(profile, sold) >= unlock_needed_for(profile, c, f, 0)

-------------------------------------------------------------------------------
(***************************************************************************)
(* "Nothing is fundable today", which render_text prints above the ladder  *)
(* when there are no opportunities.  The code does not ensure it: the      *)
(* ladder may name as due now a listing that has not been scored.          *)
(***************************************************************************)
SilenceIsHonest == Built /\ ~report.moved /\ report.top = <<>> =>
                       0 \notin Range(report.ladder)

(***************************************************************************)
(* The watchlist is "scored, in-corridor, and reachable within the         *)
(* horizon".  The code does not ensure it: nothing looks at the corridor.  *)
(***************************************************************************)
WatchlistInCorridor == Built =>
    \A n \in DOMAIN report.watchlist : listings[report.watchlist[n].id].corridor

(***************************************************************************)
(* "With no posted_at and no price history" distress abstains, as          *)
(* "reporting them all as un-distressed would be a claim Atlas cannot      *)
(* support".  The code does not ensure it: the first price that is ever    *)
(* observed is recorded as an event, and that one event counts as a        *)
(* history without a cut, which scores 0.                                  *)
(***************************************************************************)
EverMoved(l) == \E n \in DOMAIN l.events : l.events[n].old # None
NoHistoryNoVerdict ==
    \A k \in Ids : listings[k].posted = None /\ ~EverMoved(listings[k]) =>
                     distress(listings[k], today) = None
===============================================================================
