------------------------------- MODULE Factors --------------------------------
(***************************************************************************)
(* The six weighted factors of the Deal Score (scoring/factors.py) and the *)
(* score they give a listing, as integer functions: a value is a number of *)
(* parts of Scale, or None where the factor abstains, and overall is in    *)
(* hundredths of a percent.  Evidence is left out, but for the months that *)
(* capital_fit found.                                                      *)
(*                                                                         *)
(* What a listing is here is the record of what the factors read of it:    *)
(*   kind, area, price, lister   of the listing itself                     *)
(*   corridor   whether its locality lies in a target corridor             *)
(*   tags       its legal tags, by item; no item if it was never tagged    *)
(*   posted     the day of the portal's posting date, or None              *)
(*   events     its price events, in order                                 *)
(*   reading    the score of its motivation extraction, None unless ok     *)
(*                                                                         *)
(* A definition named Faulty... is not used: it is the definition that     *)
(* follows it with a plausible bug, with which a property of Briefing      *)
(* fails.                                                                  *)
(***************************************************************************)
EXTENDS Affordability, SequencesExt

CONSTANT MIN_COMPS

ASSUME CompsAssumption == MIN_COMPS \in Nat \ {0}

Clamped(n) == AtMost(AtLeastZero(n), Scale)

(***************************************************************************)
(* A weighted mean in parts: only values that are there count, and the     *)
(* weight of the others is redistributed.                                  *)
(***************************************************************************)
Part(weight, value) ==
    IF value = None THEN [covered |-> 0, total |-> 0]
    ELSE [covered |-> weight, total |-> weight * value]

a ++ b == [covered |-> a.covered + b.covered, total |-> a.total + b.total]

Renormalised(parts) == IF parts.covered = 0 THEN None ELSE parts.total \div parts.covered

(***************************************************************************)
(* What a property is compared with: plots, sites and land, or flats,      *)
(* floors and houses.                                                      *)
(***************************************************************************)
Kinds == {"plot", "builder floor", "flat", "shop"}
asset_class(kind) ==
    CASE kind = "plot" -> "land"
      [] kind \in {"builder floor", "flat"} -> "built"
      [] OTHER -> None

-------------------------------------------------------------------------------
(***************************************************************************)
(* legal_risk: the registry's answer, in tenths, times what the listing's  *)
(* text claims, in hundredths.  A listing without any tag is unexamined.   *)
(***************************************************************************)
RERA_BASE == [pass |-> 10, unknown |-> 6, flag |-> 2, fail |-> 0]

Multiplier(item, status) ==
    CASE status = "flag" /\ item # "jurisdiction" -> 25
      [] status = "pass" /\ item # "jurisdiction" -> 115
      [] status = "flag" /\ item = "jurisdiction" -> 70
      [] status = "pass" /\ item = "jurisdiction" -> 105
      [] OTHER -> 100

TagOf(tags, item) == IF item \in DOMAIN tags THEN tags[item] ELSE "unknown"

legal_risk(l) ==
    LET Times(item) == Multiplier(item, TagOf(l.tags, item))
    IN IF DOMAIN l.tags = {} THEN None
       ELSE Clamped((RERA_BASE[TagOf(l.tags, "rera_registered")] * Times("khata_type")
                       * Times("layout_approval") * Times("jurisdiction")) \div 1000)

(***************************************************************************)
(* capital_fit: whether it can be bought now, or how many months away it   *)
(* is at today's price, in bands.  No price is not affordable by default.  *)
(***************************************************************************)
Financeable(l) == is_financeable({item \in DOMAIN l.tags : l.tags[item] = "flag"})

MonthsAway(p, l) ==
    months_until_affordable(p, [m \in 0..Horizon |-> l.price], Financeable(l))

Band(months) ==
    CASE months = None -> 0
      [] months # None -> IF months <= 0 THEN 10000 ELSE IF months <= 6 THEN 7500
                          ELSE IF months <= 12 THEN 5500 ELSE IF months <= 18 THEN 3500
                          ELSE IF months <= 24 THEN 2000 ELSE 500

capital_fit(p, l) ==
    IF l.price = None THEN None
    ELSE IF is_affordable(p, l.price, Financeable(l), 0) THEN Band(0)
    ELSE Band(MonthsAway(p, l))

(***************************************************************************)
(* price_vs_locality: the rate per square foot against the median of the   *)
(* listings of its class around it, itself among them; 15% below scores    *)
(* all, 15% above nothing.  Rates are in thousandths of the unit of money. *)
(***************************************************************************)
Rate(l) == IF l.price = None \/ l.area = 0 THEN None ELSE (1000 * l.price) \div l.area

(***************************************************************************)
(* locality_medians: the middle of the sorted rates, or the mean of the    *)
(* two in the middle.  The k-th of them is the least that k are no larger  *)
(* than.                                                                   *)
(***************************************************************************)
UpTo(rates, r) == {n \in DOMAIN rates : rates[n] <= r}

Kth(rates, k) ==
    CHOOSE r \in Range(rates) :
        /\ k <= Cardinality(UpTo(rates, r))
        /\ \A s \in Range(rates) : k <= Cardinality(UpTo(rates, s)) => r <= s

TwiceMedian(rates) ==
    Kth(rates, Len(rates) \div 2 + 1) + Kth(rates, (Len(rates) + 1) \div 2)

Comparable(l, rates) ==
    /\ asset_class(l.kind) # None
    /\ Rate(l) # None
    /\ Len(rates) >= MIN_COMPS
    /\ TwiceMedian(rates) > 0

FaultyPriceVsLocality(l, rates) ==
    LET twice == TwiceMedian(rates)
    IN IF Comparable(l, rates)
       THEN Clamped(((200 * Rate(l) - 85 * twice) * 1000) \div (3 * twice))
       ELSE None
price_vs_locality(l, rates) ==
    LET twice == TwiceMedian(rates)
    IN IF Comparable(l, rates)
       THEN Clamped(((115 * twice - 200 * Rate(l)) * 1000) \div (3 * twice))
       ELSE None

(***************************************************************************)
(* thesis_fit: land over flats, owners over brokers, within a corridor.    *)
(***************************************************************************)
KindBase(kind) == CASE kind = "plot" -> 100 [] kind = "builder floor" -> 55 [] OTHER -> 35
ListerAdjust(lister) == CASE lister = "owner" -> 15 [] lister = "builder" -> -10 [] OTHER -> 0

thesis_fit(l) ==
    LET value == KindBase(l.kind) + ListerAdjust(l.lister)
    IN IF asset_class(l.kind) = None THEN None
       ELSE Clamped(value * (IF l.corridor THEN 100 ELSE 50))

(***************************************************************************)
(* distress: how far the price has fallen off its peak, how often it was   *)
(* cut, and how long the listing has been on the market, where the portal  *)
(* says so.  Each abstains on its own.                                     *)
(***************************************************************************)
DISTRESS_PARTS == [drop_depth |-> 5, drop_repetition |-> 2, days_on_market |-> 3]

Drops(events) == {k \in DOMAIN events : events[k].old # None /\ events[k].new < events[k].old}
Peak(events)  == CHOOSE c \in {events[k].new : k \in DOMAIN events} :
                    \A k \in DOMAIN events : events[k].new <= c

days_on_market(l, today) ==
    IF l.posted = None THEN None ELSE Clamped(((today - l.posted - 30) * Scale) \div 150)

drop_depth(events) ==
    LET peak == Peak(events)
    IN IF events = <<>> THEN None
       ELSE Clamped(((peak - Last(events).new) * 100 * Scale) \div (15 * peak))

drop_repetition(events) ==
    IF events = <<>> THEN None ELSE Clamped((Cardinality(Drops(events)) * Scale) \div 3)

distress(l, today) ==
    Renormalised(Part(DISTRESS_PARTS.drop_depth, drop_depth(l.events))
                   ++ Part(DISTRESS_PARTS.drop_repetition, drop_repetition(l.events))
                   ++ Part(DISTRESS_PARTS.days_on_market, days_on_market(l, today)))

(***************************************************************************)
(* seller_motivation: the score of the extraction, where there is one that *)
(* passed validation.                                                      *)
(***************************************************************************)
seller_motivation(l) == IF l.reading = None THEN None ELSE Clamped(l.reading)

-------------------------------------------------------------------------------
(***************************************************************************)
(* score_listing.  It stores nothing for a listing of which no factor had  *)
(* anything to say.                                                        *)
(***************************************************************************)
WEIGHTS == [legal_risk |-> 30, capital_fit |-> 25, price_vs_locality |-> 15,
            thesis_fit |-> 12, distress |-> 10, seller_motivation |-> 8]

Decomposed(p, l, rates, today) ==
    [legal_risk |-> legal_risk(l), capital_fit |-> capital_fit(p, l),
     price_vs_locality |-> price_vs_locality(l, rates), thesis_fit |-> thesis_fit(l),
     distress |-> distress(l, today), seller_motivation |-> seller_motivation(l)]

score_listing(p, l, rates, today) ==
    LET computed == Decomposed(p, l, rates, today)
        Of(name) == Part(WEIGHTS[name], computed[name])
    IN Renormalised(Of("legal_risk") ++ Of("capital_fit") ++ Of("price_vs_locality")
                      ++ Of("thesis_fit") ++ Of("distress") ++ Of("seller_motivation"))
===============================================================================
