------------------------------ MODULE CapitalPlan ------------------------------
(***************************************************************************)
(* The ladder of the capital plan (build_plan), of a profile p, the        *)
(* listings ls and those that are live, lv: the nearest real entry points  *)
(* of each city and the months until each can be paid.                     *)
(*                                                                         *)
(* A definition named Faulty... is not used: it is the definition that     *)
(* follows it with a plausible bug, with which a property of Briefing      *)
(* fails.                                                                  *)
(***************************************************************************)
EXTENDS Factors

CONSTANT per_market  \* rungs shown of each city

ASSUME PlanAssumption == per_market \in Nat

(***************************************************************************)
(* A listing is a candidate when it has a price and lies in a target       *)
(* corridor.  Of each city the per_market with the least cash to close are *)
(* shown, in the order of the table where equal.                           *)
(***************************************************************************)
Candidates(ls, lv) == {k \in lv : ls[k].price # None /\ ls[k].corridor}

FaultyCash(p, l) == l.price
Cash(p, l) == cash_needed(p, l.price, Financeable(l))

Ahead(p, ls, lv, k) ==
    {j \in Candidates(ls, lv) :
        /\ ls[j].city = ls[k].city
        /\ \/ Cash(p, ls[j]) < Cash(p, ls[k])
           \/ Cash(p, ls[j]) = Cash(p, ls[k]) /\ j < k}

Rungs(p, ls, lv) ==
    {k \in Candidates(ls, lv) : Cardinality(Ahead(p, ls, lv, k)) < per_market}

Ladder(p, ls, lv) == [k \in Rungs(p, ls, lv) |-> MonthsAway(p, ls[k])]
===============================================================================
