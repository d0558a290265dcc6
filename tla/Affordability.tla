----------------------------- MODULE Affordability -----------------------------
(***************************************************************************)
(* What a given investor can buy (profile.py), as integer functions.       *)
(*                                                                         *)
(* Amounts are whole units of money and shares are parts of Scale.  The    *)
(* code computes in floating point and truncates; here the products are    *)
(* exact and \div truncates.  A profile is the record of the fields the    *)
(* arithmetic reads; a price path gives a property's price month by month. *)
(*                                                                         *)
(* A definition named Faulty... is not used: it is the definition that     *)
(* follows it with a plausible bug, with which a property of Briefing      *)
(* fails.                                                                  *)
(***************************************************************************)
EXTENDS Integers

CONSTANTS
    FirstSlab, SecondSlab,  \* upper bounds of the two lower stamp-duty slabs
    Exemption,              \* LTCG_EXEMPTION_INR
    Horizon,                \* horizon_months
    None                    \* Python's None

ASSUME AffordabilityAssumption == /\ FirstSlab \in Nat \ {0}
                                  /\ SecondSlab \in Nat
                                  /\ FirstSlab < SecondSlab
                                  /\ Exemption \in Nat
                                  /\ Horizon \in Nat
                                  /\ None \notin Int

Scale == 10000

(***************************************************************************)
(* __post_init__ raises on any other profile.                              *)
(***************************************************************************)
Profile == {p \in [liquid : Nat, reserved : Nat, monthly : Nat, committed : Nat,
                   ltv : 0..Scale - 1] : p.reserved <= p.liquid}

AtLeastZero(n) == IF n > 0 THEN n ELSE 0
AtMost(n, m)   == IF n < m THEN n ELSE m

(***************************************************************************)
(* Stamp duty with cess and surcharge, and registration: 2%, 3% or 5% of   *)
(* the price, times 1.13, plus 1%.                                         *)
(***************************************************************************)
Rates == <<326, 439, 665>>
Upper == <<FirstSlab, SecondSlab>>
Lower == <<0, FirstSlab, SecondSlab>>

FaultySlab(price) == IF price <= FirstSlab THEN 1 ELSE IF price < SecondSlab THEN 3 ELSE 2
Slab(price) == IF price <= FirstSlab THEN 1 ELSE IF price <= SecondSlab THEN 2 ELSE 3

acquisition_cost_rate(price) == Rates[Slab(price)]

(***************************************************************************)
(* A flagged khata or layout makes a property a cash purchase.             *)
(***************************************************************************)
UNFINANCEABLE_WHEN_FLAGGED == {"khata_type", "layout_approval"}
is_financeable(flagged) == flagged \cap UNFINANCEABLE_WHEN_FLAGGED = {}

Ltv(p, financeable) == IF financeable THEN p.ltv ELSE 0

-------------------------------------------------------------------------------
(***************************************************************************)
(* The share of the price that is due in cash in slab k, and the cash.     *)
(***************************************************************************)
CashShare(p, financeable, k) == Scale - Ltv(p, financeable) + Rates[k]

cash_needed(p, price, financeable) ==
    (price * CashShare(p, financeable, Slab(price))) \div Scale

deployable_at(p, months) == AtLeastZero(p.liquid - p.reserved) + p.monthly * months

is_affordable(p, price, financeable, months) ==
    /\ price # None
    /\ cash_needed(p, price, financeable) <= deployable_at(p, months)

(***************************************************************************)
(* max_price_for: the price at which a slab's rate uses up the capital,    *)
(* for the last slab that this price falls in.  Where it falls in none the *)
(* top rate is taken instead.                                              *)
(***************************************************************************)
FallsIn(p, financeable, capital, k) ==
    LET share == CashShare(p, financeable, k)
    IN /\ Lower[k] * share < capital * Scale
       /\ k < 3 => capital * Scale <= Upper[k] * share

CeilingSlab(p, financeable, capital) ==
    IF FallsIn(p, financeable, capital, 3) THEN 3
    ELSE IF FallsIn(p, financeable, capital, 2) THEN 2
    ELSE IF FallsIn(p, financeable, capital, 1) THEN 1
    ELSE 3

FaultyMaxPrice(p, financeable, months) ==
    LET capital == deployable_at(p, months)
    IN (capital * Scale) \div (Scale - Ltv(p, financeable))
max_price_for(p, financeable, months) ==
    LET capital == deployable_at(p, months)
    IN (capital * Scale)
         \div CashShare(p, financeable, CeilingSlab(p, financeable, capital))

-------------------------------------------------------------------------------
(***************************************************************************)
(* Breaking into committed holdings: 12.5% tax on the gain, 35% of what is *)
(* sold, above the exemption.                                              *)
(***************************************************************************)
unlock_cost(p, amount) ==
    (AtLeastZero(35 * AtMost(amount, p.committed) - 100 * Exemption) * 125)
        \div 100000

unlock_needed_for(p, price, financeable, months) ==
    AtLeastZero(cash_needed(p, price, financeable) - deployable_at(p, months))

can_unlock_for(p, price, financeable, months) ==
    LET gap == unlock_needed_for(p, price, financeable, months)
    IN gap = 0 \/ gap + unlock_cost(p, gap) <= p.committed

(***************************************************************************)
(* The first month in which the price of that month can be paid.           *)
(***************************************************************************)
months_until_affordable(p, path, financeable) ==
    LET Paid(m) == is_affordable(p, path[m], financeable, m)
    IN IF \A m \in 0..Horizon : ~Paid(m) THEN None
       ELSE CHOOSE m \in 0..Horizon : Paid(m) /\ \A n \in 0..m - 1 : ~Paid(n)
===============================================================================
