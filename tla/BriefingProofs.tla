---------------------------- MODULE BriefingProofs ----------------------------
(***************************************************************************)
(* Proofs about the briefing: the ceiling can be paid and, outside the     *)
(* gaps between the slabs, is the highest price that can; the ladder       *)
(* leaves no sooner candidate off; the sections agree whatever moves       *)
(* between them; the opportunities are the best that can be funded; and    *)
(* the Deal Score is a share that moves the right way when a price is cut, *)
(* the owner saves or a tag turns to a flag.  Whatever the bounds of the   *)
(* slabs, the profile, the horizon, the prices, the number of listings,    *)
(* the rates around them and the sizes of the sections.                    *)
(***************************************************************************)
EXTENDS Briefing, FiniteSetTheorems, WellFoundedInduction, TLAPS

(***************************************************************************)
(* Rounding down to a whole unit.                                          *)
(***************************************************************************)
LEMMA DivDown ==
    ASSUME NEW a \in Nat, NEW b \in Nat, b > 0
    PROVE  a \div b \in Nat /\ (a \div b) * b <= a
  OBVIOUS

(***************************************************************************)
(* A quotient stays below what its dividend stays below.                   *)
(***************************************************************************)
LEMMA DivBound ==
    ASSUME NEW a \in Nat, NEW b \in Nat, NEW c \in Nat, b > 0, a <= c * b
    PROVE  a \div b <= c
  OBVIOUS

(***************************************************************************)
(* A larger factor, a larger product.                                      *)
(***************************************************************************)
LEMMA TimesMonotone ==
    ASSUME NEW a \in Nat, NEW b \in Nat, NEW c \in Nat, b <= c
    PROVE  a * b <= a * c
  OBVIOUS

-------------------------------------------------------------------------------
(***************************************************************************)
(* What a slab takes in cash: a share between the lowest rate and the      *)
(* whole price with the highest rate, larger in a higher slab.             *)
(***************************************************************************)
LEMMA LtvType ==
    ASSUME NEW p \in Profile, NEW f \in BOOLEAN
    PROVE  Ltv(p, f) \in 0..9999
  <1>1. p.ltv \in 0..9999
    BY DEF Profile, Scale
  <1>2. CASE f
    <2>1. Ltv(p, f) = p.ltv
      BY <1>2, Zenon DEF Ltv
    <2> QED
      BY ONLY <1>1, <2>1
  <1>3. CASE ~f
    <2>1. Ltv(p, f) = 0
      BY <1>3, Zenon DEF Ltv
    <2> QED
      BY <2>1
  <1> QED
    BY <1>2, <1>3

(***************************************************************************)
(* A share of cash is a positive number of ten-thousandths, at every slab. *)
(***************************************************************************)
LEMMA ShareType ==
    ASSUME NEW p \in Profile, NEW f \in BOOLEAN, NEW k \in 1..3
    PROVE  CashShare(p, f, k) \in Nat /\ CashShare(p, f, k) > 0
  <1> DEFINE l == Ltv(p, f)
             r == Rates[k]
  <1>1. l \in 0..9999
    BY LtvType
  <1>2. r \in {326, 439, 665}
    BY DEF Rates
  <1>3. CashShare(p, f, k) = 10000 - l + r
    BY DEF CashShare, Scale
  <1> HIDE DEF l, r
  <1>4. 10000 - l + r \in Nat /\ 10000 - l + r > 0
    BY <1>1, <1>2
  <1> QED
    BY <1>3, <1>4

(***************************************************************************)
(* A higher slab takes a larger share of the price in cash.                *)
(***************************************************************************)
LEMMA ShareMonotone ==
    ASSUME NEW p \in Profile, NEW f \in BOOLEAN,
           NEW j \in 1..3, NEW k \in 1..3, j <= k
    PROVE  CashShare(p, f, j) <= CashShare(p, f, k)
  <1> DEFINE l == Ltv(p, f)
             q == Rates[j]
             r == Rates[k]
  <1>1. l \in 0..9999
    BY LtvType
  <1>2. q \in Nat /\ r \in Nat /\ q <= r
    BY DEF Rates
  <1>3. CashShare(p, f, j) = 10000 - l + q /\ CashShare(p, f, k) = 10000 - l + r
    BY DEF CashShare, Scale
  <1> HIDE DEF l, q, r
  <1>4. 10000 - l + q <= 10000 - l + r
    BY <1>1, <1>2
  <1> QED
    BY <1>3, <1>4

(***************************************************************************)
(* The capital deployable_at counts is an amount of money.                 *)
(***************************************************************************)
LEMMA DeployableType ==
    ASSUME NEW p \in Profile, NEW m \in Nat
    PROVE  deployable_at(p, m) \in Nat
  <1>1. p.liquid \in Nat /\ p.reserved \in Nat /\ p.monthly \in Nat
    BY DEF Profile
  <1>2. AtLeastZero(p.liquid - p.reserved) \in Nat
    BY <1>1 DEF AtLeastZero
  <1>3. p.monthly * m \in Nat
    BY <1>1
  <1> QED
    BY <1>2, <1>3 DEF deployable_at

(***************************************************************************)
(* The slab whose rate the ceiling is computed with is the slab of the     *)
(* ceiling, or a higher one.                                               *)
(***************************************************************************)
LEMMA CeilingSlabType ==
    ASSUME NEW p, NEW f, NEW c
    PROVE  CeilingSlab(p, f, c) \in 1..3
  BY DEF CeilingSlab

(***************************************************************************)
(* The price computed with a slab's rate falls in that slab or a lower     *)
(* one.                                                                    *)
(***************************************************************************)
LEMMA SlabBelowCeilingSlab ==
    ASSUME NEW p \in Profile, NEW f \in BOOLEAN, NEW c \in Nat
    PROVE  LET k == CeilingSlab(p, f, c)
               price == (c * Scale) \div CashShare(p, f, k)
           IN  Slab(price) \in 1..3 /\ Slab(price) <= k
  <1> DEFINE k == CeilingSlab(p, f, c)
             share == CashShare(p, f, k)
             price == (c * Scale) \div share
  <1> SUFFICES Slab(price) \in 1..3 /\ Slab(price) <= k
    OBVIOUS
  <1>1. k \in 1..3
    BY CeilingSlabType
  <1>2. share \in Nat /\ share > 0
    BY <1>1, ShareType
  <1>3. c * Scale \in Nat
    BY DEF Scale
  <1>4. Slab(price) \in 1..3
    BY DEF Slab
  <1>5. CASE k = 3
    BY <1>4, <1>5
  <1>6. CASE k # 3
    <2>1. c * Scale <= Upper[k] * share
      <3>1. FallsIn(p, f, c, k)
        BY <1>6 DEF CeilingSlab
      <3> QED
        BY <3>1, <1>1, <1>6 DEF FallsIn
    <2>2. Upper[k] \in Nat
      BY <1>1, <1>6, AffordabilityAssumption DEF Upper
    <2> HIDE DEF share, k
    <2>3. price <= Upper[k]
      BY <2>1, <2>2, <1>2, <1>3, DivBound
    <2>4. price \in Nat
      BY <1>2, <1>3, DivDown
    <2> HIDE DEF price
    <2>5. CASE k = 1
      BY <2>3, <2>4, <2>5, AffordabilityAssumption DEF Slab, Upper
    <2>6. CASE k = 2
      BY <2>3, <2>4, <2>6, AffordabilityAssumption DEF Slab, Upper
    <2> QED
      BY <1>1, <1>4, <1>6, <2>5, <2>6
  <1> QED
    BY <1>4, <1>5, <1>6

(***************************************************************************)
(* max_price_for never names a price that is_affordable rejects.           *)
(***************************************************************************)
THEOREM CeilingAffordable ==
    ASSUME NEW p \in Profile, NEW f \in BOOLEAN, NEW m \in Nat
    PROVE  is_affordable(p, max_price_for(p, f, m), f, m)
  <1> DEFINE c == deployable_at(p, m)
             k == CeilingSlab(p, f, c)
             share == CashShare(p, f, k)
             price == (c * Scale) \div share
             due == CashShare(p, f, Slab(price))
  <1>1. c \in Nat
    BY DeployableType
  <1>2. k \in 1..3 /\ share \in Nat /\ share > 0
    BY CeilingSlabType, ShareType
  <1>3. Slab(price) \in 1..3 /\ Slab(price) <= k
    BY <1>1, SlabBelowCeilingSlab
  <1>4. due \in Nat /\ due <= share
    BY <1>2, <1>3, ShareType, ShareMonotone
  <1>5. c * Scale \in Nat /\ Scale \in Nat /\ Scale > 0
    BY <1>1 DEF Scale
  <1>6. price \in Nat /\ price * share <= c * Scale
    <2> HIDE DEF c, share
    <2> QED
      BY <1>2, <1>5, DivDown
  <1>7. price * due \in Nat /\ price * due <= c * Scale
    <2> HIDE DEF c, share, price, due
    <2>1. price * due <= price * share
      BY <1>2, <1>4, <1>6, TimesMonotone
    <2>2. price * due \in Nat /\ price * share \in Nat
      BY <1>2, <1>4, <1>6
    <2> QED
      BY <1>5, <1>6, <2>1, <2>2
  <1>8. (price * due) \div Scale <= c
    <2> HIDE DEF c, share, price, due
    <2> QED
      BY <1>1, <1>5, <1>7, DivBound
  <1>9. max_price_for(p, f, m) = price
    BY DEF max_price_for
  <1>10. price # None
    BY <1>6, AffordabilityAssumption
  <1> QED
    BY <1>8, <1>9, <1>10 DEF is_affordable, cash_needed

-------------------------------------------------------------------------------
(***************************************************************************)
(* The ceiling is the highest price.                                       *)
(*                                                                         *)
(* What needs no more than a quotient's dividend is within the quotient.   *)
(***************************************************************************)
LEMMA DivHighest ==
    ASSUME NEW a \in Nat, NEW b \in Nat, NEW c \in Nat, b > 0, c * b <= a
    PROVE  c <= a \div b
  <1>1. a \div b \in Nat
    BY DivDown
  <1>2. a < (a \div b + 1) * b
    OBVIOUS
  <1>3. SUFFICES ASSUME a \div b + 1 <= c
                 PROVE  FALSE
    BY <1>1
  <1>4. (a \div b + 1) * b <= c * b
    <2> DEFINE q == a \div b + 1
    <2>1. q \in Nat /\ q <= c
      BY <1>1, <1>3
    <2> HIDE DEF q
    <2>2. b * q <= b * c
      BY <2>1, TimesMonotone
    <2>3. q * b = b * q /\ c * b = b * c
      BY <2>1
    <2> QED
      BY <2>2, <2>3 DEF q
  <1>5. c * b \in Nat
    OBVIOUS
  <1> QED
    BY <1>1, <1>2, <1>4, <1>5

(***************************************************************************)
(* Outside the gaps the ceiling is computed with the rate of a slab the    *)
(* capital falls in.                                                       *)
(***************************************************************************)
LEMMA CeilingFallsIn ==
    ASSUME NEW p, NEW f, NEW c, NEW k \in 1..3, FallsIn(p, f, c, k)
    PROVE  FallsIn(p, f, c, CeilingSlab(p, f, c))
  <1>1. k = 1 \/ k = 2 \/ k = 3
    OBVIOUS
  <1> QED
    BY <1>1 DEF CeilingSlab

(***************************************************************************)
(* A price of a lower slab is within the lower bound of the higher one.    *)
(***************************************************************************)
LEMMA SlabsApart ==
    ASSUME NEW c \in Nat, NEW k \in 1..3, Slab(c) < k
    PROVE  Lower[k] \in Nat /\ c <= Lower[k]
  <1>1. k = 1 \/ k = 2 \/ k = 3
    OBVIOUS
  <1>2. FirstSlab \in Nat /\ SecondSlab \in Nat /\ FirstSlab < SecondSlab
    BY AffordabilityAssumption
  <1>3. Lower[1] = 0 /\ Lower[2] = FirstSlab /\ Lower[3] = SecondSlab
    BY DEF Lower
  <1>4. CASE c <= FirstSlab
    BY <1>1, <1>2, <1>3, <1>4 DEF Slab
  <1>5. CASE ~(c <= FirstSlab) /\ c <= SecondSlab
    BY <1>1, <1>2, <1>3, <1>5 DEF Slab
  <1>6. CASE ~(c <= FirstSlab) /\ ~(c <= SecondSlab)
    BY <1>1, <1>6 DEF Slab
  <1> QED
    BY <1>4, <1>5, <1>6

(***************************************************************************)
(* max_price_for names the highest price that can be paid, whenever the    *)
(* capital falls in a slab: a price of that slab or a higher one takes at  *)
(* least its share, and one of a lower slab is below the bound from which  *)
(* the capital goes further.                                               *)
(***************************************************************************)
LEMMA CeilingHighest ==
    ASSUME NEW p \in Profile, NEW f \in BOOLEAN, NEW m \in Nat, NEW c \in Nat,
           c * CashShare(p, f, Slab(c)) <= deployable_at(p, m) * Scale,
           NEW s \in 1..3, FallsIn(p, f, deployable_at(p, m), s)
    PROVE  c <= max_price_for(p, f, m)
  <1> DEFINE d == deployable_at(p, m)
             k == CeilingSlab(p, f, d)
             share == CashShare(p, f, k)
             due == CashShare(p, f, Slab(c))
             a == d * Scale
  <1>1. a \in Nat
    BY DeployableType DEF Scale
  <1>2. k \in 1..3 /\ FallsIn(p, f, d, k)
    BY CeilingSlabType, CeilingFallsIn
  <1>3. share \in Nat /\ share > 0
    BY <1>2, ShareType
  <1>4. Slab(c) \in 1..3
    BY DEF Slab
  <1>5. due \in Nat /\ c * due <= a
    BY <1>4, ShareType
  <1>6. c * share <= a
    <2>1. CASE Slab(c) < k
      <3>1. Lower[k] \in Nat /\ c <= Lower[k]
        BY <1>2, <2>1, SlabsApart
      <3>2. Lower[k] * share < a
        BY <1>2 DEF FallsIn
      <3> DEFINE low == Lower[k]
      <3>3. low \in Nat /\ c <= low /\ low * share < a
        BY <3>1, <3>2
      <3> HIDE DEF low, share, a
      <3>4. share * c <= share * low
        BY <1>3, <3>3, TimesMonotone
      <3>5. share * c = c * share /\ share * low = low * share
        BY <1>3, <3>3
      <3>6. c * share \in Nat /\ low * share \in Nat
        BY <1>3, <3>3
      <3> QED
        BY <1>1, <3>3, <3>4, <3>5, <3>6
    <2>2. CASE ~(Slab(c) < k)
      <3>1. share <= due
        BY <1>2, <1>4, <2>2, ShareMonotone
      <3> HIDE DEF share, due, a
      <3>2. c * share <= c * due
        BY <1>3, <1>5, <3>1, TimesMonotone
      <3>3. c * share \in Nat /\ c * due \in Nat
        BY <1>3, <1>5
      <3> QED
        BY <1>1, <1>5, <3>2, <3>3
    <2> QED
      BY <2>1, <2>2
  <1>7. c <= a \div share
    <2> HIDE DEF share, a
    <2> QED
      BY <1>1, <1>3, <1>6, DivHighest
  <1> QED
    BY <1>7 DEF max_price_for

(***************************************************************************)
(* The months until a price can be paid.                                   *)
(*                                                                         *)
(* A nonempty set of naturals has a least member: the initial segments of  *)
(* its members are finite sets, and being a proper subset is well-founded  *)
(* among those.                                                            *)
(***************************************************************************)
LEMMA LeastNat ==
    ASSUME NEW T \in SUBSET Nat, T # {}
    PROVE  \E n \in T : \A m \in T : n <= m
  <1> DEFINE U == {1..n : n \in T}
  <1>1. U \subseteq FiniteSubsetsOf(Nat) /\ U # {}
    <2>1. ASSUME NEW n \in T
          PROVE  1..n \in FiniteSubsetsOf(Nat)
      BY FS_Interval DEF FiniteSubsetsOf
    <2> QED
      BY <2>1
  <1>2. PICK x \in U : \A y \in U : ~(<<y, x>> \in StrictSubsetOrdering(Nat))
    <2> HIDE DEF U
    <2> QED
      BY <1>1, FS_StrictSubsetOrderingWellFounded, WFMin
  <1>3. PICK n \in T : x = 1..n
    OBVIOUS
  <1>4. ASSUME NEW m \in T, ~(n <= m)
        PROVE  FALSE
    <2>1. 1..m \in U /\ 1..m \subseteq 1..n /\ n \in 1..n /\ n \notin 1..m
      BY <1>4
    <2>2. <<1..m, 1..n>> \in StrictSubsetOrdering(Nat)
      BY <2>1 DEF StrictSubsetOrdering
    <2> QED
      BY <1>2, <1>3, <2>1, <2>2
  <1> QED
    BY <1>4

(***************************************************************************)
(* months_until_affordable answers the first month that can be paid, and   *)
(* None only when none can.                                                *)
(***************************************************************************)
LEMMA FirstMonth ==
    ASSUME NEW p, NEW path, NEW f
    PROVE  LET first == months_until_affordable(p, path, f)
               Paid(m) == is_affordable(p, path[m], f, m)
           IN  \/ first = None /\ \A m \in 0..Horizon : ~Paid(m)
               \/ /\ first \in 0..Horizon
                  /\ Paid(first)
                  /\ \A m \in 0..Horizon : Paid(m) => first <= m
  <1> DEFINE first == months_until_affordable(p, path, f)
             Paid(m) == is_affordable(p, path[m], f, m)
             T == {m \in 0..Horizon : Paid(m)}
  <1>1. Horizon \in Nat
    BY AffordabilityAssumption
  <1>2. CASE T = {}
    BY <1>2 DEF months_until_affordable
  <1>3. CASE T # {}
    <2>1. T \in SUBSET Nat
      BY <1>1
    <2>2. PICK n \in T : \A m \in T : n <= m
      <3> HIDE DEF T
      <3> QED
        BY <1>3, <2>1, LeastNat
    <2> DEFINE Q(m) == Paid(m) /\ \A j \in 0..m - 1 : ~Paid(j)
    <2>3. n \in 0..Horizon /\ Q(n)
      <3>1. n \in 0..Horizon /\ Paid(n)
        BY <2>2
      <3>2. ASSUME NEW j \in 0..n - 1
            PROVE  ~Paid(j)
        <4>1. j \in 0..Horizon /\ ~(n <= j)
          BY <1>1, <3>1
        <4> QED
          BY <2>2, <4>1
      <3> QED
        BY <3>1, <3>2
    <2>4. first = CHOOSE m \in 0..Horizon : Q(m)
      BY <1>3 DEF months_until_affordable
    <2>5. first \in 0..Horizon /\ Q(first)
      <3> HIDE DEF Q, first
      <3> QED
        BY <2>3, <2>4
    <2>6. ASSUME NEW m \in 0..Horizon, Paid(m)
          PROVE  first <= m
      <3> HIDE DEF first
      <3>1. SUFFICES ASSUME m \in 0..first - 1
                     PROVE  FALSE
        BY <1>1, <2>5
      <3> QED
        BY <2>5, <2>6, <3>1
    <2> QED
      BY <2>5, <2>6
  <1> QED
    BY <1>2, <1>3
(***************************************************************************)
(* A listing at today's price: months_until_affordable answers the first   *)
(* month at which the capital covers the cash to close.                    *)
(***************************************************************************)
LEMMA MonthsAwayIsFirst ==
    ASSUME NEW p, NEW l
    PROVE  LET months == MonthsAway(p, l)
               Paid(m) == is_affordable(p, l.price, Financeable(l), m)
           IN  \/ months = None /\ \A m \in 0..Horizon : ~Paid(m)
               \/ /\ months \in 0..Horizon
                  /\ Paid(months)
                  /\ \A m \in 0..Horizon : Paid(m) => months <= m
  <1> DEFINE path == [m \in 0..Horizon |-> l.price]
             f == Financeable(l)
  <1>1. \A m \in 0..Horizon : path[m] = l.price
    OBVIOUS
  <1>2. MonthsAway(p, l) = months_until_affordable(p, path, f)
    BY DEF MonthsAway
  <1> HIDE DEF path, f
  <1>3. LET first == months_until_affordable(p, path, f)
            Paid(m) == is_affordable(p, path[m], f, m)
        IN  \/ first = None /\ \A m \in 0..Horizon : ~Paid(m)
            \/ /\ first \in 0..Horizon
               /\ Paid(first)
               /\ \A m \in 0..Horizon : Paid(m) => first <= m
    BY FirstMonth
  <1> QED
    BY <1>1, <1>2, <1>3 DEF f
-------------------------------------------------------------------------------
(***************************************************************************)
(* Every state is of its kind.                                             *)
(*                                                                         *)
(* A change of one listing, when the new row is one the table can hold.    *)
(***************************************************************************)
LEMMA ChangeTyped ==
    ASSUME TypeOK, NEW k \in Ids, NEW new \in Listing, Change(k, new)
    PROVE  TypeOK'
  <1>1. listings' \in [Ids -> Listing]
    BY DEF Change, TypeOK
  <1>2. /\ DOMAIN report' = DOMAIN report
        /\ report'.at = report.at
        /\ report'.profile = report.profile
    BY DEF Change, Stirred, TypeOK, NoReport
  <1> QED
    BY <1>1, <1>2 DEF Change, TypeOK, NoReport

(***************************************************************************)
(* The rows that the actions of the market leave.                          *)
(***************************************************************************)
LEMMA RowsTyped ==
    ASSUME TypeOK, NEW k \in Ids
    PROVE  /\ \A c \in Prices : Priced(listings[k], c) \in Listing
           /\ [listings[k] EXCEPT !.corridor = ~@] \in Listing
           /\ \A tags \in TagSets : [listings[k] EXCEPT !.tags = tags] \in Listing
           /\ \A r \in Readings : [listings[k] EXCEPT !.reading = r] \in Listing
           /\ \A d \in Postings : [listings[k] EXCEPT !.posted = d] \in Listing
  <1> DEFINE l == listings[k]
  <1>1. l \in Listing
    BY DEF TypeOK
  <1>2. today \in Nat
    BY DEF TypeOK
  <1> HIDE DEF l
  <1>3. ASSUME NEW c \in Prices
        PROVE  Priced(l, c) \in Listing
    <2>1. [old |-> l.price, new |-> c, day |-> today] \in Event
      BY <1>1, <1>2 DEF Listing, Event
    <2>2. Append(l.events, [old |-> l.price, new |-> c, day |-> today]) \in Seq(Event)
      BY <1>1, <2>1 DEF Listing
    <2> QED
      BY <1>1, <2>2 DEF Priced, Listing
  <1>4. [l EXCEPT !.corridor = ~@] \in Listing
    BY <1>1 DEF Listing
  <1>5. \A tags \in TagSets : [l EXCEPT !.tags = tags] \in Listing
    BY <1>1 DEF Listing
  <1>6. \A r \in Readings : [l EXCEPT !.reading = r] \in Listing
    BY <1>1 DEF Listing
  <1>7. \A d \in Postings : [l EXCEPT !.posted = d] \in Listing
    BY <1>1 DEF Listing
  <1> QED
    BY <1>3, <1>4, <1>5, <1>6, <1>7 DEF l

(***************************************************************************)
(* A month's contribution keeps the reserve within the portfolio.          *)
(***************************************************************************)
LEMMA SavingKeepsProfile ==
    ASSUME NEW p \in Profile
    PROVE  [p EXCEPT !.liquid = @ + p.monthly] \in Profile
  <1>1. /\ p.liquid \in Nat /\ p.reserved \in Nat /\ p.monthly \in Nat
        /\ p.reserved <= p.liquid
    BY DEF Profile
  <1>2. p.liquid + p.monthly \in Nat /\ p.reserved <= p.liquid + p.monthly
    BY <1>1
  <1> QED
    BY <1>2 DEF Profile

(***************************************************************************)
(* Whatever saves, moves, is scored or is read, the profile is one         *)
(* __post_init__ accepts and the listings are rows of the table.           *)
(***************************************************************************)
THEOREM TypeCorrect == Spec => []TypeOK
  <1>1. Init => TypeOK
    <2> SUFFICES ASSUME Init
                 PROVE  TypeOK
      OBVIOUS
    <2>1. profile \in Profile /\ listings \in [Ids -> Listing]
      BY BriefingAssumption DEF Init
    <2> QED
      BY <2>1 DEF Init, TypeOK, NoReport
  <1>2. TypeOK /\ [Next]_vars => TypeOK'
    <2> SUFFICES ASSUME TypeOK, [Next]_vars
                 PROVE  TypeOK'
      OBVIOUS
    <2>1. ASSUME NEW k \in Ids,
                 Reprice(k) \/ Relocate(k) \/ Tag(k) \/ Extract(k) \/ Date(k)
          PROVE  TypeOK'
      <3>1. PICK new \in Listing : Change(k, new)
        BY <2>1, RowsTyped DEF Reprice, Relocate, Tag, Extract, Date
      <3> QED
        BY <3>1, ChangeTyped
    <2>2. ASSUME NEW k \in Ids, Leave(k)
          PROVE  TypeOK'
      <3>1. live' \subseteq Ids
        BY <2>2 DEF Leave, TypeOK
      <3>2. /\ DOMAIN report' = DOMAIN report
            /\ report'.at = report.at
            /\ report'.profile = report.profile
        BY <2>2 DEF Leave, Stirred, TypeOK, NoReport
      <3> QED
        BY <2>2, <3>1, <3>2 DEF Leave, TypeOK, NoReport
    <2>3. CASE Tick
      <3>1. profile' \in Profile
        BY <2>3, SavingKeepsProfile DEF Tick, TypeOK
      <3>2. today' \in Nat
        BY <2>3, BriefingAssumption DEF Tick, TypeOK
      <3> QED
        BY <2>3, <3>1, <3>2 DEF Tick, TypeOK, NoReport
    <2>4. CASE Score
      <3>1. /\ DOMAIN report' = DOMAIN report
            /\ report'.at = report.at
            /\ report'.profile = report.profile
        BY <2>4 DEF Score, Stirred, TypeOK, NoReport
      <3> QED
        BY <2>4, <3>1 DEF Score, TypeOK, NoReport
    <2>5. CASE ReadTop
      BY <2>5 DEF ReadTop, TypeOK, NoReport
    <2>6. CASE ReadWatchlist
      BY <2>6 DEF ReadWatchlist, TypeOK, NoReport
    <2>7. CASE ReadPlan
      BY <2>7 DEF ReadPlan, TypeOK, NoReport
    <2>8. CASE UNCHANGED vars
      BY <2>8 DEF vars, TypeOK, NoReport
    <2> QED
      BY <2>1, <2>2, <2>3, <2>4, <2>5, <2>6, <2>7, <2>8 DEF Next
  <1> QED
    BY <1>1, <1>2, PTL DEF Spec

-------------------------------------------------------------------------------
(***************************************************************************)
(* The capital and the ladder.                                             *)
(*                                                                         *)
(* The ceiling the briefing prints can be paid, at every moment.           *)
(***************************************************************************)
THEOREM CeilingStaysAffordable == Spec => []CeilingIsAffordable
  <1>1. TypeOK => CeilingIsAffordable
    <2>1. \A m \in 0..Horizon : m \in Nat
      BY AffordabilityAssumption
    <2> QED
      BY <2>1, CeilingAffordable DEF TypeOK, CeilingIsAffordable
  <1> QED
    BY <1>1, TypeCorrect, PTL

(***************************************************************************)
(* The ceiling is the highest price that can be paid, outside the gaps, at *)
(* every moment.                                                           *)
(***************************************************************************)
THEOREM CeilingStaysHighest == Spec => []CeilingIsHighestInSlab
  <1>1. TypeOK => CeilingIsHighestInSlab
    <2> SUFFICES ASSUME TypeOK, NEW f \in BOOLEAN, NEW c \in Prices,
                        Payable(c, f), ~InAGap(f)
                 PROVE  c <= max_price_for(profile, f, 0)
      BY DEF CeilingIsHighestInSlab
    <2>1. PICK s \in 1..3 : FallsIn(profile, f, deployable_at(profile, 0), s)
      BY DEF InAGap
    <2>2. c \in Nat /\ profile \in Profile
      BY BriefingAssumption DEF TypeOK
    <2> QED
      BY <2>1, <2>2, CeilingHighest DEF Payable
  <1> QED
    BY <1>1, TypeCorrect, PTL

(***************************************************************************)
(* What a priced listing takes in cash is an amount of money.              *)
(***************************************************************************)
LEMMA CashType ==
    ASSUME NEW p \in Profile, NEW l, l.price \in Nat
    PROVE  Cash(p, l) \in Nat
  <1> DEFINE f == Financeable(l)
             price == l.price
             share == CashShare(p, f, Slab(price))
  <1>1. f \in BOOLEAN
    BY DEF Financeable, is_financeable
  <1>2. Slab(price) \in 1..3
    BY DEF Slab
  <1>3. share \in Nat
    BY <1>1, <1>2, ShareType
  <1>4. price * share \in Nat
    <2> HIDE DEF share
    <2> QED
      BY <1>3
  <1>5. (price * share) \div Scale \in Nat
    <2> HIDE DEF price, share
    <2> QED
      BY <1>4, DivDown DEF Scale
  <1> QED
    BY <1>5 DEF Cash, cash_needed

(***************************************************************************)
(* What takes no more cash can be paid no later.                           *)
(***************************************************************************)
LEMMA CheaperIsSooner ==
    ASSUME NEW p \in Profile, NEW l, NEW r, l.price \in Nat, r.price \in Nat,
           Cash(p, l) <= Cash(p, r)
    PROVE  ~Sooner(MonthsAway(p, r), MonthsAway(p, l))
  <1> DEFINE a == MonthsAway(p, l)
             b == MonthsAway(p, r)
             PaidL(m) == is_affordable(p, l.price, Financeable(l), m)
             PaidR(m) == is_affordable(p, r.price, Financeable(r), m)
  <1>1. \/ a = None /\ \A m \in 0..Horizon : ~PaidL(m)
        \/ a \in 0..Horizon /\ PaidL(a) /\ \A m \in 0..Horizon : PaidL(m) => a <= m
    BY MonthsAwayIsFirst
  <1>2. \/ b = None /\ \A m \in 0..Horizon : ~PaidR(m)
        \/ b \in 0..Horizon /\ PaidR(b) /\ \A m \in 0..Horizon : PaidR(m) => b <= m
    BY MonthsAwayIsFirst
  <1>3. ASSUME NEW m \in 0..Horizon, PaidR(m)
        PROVE  PaidL(m)
    <2>1. deployable_at(p, m) \in Nat
      BY AffordabilityAssumption, DeployableType
    <2>2. Cash(p, r) <= deployable_at(p, m)
      BY <1>3 DEF is_affordable, Cash
    <2>3. Cash(p, l) <= deployable_at(p, m)
      BY <2>1, <2>2, CashType
    <2>4. l.price # None
      BY AffordabilityAssumption
    <2> QED
      BY <2>3, <2>4 DEF is_affordable, Cash
  <1> SUFFICES ASSUME Sooner(b, a)
               PROVE  FALSE
    OBVIOUS
  <1> HIDE DEF a, b, PaidL, PaidR
  <1>4. b # None
    BY DEF Sooner
  <1>5. b \in 0..Horizon /\ PaidL(b)
    BY <1>2, <1>3, <1>4
  <1>6. a \in 0..Horizon /\ a <= b
    BY <1>1, <1>5
  <1>7. a # None
    BY <1>6, AffordabilityAssumption
  <1> QED
    BY <1>5, <1>6, <1>7 DEF Sooner

(***************************************************************************)
(* A candidate has a price, and the candidates are finitely many.          *)
(***************************************************************************)
LEMMA CandidatesPriced ==
    ASSUME TypeOK
    PROVE  /\ IsFiniteSet(Candidates(listings, live))
           /\ \A k \in Candidates(listings, live) :
                k \in Ids /\ k \in live /\ listings[k].price \in Nat
  <1>1. ASSUME NEW k \in Candidates(listings, live)
        PROVE  k \in Ids /\ k \in live /\ listings[k].price \in Nat
    <2>1. k \in live /\ listings[k].price # None
      BY DEF Candidates
    <2>2. k \in Ids /\ listings[k] \in Listing
      BY <2>1 DEF TypeOK
    <2>3. listings[k].price \in Prices
      BY <2>1, <2>2 DEF Listing
    <2> QED
      BY <2>1, <2>2, <2>3, BriefingAssumption
  <1>2. Candidates(listings, live) \subseteq 1..Count
    BY <1>1 DEF Ids
  <1>3. IsFiniteSet(1..Count)
    BY BriefingAssumption, FS_Interval
  <1> QED
    BY <1>1, <1>2, <1>3, FS_Subset

(***************************************************************************)
(* A rung takes no more cash than a candidate left off: whatever is ahead  *)
(* of a cheaper candidate is ahead of the dearer rung as well.             *)
(***************************************************************************)
LEMMA RungsAreCheapest ==
    ASSUME TypeOK, NEW k \in Rungs(profile, listings, live),
           NEW j \in Candidates(listings, live) \ Rungs(profile, listings, live),
           listings[j].city = listings[k].city
    PROVE  Cash(profile, listings[k]) <= Cash(profile, listings[j])
  <1> DEFINE All == Candidates(listings, live)
             C(i) == Cash(profile, listings[i])
             Before(i) == Ahead(profile, listings, live, i)
  <1>1. IsFiniteSet(All) /\ \A i \in All : C(i) \in Nat
    BY CandidatesPriced, CashType DEF TypeOK
  <1>2. /\ k \in All /\ Cardinality(Before(k)) < per_market
        /\ j \in All /\ ~(Cardinality(Before(j)) < per_market)
    BY DEF Rungs
  <1>3. ASSUME NEW i \in All
        PROVE  Before(i) = {n \in All : /\ listings[n].city = listings[i].city
                                        /\ C(n) < C(i) \/ (C(n) = C(i) /\ n < i)}
    BY DEF Ahead
  <1> SUFFICES ASSUME C(j) < C(k)
               PROVE  FALSE
    <2>1. C(j) \in Nat /\ C(k) \in Nat
      BY <1>1, <1>2
    <2> QED
      BY <2>1
  <1> HIDE DEF All, C, Before
  <1>4. Before(j) \subseteq Before(k)
    <2> SUFFICES ASSUME NEW i \in Before(j)
                 PROVE  i \in Before(k)
      OBVIOUS
    <2>1. i \in All /\ C(i) \in Nat /\ C(j) \in Nat /\ C(k) \in Nat
      BY <1>1, <1>2, <1>3
    <2>2. C(i) <= C(j) /\ listings[i].city = listings[j].city
      BY <1>2, <1>3, <2>1
    <2>3. C(i) < C(k)
      BY <2>1, <2>2
    <2> QED
      BY <1>2, <1>3, <2>1, <2>2, <2>3
  <1>5. IsFiniteSet(Before(k))
    <2>1. Before(k) \subseteq All
      BY <1>2, <1>3
    <2> QED
      BY <1>1, <2>1, FS_Subset
  <1>6. /\ Cardinality(Before(j)) \in Nat
        /\ Cardinality(Before(k)) \in Nat
        /\ Cardinality(Before(j)) <= Cardinality(Before(k))
    BY <1>4, <1>5, FS_Subset, FS_CardinalityType
  <1> QED
    BY <1>2, <1>6, PlanAssumption

(***************************************************************************)
(* The ladder starts at the lowest real bar: no candidate left off can be  *)
(* afforded before a rung of its city, at every moment.                    *)
(***************************************************************************)
THEOREM LadderStaysSoonest == Spec => []LadderIsSoonest
  <1>1. TypeOK => LadderIsSoonest
    <2> SUFFICES ASSUME TypeOK, NEW k \in Rungs(profile, listings, live),
                        NEW j \in Candidates(listings, live)
                                    \ Rungs(profile, listings, live),
                        listings[j].city = listings[k].city
                 PROVE  ~Sooner(MonthsAway(profile, listings[j]),
                                MonthsAway(profile, listings[k]))
      BY DEF LadderIsSoonest
    <2>1. Cash(profile, listings[k]) <= Cash(profile, listings[j])
      BY RungsAreCheapest
    <2>2. listings[k].price \in Nat /\ listings[j].price \in Nat
      BY CandidatesPriced DEF Rungs
    <2> QED
      BY <2>1, <2>2, CheaperIsSooner DEF TypeOK
  <1> QED
    BY <1>1, TypeCorrect, PTL
-------------------------------------------------------------------------------
(***************************************************************************)
(* The sections.                                                           *)
(*                                                                         *)
(* A ranking of a finite set is a sequence of all its members, the best    *)
(* first.                                                                  *)
(***************************************************************************)
LEMMA RankingListsAll ==
    ASSUME NEW S, IsFiniteSet(S), NEW order \in Rankings(S)
    PROVE  /\ order \in Seq(S)
           /\ Range(order) = S
           /\ \A m, n \in 1..Len(order) :
                m < n => scores[order[m]] >= scores[order[n]]
  <1> DEFINE c == Cardinality(S)
  <1>1. c \in Nat
    BY FS_CardinalityType
  <1>2. /\ order \in [1..c -> S]
        /\ \A i, j \in 1..c : i # j => order[i] # order[j]
        /\ \A m, n \in DOMAIN order : m < n => scores[order[m]] >= scores[order[n]]
    BY DEF Rankings, SetToSeqs
  <1>3. IsFiniteSet(1..c) /\ Cardinality(1..c) = c
    BY <1>1, FS_Interval
  <1>4. order \in Injection(1..c, S)
    BY <1>2 DEF Injection, IsInjective
  <1>5. order \in Surjection(1..c, S)
    BY <1>3, <1>4, FS_Injection
  <1> HIDE DEF c
  <1>6. order \in Seq(S) /\ Len(order) = c
    BY <1>1, <1>2
  <1>7. Range(order) = S
    BY <1>2, <1>5 DEF Range, Surjection
  <1> QED
    BY <1>2, <1>6, <1>7

(***************************************************************************)
(* The first n of a sequence, or all of it where there are fewer.          *)
(***************************************************************************)
LEMMA FirstTakes ==
    ASSUME NEW S, NEW s \in Seq(S), NEW n \in Nat
    PROVE  /\ First(n, s) \in Seq(S)
           /\ Len(First(n, s)) = AtMost(n, Len(s))
           /\ Len(First(n, s)) <= Len(s)
           /\ \A i \in 1..Len(First(n, s)) : First(n, s)[i] = s[i]
  <1> DEFINE c == AtMost(n, Len(s))
  <1>1. c \in Nat /\ c <= Len(s)
    BY DEF AtMost
  <1>2. First(n, s) = SubSeq(s, 1, c)
    BY DEF First
  <1> HIDE DEF c
  <1>3. SubSeq(s, 1, c) = [i \in 1..c |-> s[i]]
    BY <1>1
  <1>4. SubSeq(s, 1, c) \in Seq(S) /\ Len(SubSeq(s, 1, c)) = c
    BY <1>1, <1>3
  <1> QED
    BY <1>1, <1>2, <1>3, <1>4 DEF c

(***************************************************************************)
(* The listings that have a score are finitely many.                       *)
(***************************************************************************)
LEMMA ScoredFinite ==
    ASSUME TypeOK, NEW S \in SUBSET Scored
    PROVE  IsFiniteSet(S)
  <1>1. S \in SUBSET (1..Count)
    BY DEF Scored, TypeOK, Ids
  <1>2. IsFiniteSet(1..Count)
    BY BriefingAssumption, FS_Interval
  <1> QED
    BY <1>1, <1>2, FS_Subset

(***************************************************************************)
(* What the opportunities are when latest_scores returns: listings that    *)
(* the profile can fund, and of those it can fund the best.                *)
(***************************************************************************)
BestNow(p, top) ==
    /\ \A k \in Range(top) : k \in Scored /\ Affordable(p, k)
    /\ \A k \in Scored \ Range(top) :
         Affordable(p, k) =>
             /\ Len(top) = TOP_N
             /\ \A j \in Range(top) : scores[j] >= scores[k]

(***************************************************************************)
(* The first TOP_N of a ranking of what can be funded are the best.        *)
(***************************************************************************)
LEMMA FirstAreBest ==
    ASSUME TypeOK, NEW p, NEW order \in Rankings({k \in Scored : Affordable(p, k)})
    PROVE  BestNow(p, First(TOP_N, order))
  <1> DEFINE S == {k \in Scored : Affordable(p, k)}
             top == First(TOP_N, order)
  <1>1. IsFiniteSet(S)
    BY ScoredFinite
  <1>2. \A k : k \in S <=> k \in Scored /\ Affordable(p, k)
    OBVIOUS
  <1>3. order \in Rankings(S)
    OBVIOUS
  <1> HIDE DEF S
  <1>4. /\ order \in Seq(S)
        /\ Range(order) = S
        /\ \A m, n \in 1..Len(order) : m < n => scores[order[m]] >= scores[order[n]]
    BY <1>1, <1>3, RankingListsAll
  <1>5. TOP_N \in Nat
    BY BriefingAssumption
  <1>6. /\ top \in Seq(S)
        /\ Len(top) = AtMost(TOP_N, Len(order))
        /\ Len(top) <= Len(order)
        /\ \A i \in 1..Len(top) : top[i] = order[i]
    BY <1>4, <1>5, FirstTakes
  <1> HIDE DEF top
  <1>7. ASSUME NEW k \in Range(top)
        PROVE  k \in Scored /\ Affordable(p, k)
    <2>1. k \in S
      BY <1>6 DEF Range
    <2> QED
      BY <1>2, <2>1
  <1>8. ASSUME NEW k \in Scored \ Range(top), Affordable(p, k)
        PROVE  /\ Len(top) = TOP_N
               /\ \A j \in Range(top) : scores[j] >= scores[k]
    <2>1. k \in Range(order)
      BY <1>2, <1>4, <1>8
    <2>2. PICK n \in 1..Len(order) : k = order[n]
      BY <1>4, <2>1 DEF Range
    <2>3. ~(n <= Len(top))
      <3> SUFFICES ASSUME n <= Len(top)
                   PROVE  FALSE
        OBVIOUS
      <3>1. n \in 1..Len(top)
        BY <1>4, <1>6
      <3>2. k = top[n] /\ n \in DOMAIN top
        BY <1>6, <2>2, <3>1
      <3> QED
        BY <3>2 DEF Range
    <2>4. Len(order) \in Nat /\ Len(top) \in Nat
      BY <1>4, <1>6
    <2>5. Len(top) = TOP_N
      BY <1>5, <1>6, <2>3, <2>4 DEF AtMost
    <2>6. ASSUME NEW j \in Range(top)
          PROVE  scores[j] >= scores[k]
      <3>1. PICK i \in 1..Len(top) : j = top[i]
        BY <1>6 DEF Range
      <3>2. i \in 1..Len(order) /\ i < n
        BY <1>6, <2>3, <2>4
      <3>3. j = order[i]
        BY <1>6, <3>1
      <3> QED
        BY <1>4, <2>2, <3>2, <3>3
    <2> QED
      BY <2>5, <2>6
  <1> QED
    BY <1>7, <1>8 DEF BestNow, top

-------------------------------------------------------------------------------
(***************************************************************************)
(* The inductive invariant of a briefing that is being built: as long as   *)
(* nothing has moved, the opportunities are still the best, what the       *)
(* second query saw is still so, and each section that was read agrees     *)
(* with those read before it.                                              *)
(***************************************************************************)
TopIsBest == report.at = "top" /\ ~report.moved => BestNow(report.profile, report.top)

SeenIsNow == report.at = "watched" /\ ~report.moved =>
    report.seen = [k \in Scored |-> Glance(k)]

SeenIsBest == report.at \in {"watched", "built"} /\ ~report.moved =>
    /\ \A k \in Range(report.top) : report.seen[k].fundable
    /\ \A k \in DOMAIN report.seen \ Range(report.top) :
         report.seen[k].fundable =>
             /\ Len(report.top) = TOP_N
             /\ \A j \in Range(report.top) : report.seen[j].score >= report.seen[k].score

LadderIsHonest == Built /\ ~report.moved /\ report.top = <<>> =>
    \A k \in DOMAIN report.ladder : report.ladder[k] = 0 => k \notin DOMAIN report.seen

IInv == SectionsAgree /\ TopIsBest /\ SeenIsNow /\ SeenIsBest /\ LadderIsHonest
(***************************************************************************)
(* Nothing of the invariant is disturbed by a step that moves the market:  *)
(* it sets the mark, and the rest of the report stays.                     *)
(***************************************************************************)
LEMMA StirredKeeps ==
    ASSUME TypeOK, IInv, report' = Stirred
    PROVE  IInv'
  <1>1. CASE Building
    <2>1. report' = [report EXCEPT !.moved = TRUE]
      BY <1>1 DEF Stirred
    <2>2. /\ report'.moved
          /\ report'.at = report.at
          /\ report'.top = report.top
          /\ report'.watchlist = report.watchlist
      BY <2>1 DEF TypeOK, NoReport
    <2>3. SectionsAgree'
      BY <2>2 DEF IInv, SectionsAgree
    <2>4. TopIsBest' /\ SeenIsNow' /\ SeenIsBest' /\ LadderIsHonest'
      BY <2>2 DEF TopIsBest, SeenIsNow, SeenIsBest, LadderIsHonest
    <2> QED
      BY <2>3, <2>4 DEF IInv
  <1>2. CASE ~Building
    <2>1. report' = report
      BY <1>2 DEF Stirred
    <2>2. report.at # "top" /\ report.at # "watched"
      BY <1>2 DEF Building
    <2>3. SectionsAgree' /\ SeenIsBest' /\ LadderIsHonest'
      BY <2>1 DEF IInv, SectionsAgree, SeenIsBest, LadderIsHonest, Built
    <2>4. TopIsBest' /\ SeenIsNow'
      BY <2>1, <2>2 DEF TopIsBest, SeenIsNow
    <2> QED
      BY <2>3, <2>4 DEF IInv
  <1> QED
    BY <1>1, <1>2

(***************************************************************************)
(* Nor by a step that leaves the report and what it was read from alone.   *)
(***************************************************************************)
LEMMA UnreadKeeps ==
    ASSUME IInv, UNCHANGED <<report, listings, live, scores>>
    PROVE  IInv'
  <1>1. SectionsAgree' /\ SeenIsBest' /\ LadderIsHonest'
    BY DEF IInv, SectionsAgree, SeenIsBest, LadderIsHonest, Built
  <1>2. TopIsBest'
    BY DEF IInv, TopIsBest, BestNow, Scored, Affordable
  <1>3. SeenIsNow'
    BY DEF IInv, SeenIsNow, Scored, Glance, Affordable
  <1> QED
    BY <1>1, <1>2, <1>3 DEF IInv

(***************************************************************************)
(* The opportunities are read.                                             *)
(***************************************************************************)
LEMMA TopKeeps ==
    ASSUME TypeOK, IInv, ReadTop
    PROVE  IInv'
  <1>1. PICK order \in Rankings({k \in Scored : Affordable(profile, k)}) :
          report' = [NoReport EXCEPT !.at = "top", !.profile = profile,
                                     !.top = First(TOP_N, order)]
    BY DEF ReadTop
  <1>2. /\ report'.at = "top"
        /\ report'.profile = profile
        /\ report'.top = First(TOP_N, order)
    BY <1>1 DEF NoReport
  <1>3. BestNow(profile, First(TOP_N, order))
    BY FirstAreBest
  <1>4. UNCHANGED <<listings, live, scores>>
    BY DEF ReadTop
  <1>5. BestNow(report.profile, report.top)'
    BY <1>2, <1>3, <1>4 DEF BestNow, Scored, Affordable
  <1>6. TopIsBest'
    BY <1>5 DEF TopIsBest
  <1>7. SectionsAgree' /\ SeenIsNow' /\ SeenIsBest' /\ LadderIsHonest'
    BY <1>2 DEF SectionsAgree, SeenIsNow, SeenIsBest, LadderIsHonest, Built
  <1> QED
    BY <1>6, <1>7 DEF IInv

(***************************************************************************)
(* A row that is watched is at least a month away: what can be paid today  *)
(* belongs to the opportunities.                                           *)
(***************************************************************************)
LEMMA WatchedIsAhead ==
    ASSUME NEW k, Watched(k)
    PROVE  /\ k \notin Range(report.top)
           /\ MonthsAway(report.profile, listings[k]) \in 1..WATCHLIST_MONTHS
  <1> DEFINE months == MonthsAway(report.profile, listings[k])
             Paid(m) == is_affordable(report.profile, listings[k].price,
                                      Financeable(listings[k]), m)
  <1>1. months # None /\ months <= WATCHLIST_MONTHS /\ ~Paid(0)
    BY DEF Watched, Affordable
  <1>2. \/ months = None /\ \A m \in 0..Horizon : ~Paid(m)
        \/ /\ months \in 0..Horizon
           /\ Paid(months)
           /\ \A m \in 0..Horizon : Paid(m) => months <= m
    BY MonthsAwayIsFirst
  <1> HIDE DEF months, Paid
  <1>3. months \in 0..Horizon /\ months # 0
    BY <1>1, <1>2
  <1>4. months \in 1..WATCHLIST_MONTHS
    BY <1>1, <1>3, BriefingAssumption, AffordabilityAssumption
  <1> QED
    BY <1>4 DEF months, Watched

(***************************************************************************)
(* The watchlist is read.                                                  *)
(***************************************************************************)
LEMMA WatchlistKeeps ==
    ASSUME TypeOK, IInv, ReadWatchlist
    PROVE  IInv'
  <1> DEFINE Seen == [k \in Scored |-> Glance(k)]
  <1>1. PICK order \in Rankings(Scored) :
          \E rows \in Rankings({k \in Range(First(SCANNED, order)) : Watched(k)}) :
            report' = [report EXCEPT
                         !.at = "watched",
                         !.watchlist = [n \in DOMAIN First(WATCHLIST_N, rows) |-> Row(rows[n])],
                         !.seen = Seen]
    BY DEF ReadWatchlist
  <1> DEFINE W == {k \in Range(First(SCANNED, order)) : Watched(k)}
  <1>2. PICK rows \in Rankings(W) :
          report' = [report EXCEPT
                       !.at = "watched",
                       !.watchlist = [n \in DOMAIN First(WATCHLIST_N, rows) |-> Row(rows[n])],
                       !.seen = Seen]
    BY <1>1
  <1> DEFINE shown == First(WATCHLIST_N, rows)
  <1>3. /\ report.at = "top"
        /\ UNCHANGED <<listings, live, scores>>
    BY DEF ReadWatchlist
  <1>4. /\ report'.at = "watched"
        /\ report'.moved = report.moved
        /\ report'.profile = report.profile
        /\ report'.top = report.top
        /\ report'.watchlist = [n \in DOMAIN shown |-> Row(rows[n])]
        /\ report'.seen = Seen
    <2> HIDE DEF shown, Seen
    <2> QED
      BY <1>2 DEF TypeOK, NoReport, shown, Seen
  <1>5. SectionsAgree'
    <2>1. IsFiniteSet(W)
      <3>1. order \in Seq(Scored)
        BY ScoredFinite, RankingListsAll
      <3>2. First(SCANNED, order) \in Seq(Scored)
        BY <3>1, BriefingAssumption, FirstTakes
      <3>3. W \in SUBSET Scored
        BY <3>2 DEF Range
      <3> QED
        BY <3>3, ScoredFinite
    <2>2. \A k \in W : Watched(k)
      OBVIOUS
    <2> HIDE DEF W, shown
    <2>3. rows \in Seq(W)
      BY <2>1, RankingListsAll
    <2>4. DOMAIN shown \subseteq DOMAIN rows
      <3>1. shown \in Seq(W) /\ Len(shown) <= Len(rows)
        BY <2>3, BriefingAssumption, FirstTakes DEF shown
      <3> QED
        BY <2>3, <3>1
    <2>5. ASSUME NEW n \in DOMAIN report'.watchlist
          PROVE  /\ report'.watchlist[n].id \notin Range(report'.top)
                 /\ report'.watchlist[n].months \in 1..WATCHLIST_MONTHS
      <3>1. n \in DOMAIN shown /\ report'.watchlist[n] = Row(rows[n])
        BY <1>4
      <3>2. rows[n] \in W
        BY <2>3, <2>4, <3>1
      <3>3. Watched(rows[n])
        BY <2>2, <3>2
      <3>4. /\ rows[n] \notin Range(report.top)
            /\ MonthsAway(report.profile, listings[rows[n]]) \in 1..WATCHLIST_MONTHS
        BY <3>3, WatchedIsAhead
      <3> QED
        BY <1>4, <3>1, <3>4 DEF Row
    <2> QED
      BY <2>5 DEF SectionsAgree
  <1>6. SeenIsNow'
    BY <1>3, <1>4 DEF SeenIsNow, Scored, Glance, Affordable
  <1>7. SeenIsBest'
    <2> SUFFICES ASSUME ~report.moved
                 PROVE  SeenIsBest'
      BY <1>4 DEF SeenIsBest
    <2>1. BestNow(report.profile, report.top)
      BY <1>3 DEF IInv, TopIsBest
    <2>2. /\ DOMAIN Seen = Scored
          /\ \A k \in Scored : /\ Seen[k].score = scores[k]
                               /\ Seen[k].fundable = Affordable(report.profile, k)
      BY DEF Glance
    <2> HIDE DEF Seen
    <2>3. \A k \in Range(report.top) : Seen[k].fundable
      BY <2>1, <2>2 DEF BestNow
    <2>4. \A k \in DOMAIN Seen \ Range(report.top) :
            Seen[k].fundable =>
                /\ Len(report.top) = TOP_N
                /\ \A j \in Range(report.top) : Seen[j].score >= Seen[k].score
      BY <2>1, <2>2 DEF BestNow
    <2> QED
      BY <1>4, <2>3, <2>4 DEF SeenIsBest
  <1>8. TopIsBest' /\ LadderIsHonest'
    BY <1>4 DEF TopIsBest, LadderIsHonest, Built
  <1> QED
    BY <1>5, <1>6, <1>7, <1>8 DEF IInv

(***************************************************************************)
(* The ladder is read: a rung that is due now can be funded, so that if it *)
(* has a score it is among the opportunities, unless those are full.       *)
(***************************************************************************)
LEMMA PlanKeeps ==
    ASSUME TypeOK, IInv, ReadPlan
    PROVE  IInv'
  <1> DEFINE ladder == Ladder(report.profile, listings, live)
  <1>1. /\ report.at = "watched"
        /\ report' = [report EXCEPT !.at = "built",
                                    !.ladder = ladder,
                                    !.drops = {k \in Ids : Dropped(k)}]
    BY DEF ReadPlan
  <1>2. /\ report'.at = "built"
        /\ report'.moved = report.moved
        /\ report'.top = report.top
        /\ report'.watchlist = report.watchlist
        /\ report'.seen = report.seen
        /\ report'.ladder = ladder
    <2> HIDE DEF ladder
    <2> QED
      BY <1>1 DEF TypeOK, NoReport
  <1>3. SectionsAgree'
    BY <1>1, <1>2 DEF IInv, SectionsAgree
  <1>4. SeenIsBest'
    BY <1>1, <1>2 DEF IInv, SeenIsBest
  <1>5. LadderIsHonest'
    <2> SUFFICES ASSUME ~report.moved, report.top = <<>>,
                        NEW k \in DOMAIN ladder, ladder[k] = 0, k \in DOMAIN report.seen
                 PROVE  FALSE
      BY <1>2 DEF LadderIsHonest
    <2>1. report.seen = [i \in Scored |-> Glance(i)]
      BY <1>1 DEF IInv, SeenIsNow
    <2>2. k \in Scored /\ report.seen[k].fundable = Affordable(report.profile, k)
      BY <2>1 DEF Glance
    <2>3. MonthsAway(report.profile, listings[k]) = 0
      BY DEF Ladder
    <2>4. 0 # None
      BY AffordabilityAssumption
    <2>5. Affordable(report.profile, k)
      BY <2>3, <2>4, MonthsAwayIsFirst DEF Affordable
    <2>6. Range(report.top) = {} /\ Len(report.top) = 0
      BY DEF Range
    <2>7. Len(report.top) = TOP_N
      BY <1>1, <2>2, <2>5, <2>6 DEF IInv, SeenIsBest
    <2> QED
      BY <2>6, <2>7, BriefingAssumption
  <1>6. TopIsBest' /\ SeenIsNow'
    BY <1>2 DEF TopIsBest, SeenIsNow
  <1> QED
    BY <1>3, <1>4, <1>5, <1>6 DEF IInv

(***************************************************************************)
(* The invariant holds at every moment.                                    *)
(***************************************************************************)
LEMMA Consistent == Spec => []IInv
  <1>1. Init => IInv
    BY DEF Init, NoReport, IInv, SectionsAgree, TopIsBest, SeenIsNow, SeenIsBest,
           LadderIsHonest, Built
  <1>2. TypeOK /\ IInv /\ [Next]_vars => IInv'
    <2> SUFFICES ASSUME TypeOK, IInv, [Next]_vars
                 PROVE  IInv'
      OBVIOUS
    <2>1. ASSUME NEW k \in Ids,
                 Reprice(k) \/ Relocate(k) \/ Tag(k) \/ Extract(k) \/ Date(k)
          PROVE  IInv'
      <3>1. report' = Stirred
        BY <2>1 DEF Reprice, Relocate, Tag, Extract, Date, Change
      <3> QED
        BY <3>1, StirredKeeps
    <2>2. ASSUME NEW k \in Ids, Leave(k)
          PROVE  IInv'
      BY <2>2, StirredKeeps DEF Leave
    <2>3. CASE Tick
      BY <2>3, UnreadKeeps DEF Tick
    <2>4. CASE Score
      BY <2>4, StirredKeeps DEF Score
    <2>5. CASE ReadTop
      BY <2>5, TopKeeps
    <2>6. CASE ReadWatchlist
      BY <2>6, WatchlistKeeps
    <2>7. CASE ReadPlan
      BY <2>7, PlanKeeps
    <2>8. CASE UNCHANGED vars
      BY <2>8, UnreadKeeps DEF vars
    <2> QED
      BY <2>1, <2>2, <2>3, <2>4, <2>5, <2>6, <2>7, <2>8 DEF Next
  <1> QED
    BY <1>1, <1>2, TypeCorrect, PTL DEF Spec

(***************************************************************************)
(* The sections of a briefing agree, whatever moved while it was built.    *)
(***************************************************************************)
THEOREM SectionsStayInAgreement == Spec => []SectionsAgree
  <1>1. IInv => SectionsAgree
    BY DEF IInv
  <1> QED
    BY <1>1, Consistent, PTL

(***************************************************************************)
(* A briefing during which nothing moved shows the best that can be        *)
(* funded, and a ladder without opportunities above it names as due now    *)
(* only what was never scored.                                             *)
(***************************************************************************)
THEOREM BestAreShown == Spec => []BestFundableShown
  <1>1. IInv => BestFundableShown
    BY DEF IInv, SeenIsBest, LadderIsHonest, BestFundableShown, Built
  <1> QED
    BY <1>1, Consistent, PTL

-------------------------------------------------------------------------------
(***************************************************************************)
(* The Deal Score moves the right way.                                     *)
(*                                                                         *)
(* A finite, nonempty set of naturals has a greatest member: those above   *)
(* it are the smallest of the sets of those above some member.             *)
(***************************************************************************)
LEMMA GreatestNat ==
    ASSUME NEW T \in SUBSET Nat, IsFiniteSet(T), T # {}
    PROVE  \E n \in T : \A m \in T : m <= n
  <1> DEFINE Above(n) == {m \in T : n < m}
             U == {Above(n) : n \in T}
  <1>1. U \subseteq FiniteSubsetsOf(Nat) /\ U # {}
    <2>1. ASSUME NEW n \in T
          PROVE  Above(n) \in FiniteSubsetsOf(Nat)
      <3>1. IsFiniteSet(Above(n))
        BY FS_Subset
      <3> QED
        BY <3>1 DEF FiniteSubsetsOf
    <2> QED
      BY <2>1
  <1>2. PICK x \in U : \A y \in U : ~(<<y, x>> \in StrictSubsetOrdering(Nat))
    <2> HIDE DEF U
    <2> QED
      BY <1>1, FS_StrictSubsetOrderingWellFounded, WFMin
  <1>3. PICK n \in T : x = Above(n)
    OBVIOUS
  <1>4. ASSUME NEW m \in T, ~(m <= n)
        PROVE  FALSE
    <2>1. Above(m) \in U
      OBVIOUS
    <2>2. Above(m) \subseteq Above(n) /\ m \in Above(n) /\ m \notin Above(m)
      <3>1. m \in Nat /\ n \in Nat /\ n < m
        BY <1>4
      <3>2. \A j \in T : m < j => n < j
        BY <3>1
      <3>3. Above(m) \subseteq Above(n)
        BY <3>2
      <3>4. m \in Above(n)
        BY <3>1
      <3>5. m \notin Above(m)
        BY <3>1
      <3> QED
        BY <3>3, <3>4, <3>5
    <2>3. <<Above(m), Above(n)>> \in StrictSubsetOrdering(Nat)
      <3>1. Above(m) \in SUBSET Nat /\ Above(n) \in SUBSET Nat
        OBVIOUS
      <3> HIDE DEF Above
      <3> QED
        BY <2>2, <3>1 DEF StrictSubsetOrdering
    <2> QED
      BY <1>2, <1>3, <2>1, <2>3
  <1> QED
    BY <1>4

(***************************************************************************)
(* A positive factor can be left out of a comparison.                      *)
(***************************************************************************)
LEMMA Cancelled ==
    ASSUME NEW x \in Int, NEW y \in Int, NEW b \in Nat \ {0}, x * b <= y * b
    PROVE  x <= y
  <1> SUFFICES ASSUME y + 1 <= x
               PROVE  FALSE
    OBVIOUS
  <1>1. (y + 1) * b <= x * b
    OBVIOUS
  <1>2. (y + 1) * b = y * b + b
    OBVIOUS
  <1>3. y * b \in Int /\ x * b \in Int
    OBVIOUS
  <1> QED
    BY <1>1, <1>2, <1>3

(***************************************************************************)
(* A quotient rounded down is the greatest number its divisor goes into    *)
(* the dividend.                                                           *)
(***************************************************************************)
LEMMA DivInt ==
    ASSUME NEW a \in Int, NEW b \in Nat \ {0}
    PROVE  /\ a \div b \in Int
           /\ (a \div b) * b <= a
           /\ a < ((a \div b) + 1) * b
  OBVIOUS

(***************************************************************************)
(* Fractions compare as their quotients rounded down do.                   *)
(***************************************************************************)
LEMMA DivCross ==
    ASSUME NEW a \in Int, NEW b \in Nat \ {0}, NEW c \in Int, NEW d \in Nat \ {0},
           a * d <= c * b
    PROVE  a \div b <= c \div d
  <1> DEFINE q == a \div b
             e == c \div d
  <1>1. q \in Int /\ q * b <= a
    BY DivInt
  <1>2. e \in Int /\ c < (e + 1) * d
    BY DivInt
  <1> HIDE DEF q, e
  <1>3. (q * d) * b <= c * b
    <2>1. (q * b) * d <= a * d
      BY <1>1
    <2>2. (q * b) * d = (q * d) * b
      BY <1>1
    <2>3. (q * d) * b \in Int /\ a * d \in Int /\ c * b \in Int
      BY <1>1
    <2> QED
      BY <2>1, <2>2, <2>3
  <1>4. q * d <= c
    BY <1>1, <1>3, Cancelled
  <1>5. q <= e
    <2>1. q * d <= (e + 1) * d
      BY <1>1, <1>2, <1>4
    <2>2. q <= e + 1
      BY <1>1, <1>2, <2>1, Cancelled
    <2>3. q # e + 1
      BY <1>2, <1>4
    <2> QED
      BY <1>1, <1>2, <2>2, <2>3
  <1> QED
    BY <1>5 DEF q, e

(***************************************************************************)
(* Over one divisor, the larger dividend gives the larger quotient.        *)
(***************************************************************************)
LEMMA DivMonotone ==
    ASSUME NEW a \in Int, NEW c \in Int, NEW b \in Nat \ {0}, a <= c
    PROVE  a \div b <= c \div b
  <1>1. a * b <= c * b
    OBVIOUS
  <1> QED
    BY <1>1, DivCross

(***************************************************************************)
(* Products of larger naturals are larger.                                 *)
(***************************************************************************)
LEMMA ProductMonotone ==
    ASSUME NEW a \in Nat, NEW b \in Nat, NEW c \in Nat, NEW d \in Nat, a <= b, c <= d
    PROVE  a * c \in Nat /\ b * d \in Nat /\ a * c <= b * d
  <1>1. a * c <= a * d
    BY TimesMonotone
  <1>2. a * d <= b * d
    OBVIOUS
  <1>3. a * c \in Nat /\ a * d \in Nat /\ b * d \in Nat
    OBVIOUS
  <1> QED
    BY <1>1, <1>2, <1>3

(***************************************************************************)
(* Clamping keeps the order, and leaves a share.                           *)
(***************************************************************************)
LEMMA ClampedMonotone ==
    ASSUME NEW a \in Int, NEW b \in Int, a <= b
    PROVE  /\ Clamped(a) \in 0..Scale /\ Clamped(b) \in 0..Scale
           /\ Clamped(a) <= Clamped(b)
  BY DEF Clamped, AtMost, AtLeastZero, Scale

(***************************************************************************)
(* A value is no more than another: both abstain, or both are shares and   *)
(* the second is no smaller.  A value is no more than itself exactly when  *)
(* it is a share or abstains.                                              *)
(***************************************************************************)
NoMore(v, w) == \/ v = None /\ w = None
                \/ v \in 0..Scale /\ w \in 0..Scale /\ v <= w

(***************************************************************************)
(* The parts of a mean fit when they are shares of what they cover, and a  *)
(* sum is under another when it covers as much and has no larger a total.  *)
(***************************************************************************)
Fits(a)     == a.covered \in Nat /\ a.total \in Nat /\ a.total <= Scale * a.covered
Under(a, b) == Fits(a) /\ Fits(b) /\ a.covered = b.covered /\ a.total <= b.total

(***************************************************************************)
(* A part of the mean: the same weight, of a value that is no more.        *)
(***************************************************************************)
LEMMA PartUnder ==
    ASSUME NEW w \in Nat, NEW u, NEW v, NoMore(u, v)
    PROVE  Under(Part(w, u), Part(w, v))
  <1>1. CASE u = None /\ v = None
    BY <1>1 DEF Under, Fits, Part, Scale
  <1>2. CASE u \in 0..10000 /\ v \in 0..10000 /\ u <= v
    <2>1. u # None /\ v # None
      BY <1>2, AffordabilityAssumption
    <2>2. w * u \in Nat /\ w * v \in Nat /\ w * u <= w * v /\ w * v <= 10000 * w
      <3>1. w * v <= w * 10000
        BY <1>2
      <3>2. w * u <= w * v
        BY <1>2
      <3> QED
        BY <1>2, <3>1, <3>2
    <2> QED
      BY <2>1, <2>2 DEF Under, Fits, Part, Scale
  <1> QED
    BY <1>1, <1>2 DEF NoMore, Scale

(***************************************************************************)
(* Sums of parts compare as the parts do.                                  *)
(***************************************************************************)
LEMMA PlusUnder ==
    ASSUME NEW a, NEW b, NEW c, NEW d, Under(a, b), Under(c, d)
    PROVE  Under(a ++ c, b ++ d)
  BY DEF Under, Fits, ++, Scale

(***************************************************************************)
(* The mean keeps the order of its parts.                                  *)
(***************************************************************************)
LEMMA RenormalisedNoMore ==
    ASSUME NEW a, NEW b, Under(a, b)
    PROVE  NoMore(Renormalised(a), Renormalised(b))
  <1> DEFINE n == a.covered
             s == a.total
             t == b.total
  <1>1. n \in Nat /\ s \in Nat /\ t \in Nat /\ s <= t /\ t <= 10000 * n /\ b.covered = n
    BY DEF Under, Fits, Scale
  <1>2. CASE n = 0
    BY <1>1, <1>2 DEF Renormalised, NoMore
  <1>3. CASE n # 0
    <2>1. Renormalised(a) = s \div n /\ Renormalised(b) = t \div n
      BY <1>1, <1>3 DEF Renormalised
    <2> HIDE DEF n, s, t
    <2>2. s \div n <= t \div n
      BY <1>1, <1>3, DivMonotone
    <2>3. s \div n \in Nat /\ t \div n \in Nat
      BY <1>1, <1>3, DivDown
    <2>4. t \div n <= 10000
      BY <1>1, <1>3, DivBound
    <2>5. s \div n \in 0..10000 /\ t \div n \in 0..10000
      <3> DEFINE x == s \div n
                 y == t \div n
      <3> HIDE DEF x, y
      <3>1. x \in Nat /\ y \in Nat /\ x <= y /\ y <= 10000
        BY <2>2, <2>3, <2>4 DEF x, y
      <3>2. x \in 0..10000 /\ y \in 0..10000
        BY <3>1
      <3> QED
        BY <3>2 DEF x, y
    <2> QED
      BY <2>1, <2>2, <2>5 DEF NoMore, Scale
  <1> QED
    BY <1>2, <1>3

(***************************************************************************)
(* A score is no more than another whose factors are no less.              *)
(***************************************************************************)
LEMMA ScoreNoMore ==
    ASSUME NEW p, NEW l, NEW rates, NEW now, NEW q, NEW m, NEW others, NEW later,
           NoMore(legal_risk(l), legal_risk(m)),
           NoMore(capital_fit(p, l), capital_fit(q, m)),
           NoMore(price_vs_locality(l, rates), price_vs_locality(m, others)),
           NoMore(thesis_fit(l), thesis_fit(m)),
           NoMore(distress(l, now), distress(m, later)),
           NoMore(seller_motivation(l), seller_motivation(m))
    PROVE  NoMore(score_listing(p, l, rates, now), score_listing(q, m, others, later))
  <1> DEFINE A1 == Part(30, legal_risk(l))
             A2 == Part(25, capital_fit(p, l))
             A3 == Part(15, price_vs_locality(l, rates))
             A4 == Part(12, thesis_fit(l))
             A5 == Part(10, distress(l, now))
             A6 == Part(8, seller_motivation(l))
             B1 == Part(30, legal_risk(m))
             B2 == Part(25, capital_fit(q, m))
             B3 == Part(15, price_vs_locality(m, others))
             B4 == Part(12, thesis_fit(m))
             B5 == Part(10, distress(m, later))
             B6 == Part(8, seller_motivation(m))
  <1>1. /\ Under(A1, B1) /\ Under(A2, B2) /\ Under(A3, B3)
        /\ Under(A4, B4) /\ Under(A5, B5) /\ Under(A6, B6)
    BY PartUnder
  <1>2. /\ score_listing(p, l, rates, now) = Renormalised(A1 ++ A2 ++ A3 ++ A4 ++ A5 ++ A6)
        /\ score_listing(q, m, others, later)
             = Renormalised(B1 ++ B2 ++ B3 ++ B4 ++ B5 ++ B6)
    BY DEF score_listing, Decomposed, WEIGHTS
  <1> HIDE DEF A1, A2, A3, A4, A5, A6, B1, B2, B3, B4, B5, B6
  <1>3. Under(A1 ++ A2 ++ A3, B1 ++ B2 ++ B3)
    BY <1>1, PlusUnder
  <1>4. Under(A1 ++ A2 ++ A3 ++ A4, B1 ++ B2 ++ B3 ++ B4)
    BY <1>1, <1>3, PlusUnder
  <1>5. Under(A1 ++ A2 ++ A3 ++ A4 ++ A5, B1 ++ B2 ++ B3 ++ B4 ++ B5)
    BY <1>1, <1>4, PlusUnder
  <1>6. Under(A1 ++ A2 ++ A3 ++ A4 ++ A5 ++ A6, B1 ++ B2 ++ B3 ++ B4 ++ B5 ++ B6)
    BY <1>1, <1>5, PlusUnder
  <1> QED
    BY <1>2, <1>6, RenormalisedNoMore

(***************************************************************************)
(* The k-th of the sorted rates is the least number that k of them are no  *)
(* larger than.                                                            *)
(***************************************************************************)
LEMMA UpToFinite ==
    ASSUME NEW rates \in Seq(Nat), NEW r
    PROVE  /\ IsFiniteSet(UpTo(rates, r))
           /\ Cardinality(UpTo(rates, r)) \in Nat
           /\ Cardinality(UpTo(rates, r)) <= Len(rates)
  <1>1. UpTo(rates, r) \subseteq 1..Len(rates) /\ Len(rates) \in Nat
    BY DEF UpTo
  <1>2. IsFiniteSet(1..Len(rates)) /\ Cardinality(1..Len(rates)) = Len(rates)
    <2> DEFINE n == Len(rates)
    <2> HIDE DEF n
    <2>1. n \in Nat
      BY <1>1 DEF n
    <2>2. IsFiniteSet(1..n) /\ Cardinality(1..n) = n
      <3>1. IsFiniteSet(1..n) /\ Cardinality(1..n) = IF 1 > n THEN 0 ELSE n - 1 + 1
        BY <2>1, FS_Interval
      <3> QED
        BY <2>1, <3>1
    <2> QED
      BY <2>2 DEF n
  <1>3. /\ IsFiniteSet(UpTo(rates, r))
        /\ Cardinality(UpTo(rates, r)) <= Cardinality(1..Len(rates))
    BY <1>1, <1>2, FS_Subset
  <1> QED
    BY <1>2, <1>3, FS_CardinalityType

(***************************************************************************)
(* No fewer rates are up to a larger number.                               *)
(***************************************************************************)
LEMMA UpToGrows ==
    ASSUME NEW rates \in Seq(Nat), NEW r \in Nat, NEW s \in Nat, r <= s
    PROVE  Cardinality(UpTo(rates, r)) <= Cardinality(UpTo(rates, s))
  <1>1. UpTo(rates, r) \subseteq UpTo(rates, s)
    <2> SUFFICES ASSUME NEW n \in DOMAIN rates, rates[n] <= r
                 PROVE  rates[n] <= s
      BY DEF UpTo
    <2>1. rates[n] \in Nat
      OBVIOUS
    <2> QED
      BY <2>1
  <1> QED
    BY <1>1, UpToFinite, FS_Subset

(***************************************************************************)
(* Kth is that least number, and it is one of the rates.                   *)
(***************************************************************************)
LEMMA KthIsLeast ==
    ASSUME NEW rates \in Seq(Nat), NEW k \in 1..Len(rates)
    PROVE  /\ Kth(rates, k) \in Range(rates)
           /\ Kth(rates, k) \in Nat
           /\ k <= Cardinality(UpTo(rates, Kth(rates, k)))
           /\ \A s \in Nat : k <= Cardinality(UpTo(rates, s)) => Kth(rates, k) <= s
  <1> DEFINE N(s) == Cardinality(UpTo(rates, s))
             T == {s \in Nat : k <= N(s)}
  <1>1. Range(rates) \subseteq Nat /\ Len(rates) \in Nat /\ DOMAIN rates = 1..Len(rates)
    BY DEF Range
  <1>2. \A s : N(s) \in Nat
    BY UpToFinite
  <1>3. T # {}
    <2>1. IsFiniteSet(Range(rates)) /\ Range(rates) # {}
      <3>1. IsFiniteSet(DOMAIN rates)
        BY <1>1, FS_Interval
      <3>2. rates \in Surjection(DOMAIN rates, Range(rates))
        BY <1>1 DEF Surjection, Range
      <3> QED
        BY <1>1, <3>1, <3>2, FS_Surjection DEF Range
    <2>2. PICK top \in Range(rates) : \A s \in Range(rates) : s <= top
      BY <1>1, <2>1, GreatestNat
    <2>3. UpTo(rates, top) = 1..Len(rates)
      BY <1>1, <2>2 DEF UpTo, Range
    <2>4. N(top) = Len(rates)
      BY <1>1, <2>3, FS_Interval
    <2> QED
      BY <1>1, <2>2, <2>4
  <1>4. PICK r \in T : \A s \in T : r <= s
    <2> HIDE DEF T
    <2>1. T \in SUBSET Nat
      BY DEF T
    <2> QED
      BY <1>3, <2>1, LeastNat
  <1>5. r \in Nat /\ k <= N(r) /\ \A s \in Nat : k <= N(s) => r <= s
    BY <1>4
  <1> HIDE DEF T
  <1>6. r \in Range(rates)
    <2> SUFFICES ASSUME r \notin Range(rates)
                 PROVE  FALSE
      OBVIOUS
    <2>1. r # 0
      <3> SUFFICES ASSUME r = 0
                   PROVE  FALSE
        OBVIOUS
      <3>1. ASSUME NEW n \in DOMAIN rates
            PROVE  ~(rates[n] <= 0)
        <4>1. rates[n] \in Nat /\ rates[n] # 0
          BY DEF Range
        <4> QED
          BY <4>1
      <3>2. UpTo(rates, 0) = {}
        BY <3>1 DEF UpTo
      <3>3. k <= Cardinality({})
        BY <1>5, <3>2
      <3>4. k <= 0
        BY <3>3, FS_EmptySet
      <3> QED
        BY <3>4
    <2>2. r - 1 \in Nat /\ ~(r <= r - 1)
      BY <1>5, <2>1
    <2>3. UpTo(rates, r) = UpTo(rates, r - 1)
      <3>1. ASSUME NEW n \in DOMAIN rates
            PROVE  rates[n] <= r <=> rates[n] <= r - 1
        <4>1. rates[n] \in Nat /\ rates[n] # r
          BY DEF Range
        <4> QED
          BY <1>5, <4>1
      <3> QED
        BY <3>1 DEF UpTo
    <2> QED
      BY <1>5, <2>2, <2>3
  <1> DEFINE Q(x) == /\ k <= Cardinality(UpTo(rates, x))
                     /\ \A s \in Range(rates) : k <= Cardinality(UpTo(rates, s)) => x <= s
  <1>7. Q(r)
    BY <1>1, <1>5
  <1>8. Kth(rates, k) \in Range(rates) /\ Q(Kth(rates, k))
    <2>1. Kth(rates, k) = CHOOSE x \in Range(rates) : Q(x)
      BY DEF Kth
    <2> HIDE DEF Q
    <2> QED
      BY <1>6, <1>7, <2>1
  <1>9. Kth(rates, k) = r
    <2> DEFINE x == Kth(rates, k)
    <2> HIDE DEF x
    <2>1. x \in Nat /\ k <= N(x) /\ x <= r
      BY <1>1, <1>5, <1>6, <1>8 DEF x
    <2>2. r <= x
      BY <1>5, <2>1
    <2> QED
      BY <1>5, <2>1, <2>2 DEF x
  <1> QED
    BY <1>5, <1>6, <1>9

(***************************************************************************)
(* Rates as they were, but for those that have moved from high to low.     *)
(***************************************************************************)
Falls(rates, others, high, low) ==
    /\ Len(others) = Len(rates)
    /\ \A n \in 1..Len(rates) : \/ others[n] = rates[n]
                                \/ rates[n] = high /\ others[n] = low

(***************************************************************************)
(* When some of the rates move down from high to low, the k-th of them     *)
(* either stays, or the move crosses it: it was at most high, and is at    *)
(* least low.                                                              *)
(***************************************************************************)
LEMMA KthFalls ==
    ASSUME NEW rates \in Seq(Nat), NEW others \in Seq(Nat),
           NEW high \in Nat, NEW low \in Nat, low <= high,
           Falls(rates, others, high, low), NEW k \in 1..Len(rates)
    PROVE  \/ Kth(others, k) = Kth(rates, k)
           \/ low <= Kth(others, k) /\ Kth(rates, k) <= high
  <1> DEFINE A(s) == Cardinality(UpTo(rates, s))
             B(s) == Cardinality(UpTo(others, s))
             a == Kth(rates, k)
             b == Kth(others, k)
  <1>1. Len(others) = Len(rates) /\ DOMAIN rates = 1..Len(rates) /\ DOMAIN others = 1..Len(rates)
    BY DEF Falls
  <1>2. a \in Nat /\ k <= A(a) /\ \A s \in Nat : k <= A(s) => a <= s
    BY KthIsLeast
  <1>3. b \in Nat /\ k <= B(b) /\ \A s \in Nat : k <= B(s) => b <= s
    BY <1>1, KthIsLeast
  <1>4. ASSUME NEW s \in Nat, s < low \/ high <= s
        PROVE  A(s) = B(s)
    <2>1. ASSUME NEW n \in 1..Len(rates)
          PROVE  rates[n] <= s <=> others[n] <= s
      <3>1. CASE others[n] = rates[n]
        BY <3>1
      <3>2. CASE rates[n] = high /\ others[n] = low
        BY <1>4, <3>2
      <3> QED
        BY <3>1, <3>2 DEF Falls
    <2>2. UpTo(rates, s) = UpTo(others, s)
      BY <1>1, <2>1 DEF UpTo
    <2> QED
      BY <2>2
  <1>5. \A r \in Nat : \A s \in Nat : r <= s => A(r) <= A(s) /\ B(r) <= B(s)
    BY UpToGrows
  <1>6. \A s : A(s) \in Nat /\ B(s) \in Nat
    BY UpToFinite
  <1> HIDE DEF A, B, a, b
  <1>7. SUFFICES ASSUME a # b
                 PROVE  low <= b /\ a <= high
    BY DEF a, b
  <1>8. k \in Nat
    OBVIOUS
  <1>9. a <= high
    <2> SUFFICES ASSUME high < a
                 PROVE  FALSE
      BY <1>2
    <2>1. ~(k <= A(high))
      BY <1>2
    <2>2. b <= a
      <3>1. A(a) = B(a)
        BY <1>2, <1>4
      <3> QED
        BY <1>2, <1>3, <3>1
    <2>3. CASE high <= b
      <3>1. A(b) = B(b)
        BY <1>3, <1>4, <2>3
      <3>2. a <= b
        BY <1>2, <1>3, <3>1
      <3> QED
        BY <1>2, <1>3, <1>7, <2>2, <3>2
    <2>4. CASE b < high
      <3>1. A(high) = B(high) /\ B(b) <= B(high)
        BY <1>3, <1>4, <1>5, <2>4
      <3> QED
        BY <1>3, <1>6, <1>8, <2>1, <3>1
    <2> QED
      BY <1>3, <2>3, <2>4
  <1>10. low <= b
    <2> SUFFICES ASSUME b < low
                 PROVE  FALSE
      BY <1>3
    <2>1. A(b) = B(b)
      BY <1>3, <1>4
    <2>2. a <= b
      BY <1>2, <1>3, <2>1
    <2>3. A(a) = B(a)
      BY <1>2, <1>3, <1>4, <2>2
    <2>4. b <= a
      BY <1>2, <1>3, <2>3
    <2> QED
      BY <1>2, <1>3, <1>7, <2>2, <2>4
  <1> QED
    BY <1>9, <1>10

(***************************************************************************)
(* The median of positive rates is positive: the two places in the middle  *)
(* are among them.                                                         *)
(***************************************************************************)
LEMMA MiddleType ==
    ASSUME NEW n \in Nat, n >= 1
    PROVE  n \div 2 + 1 \in 1..n /\ (n + 1) \div 2 \in 1..n
  <1> DEFINE h == n \div 2
             g == (n + 1) \div 2
  <1>1. h \in Nat /\ 2 * h <= n /\ g \in Nat /\ 2 * g <= n + 1 /\ n < 2 * g + 1
    OBVIOUS
  <1> HIDE DEF h, g
  <1>2. h + 1 \in 1..n /\ g \in 1..n
    BY <1>1
  <1> QED
    BY <1>2 DEF h, g

(***************************************************************************)
(* The median of positive rates is positive.                               *)
(***************************************************************************)
LEMMA MedianType ==
    ASSUME NEW rates \in Seq(Nat \ {0}), Len(rates) >= 1
    PROVE  TwiceMedian(rates) \in Nat \ {0}
  <1>1. Len(rates) \in Nat /\ rates \in Seq(Nat) /\ Range(rates) \subseteq Nat \ {0}
    BY DEF Range
  <1>2. Len(rates) \div 2 + 1 \in 1..Len(rates) /\ (Len(rates) + 1) \div 2 \in 1..Len(rates)
    BY <1>1, MiddleType
  <1>3. /\ Kth(rates, Len(rates) \div 2 + 1) \in Nat \ {0}
        /\ Kth(rates, (Len(rates) + 1) \div 2) \in Nat \ {0}
    BY <1>1, <1>2, KthIsLeast
  <1> QED
    BY <1>3 DEF TwiceMedian

(***************************************************************************)
(* A rate that falls does so no less than in proportion to the median it   *)
(* is part of.                                                             *)
(***************************************************************************)

(***************************************************************************)
(* So the median falls by no larger a share than the rate that moved did:  *)
(* relative to its median, the rate that moved is no higher.               *)
(***************************************************************************)
LEMMA MedianFalls ==
    ASSUME NEW rates \in Seq(Nat \ {0}), NEW others \in Seq(Nat \ {0}), Len(rates) >= 1,
           NEW high \in Nat, NEW low \in Nat, low <= high, Falls(rates, others, high, low)
    PROVE  low * TwiceMedian(rates) <= high * TwiceMedian(others)
  <1> DEFINE i == Len(rates) \div 2 + 1
             j == (Len(rates) + 1) \div 2
  <1>1. /\ Len(rates) \in Nat /\ Len(others) = Len(rates)
        /\ rates \in Seq(Nat) /\ others \in Seq(Nat)
    BY DEF Falls
  <1>2. i \in 1..Len(rates) /\ j \in 1..Len(rates)
    BY <1>1, MiddleType
  <1> HIDE DEF i, j
  <1>3. ASSUME NEW k \in 1..Len(rates)
        PROVE  /\ Kth(rates, k) \in Nat /\ Kth(others, k) \in Nat
               /\ low * Kth(rates, k) <= high * Kth(others, k)
    <2> DEFINE a == Kth(rates, k)
               b == Kth(others, k)
    <2>1. a \in Nat /\ b \in Nat
      BY <1>1, KthIsLeast
    <2>2. b = a \/ (low <= b /\ a <= high)
      BY <1>1, KthFalls
    <2> HIDE DEF a, b
    <2>3. low * a <= high * b
      <3>1. CASE b = a
        BY <2>1, <3>1, ProductMonotone
      <3>2. CASE low <= b /\ a <= high
        <4>1. low * a <= b * high
          BY <2>1, <3>2, ProductMonotone
        <4>2. b * high = high * b
          BY <2>1
        <4> QED
          BY <4>1, <4>2
      <3> QED
        BY <2>2, <3>1, <3>2
    <2> QED
      BY <2>1, <2>3 DEF a, b
  <1> DEFINE a == Kth(rates, i)
             c == Kth(rates, j)
             b == Kth(others, i)
             d == Kth(others, j)
  <1>4. /\ a \in Nat /\ b \in Nat /\ c \in Nat /\ d \in Nat
        /\ low * a <= high * b /\ low * c <= high * d
    BY <1>2, <1>3
  <1>5. TwiceMedian(rates) = a + c /\ TwiceMedian(others) = b + d
    BY <1>1 DEF TwiceMedian, i, j
  <1> HIDE DEF a, b, c, d
  <1>6. low * (a + c) = low * a + low * c /\ high * (b + d) = high * b + high * d
    BY <1>4
  <1>7. low * a \in Nat /\ low * c \in Nat /\ high * b \in Nat /\ high * d \in Nat
    BY <1>4
  <1> QED
    BY <1>4, <1>5, <1>6, <1>7

(***************************************************************************)
(* The rate per area is positive, and falls with the price.                *)
(***************************************************************************)
LEMMA RateType ==
    ASSUME NEW l, l.area \in Nat, l.price = None \/ (l.price \in Nat \ {0} /\ l.area <= 1000 * l.price)
    PROVE  Rate(l) = None \/ Rate(l) \in Nat \ {0}
  <1>1. CASE l.price = None \/ l.area = 0
    BY <1>1 DEF Rate
  <1>2. CASE l.price # None /\ l.area # 0
    <2> DEFINE n == 1000 * l.price
               d == l.area
    <2>1. n \in Nat /\ d \in Nat \ {0} /\ d <= n
      BY <1>2
    <2>2. Rate(l) = n \div d
      BY <1>2 DEF Rate
    <2> HIDE DEF n, d
    <2>3. n \div d \in Nat
      BY <2>1, DivDown
    <2>4. n \div d # 0
      <3> DEFINE q == n \div d
      <3>1. n < (q + 1) * d
        BY <2>1, DivInt
      <3> HIDE DEF q
      <3>2. q # 0
        BY <2>1, <3>1
      <3> QED
        BY <3>2 DEF q
    <2> QED
      BY <2>2, <2>3, <2>4
  <1> QED
    BY <1>1, <1>2

(***************************************************************************)
(* Against a locality whose rates are the same but for those that fell     *)
(* with its own, a listing is no dearer than it was.                       *)
(***************************************************************************)
LEMMA LocalityNoMore ==
    ASSUME NEW l, NEW m, NEW rates \in Seq(Nat \ {0}), NEW others \in Seq(Nat \ {0}),
           asset_class(l.kind) = asset_class(m.kind),
           \/ Rate(l) = None /\ Rate(m) = None
           \/ /\ Rate(l) \in Nat /\ Rate(m) \in Nat /\ Rate(m) <= Rate(l)
              /\ Falls(rates, others, Rate(l), Rate(m))
    PROVE  NoMore(price_vs_locality(l, rates), price_vs_locality(m, others))
  <1>1. CASE asset_class(l.kind) = None \/ Rate(l) = None \/ ~(Len(rates) >= MIN_COMPS)
    <2>1. ~Comparable(l, rates)
      BY <1>1 DEF Comparable
    <2>2. ~Comparable(m, others)
      BY <1>1, AffordabilityAssumption DEF Comparable, Falls
    <2> QED
      BY <2>1, <2>2 DEF price_vs_locality, NoMore
  <1>2. CASE asset_class(l.kind) # None /\ Rate(l) # None /\ Len(rates) >= MIN_COMPS
    <2> DEFINE R == Rate(l)
               S == Rate(m)
               T == TwiceMedian(rates)
               U == TwiceMedian(others)
    <2>1. R \in Nat /\ S \in Nat /\ S <= R /\ Falls(rates, others, R, S)
      BY <1>2
    <2>2. Len(others) = Len(rates) /\ Len(rates) \in Nat /\ Len(rates) >= 1
      BY <1>2, <2>1, CompsAssumption DEF Falls
    <2>3. T \in Nat \ {0} /\ U \in Nat \ {0} /\ S * T <= R * U
      BY <2>1, <2>2, MedianType, MedianFalls
    <2>4. Comparable(l, rates) /\ Comparable(m, others)
      BY <1>2, <2>1, <2>2, <2>3, AffordabilityAssumption DEF Comparable
    <2>5. /\ price_vs_locality(l, rates) = Clamped(((115 * T - 200 * R) * 1000) \div (3 * T))
          /\ price_vs_locality(m, others) = Clamped(((115 * U - 200 * S) * 1000) \div (3 * U))
      BY <2>4 DEF price_vs_locality
    <2> HIDE DEF R, S, T, U
    <2> DEFINE a == (115 * T - 200 * R) * 1000
               b == 3 * T
               c == (115 * U - 200 * S) * 1000
               d == 3 * U
    <2>6. a \in Int /\ c \in Int /\ b \in Nat \ {0} /\ d \in Nat \ {0}
      BY <2>1, <2>3
    <2>7. a * d <= c * b
      <3> DEFINE x == T * U
                 y == R * U
                 z == S * T
      <3>1. x \in Nat /\ y \in Nat /\ z \in Nat /\ z <= y
        BY <2>1, <2>3
      <3>2. a * d = 345000 * x - 600000 * y
        BY <2>1, <2>3
      <3>3. c * b = 345000 * x - 600000 * z
        BY <2>1, <2>3
      <3> HIDE DEF a, b, c, d, x, y, z
      <3> QED
        BY <3>1, <3>2, <3>3
    <2>8. a \div b \in Int /\ c \div d \in Int /\ a \div b <= c \div d
      <3> HIDE DEF a, b, c, d
      <3> QED
        BY <2>6, <2>7, DivCross, DivInt
    <2>9. /\ Clamped(a \div b) \in 0..Scale /\ Clamped(c \div d) \in 0..Scale
          /\ Clamped(a \div b) <= Clamped(c \div d)
      <3> HIDE DEF a, b, c, d
      <3> QED
        BY <2>8, ClampedMonotone
    <2> QED
      BY <2>5, <2>9 DEF NoMore
  <1> QED
    BY <1>1, <1>2

(***************************************************************************)
(* The other factors.                                                      *)
(*                                                                         *)
(* Tags that are as they were, or some of them a flag that was not failed. *)
(***************************************************************************)
Statuses == DOMAIN RERA_BASE

TurnsTo(old, new) ==
    /\ DOMAIN new = DOMAIN old
    /\ \A i \in DOMAIN old : /\ old[i] \in Statuses
                             /\ new[i] = old[i] \/ (new[i] = "flag" /\ old[i] # "fail")

(***************************************************************************)
(* An item that no tag is about is unknown on both sides, and the others   *)
(* turn to a flag or stay.                                                 *)
(***************************************************************************)
LEMMA TagTurns ==
    ASSUME NEW old, NEW new, TurnsTo(old, new), NEW item
    PROVE  LET s == TagOf(old, item)
               t == TagOf(new, item)
           IN  s \in Statuses /\ (t = s \/ (t = "flag" /\ s # "fail"))
  BY DEF TurnsTo, TagOf, Statuses, RERA_BASE

(***************************************************************************)
(* A flag multiplies by no more than any other status, but for a failed    *)
(* one, does.                                                              *)
(***************************************************************************)
LEMMA MultiplierMonotone ==
    ASSUME NEW item, NEW s \in Statuses, NEW t, t = s \/ (t = "flag" /\ s # "fail")
    PROVE  /\ Multiplier(item, s) \in Nat /\ Multiplier(item, t) \in Nat
           /\ Multiplier(item, t) <= Multiplier(item, s)
  BY DEF Multiplier, Statuses, RERA_BASE

(***************************************************************************)
(* The legal factor falls when tags turn to flags, the registry's answer   *)
(* included.                                                               *)
(***************************************************************************)
LEMMA LegalNoMore ==
    ASSUME NEW l, NEW m, TurnsTo(l.tags, m.tags)
    PROVE  NoMore(legal_risk(m), legal_risk(l))
  <1>1. CASE DOMAIN l.tags = {}
    BY <1>1 DEF legal_risk, NoMore, TurnsTo
  <1>2. CASE DOMAIN l.tags # {}
    <2> DEFINE A(item) == Multiplier(item, TagOf(l.tags, item))
               B(item) == Multiplier(item, TagOf(m.tags, item))
               a == RERA_BASE[TagOf(l.tags, "rera_registered")]
               b == RERA_BASE[TagOf(m.tags, "rera_registered")]
    <2>1. \A item : A(item) \in Nat /\ B(item) \in Nat /\ B(item) <= A(item)
      BY TagTurns, MultiplierMonotone
    <2>2. a \in Nat /\ b \in Nat /\ b <= a
      <3>1. /\ TagOf(l.tags, "rera_registered") \in Statuses
            /\ \/ TagOf(m.tags, "rera_registered") = TagOf(l.tags, "rera_registered")
               \/ /\ TagOf(m.tags, "rera_registered") = "flag"
                  /\ TagOf(l.tags, "rera_registered") # "fail"
        BY TagTurns
      <3> QED
        BY <3>1 DEF Statuses, RERA_BASE
    <2> DEFINE a1 == a * A("khata_type")
               b1 == b * B("khata_type")
               a2 == a1 * A("layout_approval")
               b2 == b1 * B("layout_approval")
               a3 == a2 * A("jurisdiction")
               b3 == b2 * B("jurisdiction")
    <2>3. /\ legal_risk(l) = Clamped(a3 \div 1000)
          /\ legal_risk(m) = Clamped(b3 \div 1000)
      BY <1>2 DEF legal_risk, TurnsTo
    <2> HIDE DEF A, B, a, b
    <2>4. a1 \in Nat /\ b1 \in Nat /\ b1 <= a1
      BY <2>1, <2>2, ProductMonotone
    <2> HIDE DEF a1, b1
    <2>5. a2 \in Nat /\ b2 \in Nat /\ b2 <= a2
      BY <2>1, <2>4, ProductMonotone
    <2> HIDE DEF a2, b2
    <2>6. a3 \in Nat /\ b3 \in Nat /\ b3 <= a3
      BY <2>1, <2>5, ProductMonotone
    <2> HIDE DEF a3, b3
    <2>7. a3 \div 1000 \in Nat /\ b3 \div 1000 \in Nat /\ b3 \div 1000 <= a3 \div 1000
      BY <2>6
    <2>8. /\ Clamped(b3 \div 1000) \in 0..Scale /\ Clamped(a3 \div 1000) \in 0..Scale
          /\ Clamped(b3 \div 1000) <= Clamped(a3 \div 1000)
      BY <2>7, ClampedMonotone
    <2> QED
      BY <2>3, <2>8 DEF NoMore
  <1> QED
    BY <1>1, <1>2

(***************************************************************************)
(* A flag can only make a purchase unfinanceable.                          *)
(***************************************************************************)
LEMMA FinanceTurns ==
    ASSUME NEW l, NEW m, TurnsTo(l.tags, m.tags)
    PROVE  /\ Financeable(l) \in BOOLEAN /\ Financeable(m) \in BOOLEAN
           /\ Financeable(m) => Financeable(l)
  BY DEF TurnsTo, Financeable, is_financeable

(***************************************************************************)
(* Nearer in time is no worse, and a listing that can be paid whenever the *)
(* other can, by the owner there is, fits the capital no less.             *)
(***************************************************************************)
LEMMA BandMonotone ==
    ASSUME NEW a \in 0..Horizon, NEW b \in 0..Horizon, b <= a
    PROVE  /\ Band(a) \in 0..10000 /\ Band(b) \in 0..10000 /\ Band(a) <= Band(b)
           /\ Band(None) = 0 /\ Band(0) = 10000
  <1>1. a \in Nat /\ b \in Nat /\ a # None /\ b # None /\ 0 # None
    BY AffordabilityAssumption
  <1> QED
    BY <1>1 DEF Band

(***************************************************************************)
(* Where S and T are the months in which a price can be paid, and a and b  *)
(* the first of each, the larger set has the better band.                  *)
(***************************************************************************)
LEMMA BandsNoMore ==
    ASSUME NEW S \in SUBSET (0..Horizon), NEW T \in SUBSET (0..Horizon), S \subseteq T,
           NEW a, \/ a = None /\ S = {}
                  \/ a \in S /\ \A n \in S : a <= n,
           NEW b, \/ b = None /\ T = {}
                  \/ b \in T /\ \A n \in T : b <= n
    PROVE  NoMore(IF 0 \in S THEN Band(0) ELSE Band(a), IF 0 \in T THEN Band(0) ELSE Band(b))
  <1> DEFINE Months == 0..Horizon
             Shares == 0..10000
             x == IF 0 \in S THEN Band(0) ELSE Band(a)
             y == IF 0 \in T THEN Band(0) ELSE Band(b)
  <1>1. Horizon \in Nat /\ 0 \in Months /\ 0 \in Shares /\ 10000 \in Shares
    BY AffordabilityAssumption
  <1>2. ASSUME NEW n \in Months
        PROVE  Band(n) \in Shares /\ Band(None) = 0 /\ Band(0) = 10000
    <2>1. n <= n
      BY <1>1
    <2> QED
      BY <2>1, BandMonotone
  <1>3. ASSUME a \in S
        PROVE  a \in Months /\ b \in Months /\ Band(a) <= Band(b)
    <2>1. a \in Months /\ b \in Months /\ b <= a
      BY <1>3
    <2>2. Band(a) <= Band(b)
      BY <2>1, BandMonotone
    <2> QED
      BY <2>1, <2>2
  <1>4. a = None \/ (a \in S /\ a \in Months)
    OBVIOUS
  <1>5. b = None \/ (b \in T /\ b \in Months)
    OBVIOUS
  <1> HIDE DEF Months
  <1>6. Band(a) \in Shares /\ Band(b) \in Shares
    <2> HIDE DEF Shares
    <2> QED
      BY ONLY <1>1, <1>2, <1>4, <1>5
  <1>7. Band(None) = 0 /\ Band(0) = 10000
    BY ONLY <1>1, <1>2
  <1> DEFINE u == Band(a)
             v == Band(b)
  <1>8. u \in Nat /\ u <= 10000 /\ v \in Nat /\ v <= 10000
    <2>1. u \in 0..10000 /\ v \in 0..10000
      BY <1>6
    <2> HIDE DEF u, v
    <2> QED
      BY ONLY <2>1
  <1>9. x \in Nat /\ y \in Nat /\ x <= y /\ y <= 10000
    <2>1. CASE 0 \in T
      <3>1. y = 10000
        BY <1>7, <2>1
      <3>2. x = 10000 \/ x = u
        BY <1>7
      <3> HIDE DEF x, y, u
      <3> QED
        BY ONLY <1>8, <3>1, <3>2
    <2>2. CASE 0 \notin T
      <3>1. x = u /\ y = v
        BY <2>2
      <3>2. u = 0 \/ u <= v
        BY <1>3, <1>4, <1>7
      <3> HIDE DEF x, y, u, v
      <3> QED
        BY ONLY <1>8, <3>1, <3>2
    <2> QED
      BY <2>1, <2>2
  <1> HIDE DEF x, y
  <1>10. x \in 0..Scale /\ y \in 0..Scale /\ x <= y
    BY ONLY <1>9 DEF Scale
  <1> QED
    BY ONLY <1>10 DEF NoMore, x, y

(***************************************************************************)
(* What can be paid whenever the other can fits the capital no less.       *)
(***************************************************************************)
LEMMA CapitalNoMore ==
    ASSUME NEW p, NEW q, NEW l, NEW m,
           l.price = None <=> m.price = None,
           \A n \in 0..Horizon : is_affordable(p, l.price, Financeable(l), n)
                                   => is_affordable(q, m.price, Financeable(m), n)
    PROVE  NoMore(capital_fit(p, l), capital_fit(q, m))
  <1> DEFINE S == {n \in 0..Horizon : is_affordable(p, l.price, Financeable(l), n)}
             T == {n \in 0..Horizon : is_affordable(q, m.price, Financeable(m), n)}
             a == MonthsAway(p, l)
             b == MonthsAway(q, m)
  <1>1. CASE l.price = None
    BY <1>1 DEF capital_fit, NoMore
  <1>2. CASE l.price # None
    <2>1. S \in SUBSET (0..Horizon) /\ T \in SUBSET (0..Horizon) /\ S \subseteq T
      OBVIOUS
    <2>2. (a = None /\ S = {}) \/ (a \in S /\ \A n \in S : a <= n)
      BY MonthsAwayIsFirst
    <2>3. (b = None /\ T = {}) \/ (b \in T /\ \A n \in T : b <= n)
      BY MonthsAwayIsFirst
    <2>4. 0 \in 0..Horizon
      BY AffordabilityAssumption
    <2>5. /\ capital_fit(p, l) = IF 0 \in S THEN Band(0) ELSE Band(a)
          /\ capital_fit(q, m) = IF 0 \in T THEN Band(0) ELSE Band(b)
      BY <1>2, <2>4 DEF capital_fit
    <2> HIDE DEF S, T, a, b
    <2>6. NoMore(IF 0 \in S THEN Band(0) ELSE Band(a), IF 0 \in T THEN Band(0) ELSE Band(b))
      BY ONLY <2>1, <2>2, <2>3, BandsNoMore
    <2> QED
      BY ONLY <2>5, <2>6
  <1> QED
    BY <1>1, <1>2

(***************************************************************************)
(* The highest price of a history is the number that is one of its prices  *)
(* and no less than any.                                                   *)
(***************************************************************************)
LEMMA PeakIs ==
    ASSUME NEW events, NEW top, top \in {events[k].new : k \in DOMAIN events},
           \A k \in DOMAIN events : events[k].new \in Nat /\ events[k].new <= top
    PROVE  Peak(events) = top
  <1> DEFINE T == {events[k].new : k \in DOMAIN events}
             Q(c) == \A k \in DOMAIN events : events[k].new <= c
  <1>1. Peak(events) = CHOOSE c \in T : Q(c)
    BY DEF Peak
  <1>2. top \in T /\ Q(top)
    OBVIOUS
  <1>3. ASSUME NEW c \in T, Q(c)
        PROVE  c = top
    <2>1. c \in Nat /\ top \in Nat /\ c <= top
      OBVIOUS
    <2>2. top <= c
      BY <1>3
    <2> QED
      BY <2>1, <2>2
  <1> HIDE DEF T, Q
  <1> QED
    BY <1>1, <1>2, <1>3

(***************************************************************************)
(* The peak is one of the prices that were asked, and none was higher.     *)
(***************************************************************************)
LEMMA PeakType ==
    ASSUME NEW events \in Seq(Event), events # <<>>
    PROVE  /\ Peak(events) \in {events[k].new : k \in DOMAIN events}
           /\ Peak(events) \in Nat \ {0}
           /\ \A k \in DOMAIN events : /\ events[k].new \in Nat \ {0}
                                       /\ events[k].new <= Peak(events)
  <1> DEFINE T == {events[k].new : k \in DOMAIN events}
  <1>1. Len(events) \in Nat \ {0} /\ DOMAIN events = 1..Len(events)
    OBVIOUS
  <1>2. ASSUME NEW k \in DOMAIN events
        PROVE  events[k].new \in Prices
    <2>1. events[k] \in Event
      BY <1>1
    <2> QED
      BY <2>1 DEF Event
  <1>3. \A k \in DOMAIN events : events[k].new \in Nat \ {0}
    BY <1>2, BriefingAssumption
  <1>4. T \subseteq Nat /\ T # {} /\ IsFiniteSet(T)
    <2>1. T \subseteq Nat
      BY <1>3
    <2>2. events[1].new \in T
      BY <1>1
    <2>3. IsFiniteSet(DOMAIN events)
      BY <1>1, FS_Interval
    <2> DEFINE f == [k \in DOMAIN events |-> events[k].new]
    <2>4. f \in Surjection(DOMAIN events, T)
      BY DEF Surjection
    <2>5. IsFiniteSet(T)
      BY <2>3, <2>4, FS_Surjection
    <2> QED
      BY <2>1, <2>2, <2>5
  <1>5. PICK top \in T : \A c \in T : c <= top
    <2> HIDE DEF T
    <2> QED
      BY <1>4, GreatestNat
  <1>6. \A k \in DOMAIN events : events[k].new \in Nat /\ events[k].new <= top
    BY <1>3, <1>5
  <1>7. Peak(events) = top
    BY <1>6, PeakIs
  <1> QED
    BY <1>3, <1>5, <1>6, <1>7

(***************************************************************************)
(* The cuts can be counted.                                                *)
(***************************************************************************)
LEMMA DropsFinite ==
    ASSUME NEW events \in Seq(Event)
    PROVE  IsFiniteSet(Drops(events)) /\ Cardinality(Drops(events)) \in Nat
  <1>1. Len(events) \in Nat /\ Drops(events) \subseteq 1..Len(events)
    BY DEF Drops
  <1>2. IsFiniteSet(1..Len(events))
    BY <1>1, FS_Interval
  <1> QED
    BY <1>1, <1>2, FS_Subset, FS_CardinalityType

(***************************************************************************)
(* Two histories: the same but for a last event below where it stood, or   *)
(* the same altogether.                                                    *)
(***************************************************************************)
FallsFurther(events, longer) ==
    \/ longer = events
    \/ /\ events # <<>>
       /\ \E e \in Event : /\ longer = Append(events, e)
                           /\ e.old = Last(events).new
                           /\ e.new < e.old

(***************************************************************************)
(* One more cut leaves the peak where it was, and adds to the cuts.        *)
(***************************************************************************)
LEMMA FallKeepsPeak ==
    ASSUME NEW events \in Seq(Event), events # <<>>, NEW e \in Event,
           e.old = Last(events).new, e.new < e.old
    PROVE  LET longer == Append(events, e)
           IN  /\ Peak(longer) = Peak(events)
               /\ Last(longer) = e
               /\ Last(events).new \in Nat /\ e.new \in Nat
               /\ Drops(events) \subseteq Drops(longer)
  <1> DEFINE n == Len(events)
             longer == Append(events, e)
             top == Peak(events)
  <1>1. /\ n \in Nat \ {0} /\ n + 1 \in Nat /\ DOMAIN events = 1..n
        /\ DOMAIN longer = 1..n + 1
        /\ longer[n + 1] = e
        /\ \A k \in 1..n : k \in 1..n + 1 /\ longer[k] = events[k]
        /\ n + 1 \in 1..n + 1 /\ n \in 1..n
    OBVIOUS
  <1>2. Last(longer) = e /\ Last(events) = events[n]
    <2>1. Len(longer) = n + 1
      OBVIOUS
    <2> QED
      BY <1>1, <2>1 DEF Last
  <1>3. /\ top \in {events[k].new : k \in DOMAIN events}
        /\ top \in Nat
        /\ \A k \in 1..n : events[k].new \in Nat /\ events[k].new <= top
    BY <1>1, PeakType
  <1>4. e.new \in Nat
    BY BriefingAssumption DEF Event
  <1>5. e.new <= top
    <2>1. events[n].new \in Nat /\ events[n].new <= top /\ e.new < events[n].new
      BY <1>1, <1>2, <1>3
    <2> HIDE DEF n, top
    <2> QED
      BY <1>3, <1>4, <2>1
  <1> HIDE DEF n, longer, top
  <1>6. ASSUME NEW k \in DOMAIN longer
        PROVE  longer[k].new \in Nat /\ longer[k].new <= top
    <2>1. k \in 1..n \/ k = n + 1
      BY <1>1
    <2> QED
      BY <1>1, <1>3, <1>4, <1>5, <2>1
  <1>7. top \in {longer[k].new : k \in DOMAIN longer}
    <2>1. PICK k \in 1..n : top = events[k].new
      BY <1>1, <1>3
    <2> QED
      BY <1>1, <2>1
  <1>8. Peak(longer) = top
    BY <1>6, <1>7, PeakIs
  <1>9. Drops(events) \subseteq Drops(longer)
    BY <1>1 DEF Drops
  <1> QED
    BY <1>1, <1>2, <1>3, <1>4, <1>8, <1>9 DEF longer, top

(***************************************************************************)
(* The price is no nearer to its peak after a cut.                         *)
(***************************************************************************)
LEMMA DepthNoMore ==
    ASSUME NEW events \in Seq(Event), NEW longer, FallsFurther(events, longer)
    PROVE  NoMore(drop_depth(events), drop_depth(longer))
  <1>1. CASE events = <<>>
    BY <1>1 DEF FallsFurther, drop_depth, NoMore
  <1>2. CASE events # <<>>
    <2> DEFINE top == Peak(events)
               a == Last(events).new
               b == Last(longer).new
    <2>1. top \in Nat \ {0}
      BY <1>2, PeakType
    <2>2. /\ Peak(longer) = top /\ longer # <<>>
          /\ a \in Nat /\ b \in Nat /\ b <= a
      <3>1. CASE longer = events
        <4>1. Len(events) \in DOMAIN events
          BY <1>2
        <4>2. a \in Nat
          BY <1>2, <4>1, PeakType DEF Last
        <4> QED
          BY <1>2, <3>1, <4>2
      <3>2. ASSUME NEW e \in Event, longer = Append(events, e),
                   e.old = Last(events).new, e.new < e.old
            PROVE  /\ Peak(longer) = top /\ longer # <<>>
                   /\ a \in Nat /\ b \in Nat /\ b <= a
        <4>1. Peak(longer) = top /\ Last(longer) = e /\ a \in Nat /\ e.new \in Nat
          BY <1>2, <3>2, FallKeepsPeak
        <4>2. longer # <<>>
          BY <3>2
        <4>3. b \in Nat /\ b < a
          BY <3>2, <4>1
        <4> HIDE DEF top, a, b
        <4> QED
          BY <4>1, <4>2, <4>3
      <3> QED
        BY <3>1, <3>2 DEF FallsFurther
    <2>3. /\ drop_depth(events) = Clamped(((top - a) * 100 * Scale) \div (15 * top))
          /\ drop_depth(longer) = Clamped(((top - b) * 100 * Scale) \div (15 * top))
      BY <1>2, <2>2 DEF drop_depth
    <2> HIDE DEF top, a, b
    <2> DEFINE s == (top - a) * 100 * Scale
               t == (top - b) * 100 * Scale
               d == 15 * top
    <2>4. s \in Int /\ t \in Int /\ s <= t /\ d \in Nat \ {0}
      BY <2>1, <2>2 DEF Scale
    <2> HIDE DEF s, t, d
    <2>5. s \div d \in Int /\ t \div d \in Int /\ s \div d <= t \div d
      BY <2>4, DivMonotone, DivInt
    <2>6. NoMore(Clamped(s \div d), Clamped(t \div d))
      BY <2>5, ClampedMonotone DEF NoMore
    <2> QED
      BY <2>3, <2>6 DEF s, t, d
  <1> QED
    BY <1>1, <1>2

(***************************************************************************)
(* A cut is counted with those before it.                                  *)
(***************************************************************************)
LEMMA RepetitionNoMore ==
    ASSUME NEW events \in Seq(Event), NEW longer, FallsFurther(events, longer)
    PROVE  NoMore(drop_repetition(events), drop_repetition(longer))
  <1>1. CASE events = <<>>
    BY <1>1 DEF FallsFurther, drop_repetition, NoMore
  <1>2. CASE events # <<>>
    <2> DEFINE a == Cardinality(Drops(events))
               b == Cardinality(Drops(longer))
    <2>1. longer \in Seq(Event) /\ longer # <<>> /\ Drops(events) \subseteq Drops(longer)
      <3>1. CASE longer = events
        BY <1>2, <3>1
      <3>2. ASSUME NEW e \in Event, longer = Append(events, e),
                   e.old = Last(events).new, e.new < e.old
            PROVE  longer \in Seq(Event) /\ longer # <<>> /\ Drops(events) \subseteq Drops(longer)
        <4>1. longer \in Seq(Event) /\ longer # <<>>
          BY <3>2
        <4>2. Drops(events) \subseteq Drops(longer)
          BY <1>2, <3>2, FallKeepsPeak
        <4> QED
          BY <4>1, <4>2
      <3> QED
        BY <3>1, <3>2 DEF FallsFurther
    <2>2. a \in Nat /\ b \in Nat /\ a <= b
      BY <2>1, DropsFinite, FS_Subset
    <2>3. /\ drop_repetition(events) = Clamped((a * Scale) \div 3)
          /\ drop_repetition(longer) = Clamped((b * Scale) \div 3)
      BY <1>2, <2>1 DEF drop_repetition
    <2> HIDE DEF a, b
    <2> DEFINE s == a * Scale
               t == b * Scale
    <2>4. s \in Int /\ t \in Int /\ s <= t
      BY <2>2 DEF Scale
    <2> HIDE DEF s, t
    <2>5. s \div 3 \in Int /\ t \div 3 \in Int /\ s \div 3 <= t \div 3
      BY <2>4
    <2>6. NoMore(Clamped(s \div 3), Clamped(t \div 3))
      BY <2>5, ClampedMonotone DEF NoMore
    <2> QED
      BY <2>3, <2>6 DEF s, t
  <1> QED
    BY <1>1, <1>2

(***************************************************************************)
(* Later, and with more of a price history, a listing is in no less        *)
(* distress.                                                               *)
(***************************************************************************)
LEMMA DistressNoMore ==
    ASSUME NEW l, NEW m, l.events \in Seq(Event), FallsFurther(l.events, m.events),
           l.posted = m.posted, l.posted = None \/ l.posted \in Int,
           NEW now \in Int, NEW later \in Int, now <= later
    PROVE  NoMore(distress(l, now), distress(m, later))
  <1>1. NoMore(drop_depth(l.events), drop_depth(m.events))
    BY DepthNoMore
  <1>2. NoMore(drop_repetition(l.events), drop_repetition(m.events))
    BY RepetitionNoMore
  <1>3. NoMore(days_on_market(l, now), days_on_market(m, later))
    <2>1. CASE l.posted = None
      BY <2>1 DEF days_on_market, NoMore
    <2>2. CASE l.posted # None
      <3> DEFINE p == l.posted
                 s == (now - p - 30) * Scale
                 t == (later - p - 30) * Scale
      <3>1. /\ days_on_market(l, now) = Clamped(s \div 150)
            /\ days_on_market(m, later) = Clamped(t \div 150)
        BY <2>2 DEF days_on_market
      <3>2. p \in Int
        BY <2>2
      <3> HIDE DEF p
      <3>3. s \in Int /\ t \in Int /\ s <= t
        BY <3>2 DEF Scale
      <3> HIDE DEF s, t
      <3>4. s \div 150 \in Int /\ t \div 150 \in Int /\ s \div 150 <= t \div 150
        BY <3>3
      <3>5. NoMore(Clamped(s \div 150), Clamped(t \div 150))
        BY <3>4, ClampedMonotone DEF NoMore
      <3> QED
        BY <3>1, <3>5
    <2> QED
      BY <2>1, <2>2
  <1> DEFINE A1 == Part(5, drop_depth(l.events))
             A2 == Part(2, drop_repetition(l.events))
             A3 == Part(3, days_on_market(l, now))
             B1 == Part(5, drop_depth(m.events))
             B2 == Part(2, drop_repetition(m.events))
             B3 == Part(3, days_on_market(m, later))
  <1>4. Under(A1, B1) /\ Under(A2, B2) /\ Under(A3, B3)
    BY <1>1, <1>2, <1>3, PartUnder
  <1>5. distress(l, now) = Renormalised(A1 ++ A2 ++ A3)
        /\ distress(m, later) = Renormalised(B1 ++ B2 ++ B3)
    BY DEF distress, DISTRESS_PARTS
  <1> HIDE DEF A1, A2, A3, B1, B2, B3
  <1>6. Under(A1 ++ A2 ++ A3, B1 ++ B2 ++ B3)
    BY <1>4, PlusUnder
  <1> QED
    BY <1>5, <1>6, RenormalisedNoMore

-------------------------------------------------------------------------------
(***************************************************************************)
(* A lower price, with finance where there was finance before, takes no    *)
(* more cash.                                                              *)
(***************************************************************************)
LEMMA CashMonotone ==
    ASSUME NEW p \in Profile, NEW q \in Profile, p.ltv = q.ltv,
           NEW f \in BOOLEAN, NEW g \in BOOLEAN, f => g,
           NEW c \in Nat, NEW d \in Nat, d <= c
    PROVE  /\ cash_needed(p, c, f) \in Nat /\ cash_needed(q, d, g) \in Nat
           /\ cash_needed(q, d, g) <= cash_needed(p, c, f)
  <1> DEFINE s == CashShare(p, f, Slab(c))
             t == CashShare(q, g, Slab(d))
  <1>1. Slab(c) \in 1..3 /\ Slab(d) \in 1..3 /\ Slab(d) <= Slab(c)
    BY AffordabilityAssumption DEF Slab
  <1>2. Rates[Slab(c)] \in Nat /\ Rates[Slab(d)] \in Nat /\ Rates[Slab(d)] <= Rates[Slab(c)]
    BY <1>1 DEF Rates
  <1>3. Ltv(p, f) \in 0..9999 /\ Ltv(q, g) \in 0..9999
    BY LtvType
  <1>4. Ltv(p, f) \in Nat /\ Ltv(q, g) \in Nat
    <2> DEFINE a == Ltv(p, f)
               b == Ltv(q, g)
    <2>1. a \in 0..9999 /\ b \in 0..9999
      BY <1>3
    <2> HIDE DEF a, b
    <2>2. a \in Nat /\ b \in Nat
      BY <2>1
    <2> QED
      BY <2>2 DEF a, b
  <1>5. Ltv(p, f) <= Ltv(q, g)
    <2>1. CASE f
      <3>1. Ltv(p, f) = p.ltv /\ Ltv(q, g) = q.ltv
        BY <2>1, Zenon DEF Ltv
      <3>2. Ltv(p, f) = Ltv(q, g)
        BY <3>1
      <3> QED
        BY ONLY <1>4, <3>2
    <2>2. CASE ~f
      <3>1. Ltv(p, f) = 0
        BY <2>2, Zenon DEF Ltv
      <3> QED
        BY ONLY <1>4, <3>1
    <2> QED
      BY <2>1, <2>2
  <1>6. s = 10000 - Ltv(p, f) + Rates[Slab(c)] /\ t = 10000 - Ltv(q, g) + Rates[Slab(d)]
    BY DEF CashShare, Scale
  <1>7. s \in Nat /\ t \in Nat /\ t <= s
    <2> DEFINE a == Ltv(p, f)
               b == Ltv(q, g)
               u == Rates[Slab(c)]
               v == Rates[Slab(d)]
    <2> HIDE DEF a, b, u, v
    <2>1. /\ a \in 0..9999 /\ b \in 0..9999 /\ a <= b
          /\ u \in Nat /\ v \in Nat /\ v <= u
      BY <1>2, <1>3, <1>5 DEF a, b, u, v
    <2>2. s = 10000 - a + u /\ t = 10000 - b + v
      BY <1>6 DEF a, b, u, v
    <2> HIDE DEF s, t
    <2> QED
      BY <2>1, <2>2
  <1> HIDE DEF s, t
  <1>8. c * s \in Nat /\ d * t \in Nat /\ d * t <= c * s
    BY <1>7, ProductMonotone
  <1>9. cash_needed(p, c, f) = (c * s) \div 10000 /\ cash_needed(q, d, g) = (d * t) \div 10000
    BY DEF cash_needed, s, t, Scale
  <1> QED
    <2> DEFINE x == c * s
               y == d * t
    <2> HIDE DEF x, y
    <2>1. x \in Nat /\ y \in Nat /\ y <= x
      BY <1>8 DEF x, y
    <2>2. /\ x \div 10000 \in Nat /\ y \div 10000 \in Nat
          /\ y \div 10000 <= x \div 10000
      BY <2>1, DivMonotone, DivDown
    <2> QED
      BY <1>9, <2>2 DEF x, y

(***************************************************************************)
(* The same owner, who may have saved since.                               *)
(***************************************************************************)
Richer(p, q) ==
    /\ q.reserved = p.reserved /\ q.monthly = p.monthly /\ q.ltv = p.ltv
    /\ p.liquid <= q.liquid

(***************************************************************************)
(* What can be paid can be paid by an owner who has saved since, at a      *)
(* lower price, and with finance.                                          *)
(***************************************************************************)
LEMMA PaidMonotone ==
    ASSUME NEW p \in Profile, NEW q \in Profile, Richer(p, q),
           NEW f \in BOOLEAN, NEW g \in BOOLEAN, f => g,
           NEW c \in Nat, NEW d \in Nat, d <= c, NEW n \in Nat,
           is_affordable(p, c, f, n)
    PROVE  is_affordable(q, d, g, n)
  <1>1. /\ p.liquid \in Nat /\ p.reserved \in Nat /\ p.monthly \in Nat
        /\ q.liquid \in Nat /\ q.reserved \in Nat /\ q.monthly \in Nat
    BY DEF Profile
  <1>2. deployable_at(p, n) \in Nat /\ deployable_at(q, n) \in Nat
    BY DeployableType
  <1>3. deployable_at(p, n) <= deployable_at(q, n)
    <2>1. AtLeastZero(p.liquid - p.reserved) <= AtLeastZero(q.liquid - q.reserved)
      BY <1>1 DEF Richer, AtLeastZero
    <2>2. /\ AtLeastZero(p.liquid - p.reserved) \in Nat
          /\ AtLeastZero(q.liquid - q.reserved) \in Nat
      BY <1>1 DEF AtLeastZero
    <2>3. p.monthly * n \in Nat /\ q.monthly * n = p.monthly * n
      BY <1>1 DEF Richer
    <2> QED
      BY <2>1, <2>2, <2>3 DEF deployable_at
  <1>4. /\ cash_needed(p, c, f) \in Nat /\ cash_needed(q, d, g) \in Nat
        /\ cash_needed(q, d, g) <= cash_needed(p, c, f)
    BY CashMonotone DEF Richer
  <1>5. cash_needed(p, c, f) <= deployable_at(p, n)
    BY DEF is_affordable
  <1>6. d # None
    BY AffordabilityAssumption
  <1>7. cash_needed(q, d, g) <= deployable_at(q, n)
    BY <1>2, <1>3, <1>4, <1>5
  <1> QED
    BY <1>6, <1>7 DEF is_affordable

(***************************************************************************)
(* The two factors that a price, a day or a tag has no part in.            *)
(***************************************************************************)
LEMMA ThesisNoMore ==
    ASSUME NEW l, NEW m, l.kind = m.kind, l.lister = m.lister, l.corridor = m.corridor
    PROVE  NoMore(thesis_fit(l), thesis_fit(m))
  <1> DEFINE v == (KindBase(l.kind) + ListerAdjust(l.lister)) * (IF l.corridor THEN 100 ELSE 50)
  <1>1. v \in Int
    BY DEF KindBase, ListerAdjust
  <1>2. NoMore(Clamped(v), Clamped(v))
    <2> HIDE DEF v
    <2> QED
      BY <1>1, ClampedMonotone DEF NoMore
  <1>3. thesis_fit(m) = thesis_fit(l)
    BY DEF thesis_fit
  <1>4. CASE asset_class(l.kind) = None
    BY <1>3, <1>4 DEF thesis_fit, NoMore
  <1>5. CASE asset_class(l.kind) # None
    BY <1>2, <1>3, <1>5 DEF thesis_fit
  <1> QED
    BY <1>4, <1>5

(***************************************************************************)
(* The same reading motivates the same.                                    *)
(***************************************************************************)
LEMMA MotivationNoMore ==
    ASSUME NEW l, NEW m, l.reading = m.reading, l.reading = None \/ l.reading \in Nat
    PROVE  NoMore(seller_motivation(l), seller_motivation(m))
  <1>1. CASE l.reading = None
    BY <1>1 DEF seller_motivation, NoMore
  <1>2. CASE l.reading # None
    BY <1>2, ClampedMonotone DEF seller_motivation, NoMore
  <1> QED
    BY <1>1, <1>2

-------------------------------------------------------------------------------
(***************************************************************************)
(* A finite set in some order: each place holds a member of it.            *)
(***************************************************************************)
LEMMA SetToSeqType ==
    ASSUME NEW S, IsFiniteSet(S)
    PROVE  SetToSeq(S) \in [1..Cardinality(S) -> S] /\ Cardinality(S) \in Nat
  <1>1. Cardinality(S) \in Nat /\ ExistsBijection(1..Cardinality(S), S)
    BY FS_CardinalityType
  <1>2. \E f \in [1..Cardinality(S) -> S] : IsInjective(f)
    BY <1>1 DEF ExistsBijection, Bijection, Injection, IsInjective
  <1> QED
    BY <1>1, <1>2 DEF SetToSeq

(***************************************************************************)
(* Whose rates a listing is compared with.                                 *)
(***************************************************************************)
Peers(ls, lv, k) == {j \in lv : SameMarket(ls[j], ls[k]) /\ Rate(ls[j]) # None}

(***************************************************************************)
(* They are finitely many, and live.                                       *)
(***************************************************************************)
LEMMA PeersFinite ==
    ASSUME NEW ls, NEW lv \in SUBSET Ids, NEW k
    PROVE  /\ IsFiniteSet(Peers(ls, lv, k))
           /\ Peers(ls, lv, k) \subseteq lv
  <1>1. Count \in Nat
    BY BriefingAssumption
  <1>2. IsFiniteSet(Ids)
    BY <1>1, FS_Interval DEF Ids
  <1>3. Peers(ls, lv, k) \subseteq Ids /\ Peers(ls, lv, k) \subseteq lv
    BY DEF Peers
  <1> QED
    BY <1>2, <1>3, FS_Subset

(***************************************************************************)
(* PeerRates is the rates of the neighbours, then those of the peers in    *)
(* some order.                                                             *)
(***************************************************************************)
LEMMA PeerRatesAre ==
    ASSUME NEW ls, NEW lv \in SUBSET Ids, NEW k, asset_class(ls[k].kind) # None
    PROVE  LET class == asset_class(ls[k].kind)
               peers == SetToSeq(Peers(ls, lv, k))
           IN  /\ Neighbours[class] \in Seq(Nat \ {0})
               /\ peers \in Seq(lv)
               /\ PeerRates(ls, lv, k)
                    = Neighbours[class] \o [n \in 1..Len(peers) |-> Rate(ls[peers[n]])]
               /\ \A n \in 1..Len(peers) : peers[n] \in Peers(ls, lv, k)
  <1> DEFINE class == asset_class(ls[k].kind)
             S == Peers(ls, lv, k)
             peers == SetToSeq(S)
  <1>1. class \in {"land", "built"}
    BY DEF asset_class
  <1>2. Neighbours[class] \in Seq(Nat \ {0})
    BY <1>1, BriefingAssumption
  <1>3. peers \in [1..Cardinality(S) -> S] /\ Cardinality(S) \in Nat /\ S \subseteq lv
    BY SetToSeqType, PeersFinite
  <1>4. peers \in Seq(lv) /\ Len(peers) = Cardinality(S) /\ DOMAIN peers = 1..Len(peers)
    <2> HIDE DEF peers, S
    <2> QED
      BY <1>3
  <1>5. PeerRates(ls, lv, k) = Neighbours[class] \o [n \in DOMAIN peers |-> Rate(ls[peers[n]])]
    BY DEF PeerRates, Peers
  <1>6. \A n \in 1..Len(peers) : peers[n] \in S
    <2> HIDE DEF peers, S
    <2> QED
      BY <1>3, <1>4
  <1> HIDE DEF peers, S
  <1> QED
    BY <1>2, <1>4, <1>5, <1>6 DEF peers, S

-------------------------------------------------------------------------------
(***************************************************************************)
(* Listings as the portal leaves them: the last event of each has its      *)
(* price, and no area is too large for the prices.                         *)
(***************************************************************************)
Known(ls) ==
    /\ ls \in [Ids -> Listing]
    /\ \A k \in Ids : PriceIsLast(ls[k]) /\ \A c \in Prices : ls[k].area <= 1000 * c

(***************************************************************************)
(* A rate is positive: a thousandth of the unit of money is never too      *)
(* coarse.                                                                 *)
(***************************************************************************)
LEMMA RowRate ==
    ASSUME NEW ls, Known(ls), NEW k \in Ids
    PROVE  Rate(ls[k]) = None \/ Rate(ls[k]) \in Nat \ {0}
  <1> DEFINE l == ls[k]
  <1>1. l \in Listing /\ \A c \in Prices : l.area <= 1000 * c
    BY DEF Known
  <1> HIDE DEF l
  <1>2. l.area \in Nat /\ (l.price = None \/ l.price \in Prices)
    BY <1>1 DEF Listing
  <1>3. l.price = None \/ (l.price \in Nat \ {0} /\ l.area <= 1000 * l.price)
    BY <1>1, <1>2, BriefingAssumption
  <1> QED
    BY <1>2, <1>3, RateType DEF l

(***************************************************************************)
(* So are all that a listing is compared with.                             *)
(***************************************************************************)
LEMMA RatesTyped ==
    ASSUME NEW ls, Known(ls), NEW lv \in SUBSET Ids, NEW k \in Ids
    PROVE  PeerRates(ls, lv, k) \in Seq(Nat \ {0})
  <1> DEFINE class == asset_class(ls[k].kind)
             peers == SetToSeq(Peers(ls, lv, k))
             nearby == [n \in 1..Len(peers) |-> Rate(ls[peers[n]])]
  <1>1. CASE class = None
    BY <1>1 DEF PeerRates
  <1>2. CASE class # None
    <2>1. /\ Neighbours[class] \in Seq(Nat \ {0})
          /\ peers \in Seq(lv)
          /\ PeerRates(ls, lv, k) = Neighbours[class] \o nearby
          /\ \A n \in 1..Len(peers) : peers[n] \in Peers(ls, lv, k)
      BY <1>2, PeerRatesAre
    <2>2. Len(peers) \in Nat
      <3> HIDE DEF peers
      <3> QED
        BY <2>1
    <2>3. \A n \in 1..Len(peers) : Rate(ls[peers[n]]) \in Nat \ {0}
      <3> SUFFICES ASSUME NEW n \in 1..Len(peers)
                   PROVE  Rate(ls[peers[n]]) \in Nat \ {0}
        OBVIOUS
      <3>1. peers[n] \in Peers(ls, lv, k)
        BY <2>1
      <3> HIDE DEF peers
      <3>2. peers[n] \in Ids /\ Rate(ls[peers[n]]) # None
        BY <3>1 DEF Peers
      <3> QED
        BY <3>2, RowRate
    <2>4. nearby \in Seq(Nat \ {0})
      <3> HIDE DEF peers
      <3> QED
        BY <2>2, <2>3
    <2> HIDE DEF nearby
    <2> QED
      BY <2>1, <2>4
  <1> QED
    BY <1>1, <1>2

(***************************************************************************)
(* When one row moves within its market, what it is compared with moves at *)
(* no place but its own.                                                   *)
(***************************************************************************)
LEMMA RatesFall ==
    ASSUME NEW ls, Known(ls), NEW ms, Known(ms), NEW lv \in SUBSET Ids, NEW k \in Ids,
           \A j \in Ids \ {k} : ms[j] = ls[j],
           ms[k].kind = ls[k].kind, ms[k].city = ls[k].city,
           ms[k].corridor = ls[k].corridor,
           Rate(ls[k]) = None <=> Rate(ms[k]) = None
    PROVE  Falls(PeerRates(ls, lv, k), PeerRates(ms, lv, k), Rate(ls[k]), Rate(ms[k]))
  <1> DEFINE class == asset_class(ls[k].kind)
             S == Peers(ls, lv, k)
             peers == SetToSeq(S)
             a == [n \in 1..Len(peers) |-> Rate(ls[peers[n]])]
             b == [n \in 1..Len(peers) |-> Rate(ms[peers[n]])]
  <1>1. asset_class(ms[k].kind) = class
    OBVIOUS
  <1>2. CASE class = None
    <2>1. PeerRates(ls, lv, k) = <<>> /\ PeerRates(ms, lv, k) = <<>>
      BY <1>1, <1>2 DEF PeerRates
    <2> QED
      BY <2>1 DEF Falls
  <1>3. CASE class # None
    <2>1. Peers(ms, lv, k) = S
      <3>1. ASSUME NEW j \in lv
            PROVE  (SameMarket(ms[j], ms[k]) /\ Rate(ms[j]) # None)
                     <=> (SameMarket(ls[j], ls[k]) /\ Rate(ls[j]) # None)
        <4>1. CASE j = k
          BY <4>1 DEF SameMarket
        <4>2. CASE j # k
          <5>1. ms[j] = ls[j]
            BY <4>2
          <5> QED
            BY <5>1 DEF SameMarket
        <4> QED
          BY <4>1, <4>2
      <3> QED
        BY <3>1 DEF Peers
    <2>2. /\ Neighbours[class] \in Seq(Nat \ {0})
          /\ peers \in Seq(lv)
          /\ PeerRates(ls, lv, k) = Neighbours[class] \o a
          /\ \A n \in 1..Len(peers) : peers[n] \in S
      BY <1>3, PeerRatesAre
    <2>3. PeerRates(ms, lv, k) = Neighbours[class] \o b
      <3> DEFINE other == asset_class(ms[k].kind)
                 order == SetToSeq(Peers(ms, lv, k))
      <3>1. other # None
        BY <1>1, <1>3
      <3>2. PeerRates(ms, lv, k)
              = Neighbours[other] \o [n \in 1..Len(order) |-> Rate(ms[order[n]])]
        BY <3>1, PeerRatesAre
      <3>3. order = peers /\ other = class
        BY <1>1, <2>1
      <3> HIDE DEF order, other, peers, class
      <3> QED
        BY <3>2, <3>3
    <2>4. Len(peers) \in Nat
      <3> HIDE DEF peers
      <3> QED
        BY <2>2
    <2>5. \A n \in 1..Len(peers) : \/ b[n] = a[n]
                                   \/ a[n] = Rate(ls[k]) /\ b[n] = Rate(ms[k])
      <3> SUFFICES ASSUME NEW n \in 1..Len(peers)
                   PROVE  \/ b[n] = a[n]
                          \/ a[n] = Rate(ls[k]) /\ b[n] = Rate(ms[k])
        OBVIOUS
      <3>1. peers[n] \in Ids
        BY <2>2 DEF Peers
      <3> HIDE DEF peers
      <3>2. CASE peers[n] = k
        BY <3>2
      <3>3. CASE peers[n] # k
        <4>1. ms[peers[n]] = ls[peers[n]]
          BY <3>1, <3>3
        <4> QED
          BY <4>1
      <3> QED
        BY <3>2, <3>3
    <2>6. Len(a) = Len(peers) /\ Len(b) = Len(peers)
      <3> HIDE DEF peers
      <3> QED
        BY <2>4
    <2> DEFINE N == Neighbours[class]
               d == Len(peers)
    <2>7. a = [n \in 1..d |-> a[n]] /\ b = [n \in 1..d |-> b[n]]
      OBVIOUS
    <2> HIDE DEF a, b, N, d
    <2>8. Falls(N \o a, N \o b, Rate(ls[k]), Rate(ms[k]))
      <3>1. /\ Len(N) \in Nat /\ d \in Nat /\ N \in Seq(Nat \ {0})
            /\ Len(a) = d /\ Len(b) = d
        BY <2>2, <2>4, <2>6 DEF N, d
      <3> DEFINE V == {a[n] : n \in 1..d} \cup {b[n] : n \in 1..d} \cup Nat
      <3>2. a \in Seq(V) /\ b \in Seq(V) /\ N \in Seq(V)
        <4>1. /\ \A n \in 1..d : a[n] \in V /\ b[n] \in V
              /\ Nat \ {0} \subseteq V
          OBVIOUS
        <4> HIDE DEF V
        <4>2. a \in [1..d -> V] /\ b \in [1..d -> V]
          BY <2>7, <4>1
        <4>3. d \in Nat /\ N \in Seq(Nat \ {0})
          BY <3>1
        <4>4. a \in Seq(V) /\ b \in Seq(V)
          BY ONLY <4>2, <4>3
        <4>5. N \in Seq(V)
          BY ONLY <4>1, <4>3
        <4> QED
          BY <4>4, <4>5
      <3> HIDE DEF V
      <3>3. Len(N \o a) = Len(N) + d /\ Len(N \o b) = Len(N) + d
        <4>1. Len(N \o a) = Len(N) + Len(a) /\ Len(N \o b) = Len(N) + Len(b)
          BY ONLY <3>2
        <4> QED
          BY <3>1, <4>1
      <3>4. ASSUME NEW n \in 1..Len(N) + d
            PROVE  \/ (N \o b)[n] = (N \o a)[n]
                   \/ (N \o a)[n] = Rate(ls[k]) /\ (N \o b)[n] = Rate(ms[k])
        <4>1. CASE n <= Len(N)
          <5>1. (N \o a)[n] = N[n] /\ (N \o b)[n] = N[n]
            BY <3>1, <3>2, <4>1
          <5> QED
            BY <5>1
        <4>2. CASE n > Len(N)
          <5>1. (N \o a)[n] = a[n - Len(N)] /\ (N \o b)[n] = b[n - Len(N)]
            BY <3>1, <3>2, <4>2
          <5>2. n - Len(N) \in 1..d
            BY <3>1, <4>2
          <5> QED
            BY <2>5, <5>1, <5>2 DEF d
        <4> QED
          BY <3>1, <4>1, <4>2
      <3> QED
        BY <3>3, <3>4 DEF Falls
    <2> QED
      BY <2>2, <2>3, <2>8 DEF N
  <1> QED
    BY <1>2, <1>3

-------------------------------------------------------------------------------
(***************************************************************************)
(* A row as it was, or as it is once its price has been cut.               *)
(***************************************************************************)
Cheaper(l, m) ==
    /\ m.kind = l.kind /\ m.area = l.area /\ m.lister = l.lister /\ m.city = l.city
    /\ m.corridor = l.corridor /\ m.tags = l.tags /\ m.posted = l.posted
    /\ m.reading = l.reading
    /\ \/ l.price = None /\ m.price = None
       \/ l.price \in Nat /\ m.price \in Nat /\ m.price <= l.price
    /\ FallsFurther(l.events, m.events)

(***************************************************************************)
(* A lower price, a lower rate.                                            *)
(***************************************************************************)
LEMMA RateFalls ==
    ASSUME NEW l, NEW m, l.area \in Nat, Cheaper(l, m)
    PROVE  \/ Rate(l) = None /\ Rate(m) = None
           \/ Rate(l) \in Nat /\ Rate(m) \in Nat /\ Rate(m) <= Rate(l)
  <1> DEFINE c == 1000 * l.price
             d == 1000 * m.price
             b == l.area
  <1>1. CASE l.price = None \/ l.area = 0
    <2>1. m.price = None \/ m.area = 0
      BY <1>1, AffordabilityAssumption DEF Cheaper
    <2> QED
      BY <1>1, <2>1 DEF Rate
  <1>2. CASE ~(l.price = None \/ l.area = 0)
    <2>1. l.price \in Nat /\ m.price \in Nat /\ m.price <= l.price /\ m.area = l.area
      BY <1>2 DEF Cheaper
    <2>2. m.price # None
      BY <2>1, AffordabilityAssumption
    <2>3. Rate(l) = c \div b /\ Rate(m) = d \div b
      BY <1>2, <2>1, <2>2 DEF Rate
    <2>4. c \in Nat /\ d \in Nat /\ d <= c /\ b \in Nat \ {0}
      BY <1>2, <2>1
    <2> HIDE DEF b, c, d
    <2>5. c \div b \in Nat /\ d \div b \in Nat
      BY <2>4, DivDown
    <2>6. d \div b <= c \div b
      BY <2>4, DivMonotone
    <2> QED
      BY <2>3, <2>5, <2>6
  <1> QED
    BY <1>1, <1>2

(***************************************************************************)
(* What the proofs use of a row's type.                                    *)
(***************************************************************************)
LEMMA RowType ==
    ASSUME NEW ls, Known(ls), NEW k \in Ids
    PROVE  LET l == ls[k]
           IN  /\ l.area \in Nat
               /\ l.price = None \/ l.price \in Nat \ {0}
               /\ TurnsTo(l.tags, l.tags)
               /\ l.posted = None \/ l.posted \in Int
               /\ l.events \in Seq(Event)
               /\ l.reading = None \/ l.reading \in Nat
               /\ PriceIsLast(l)
  <1> DEFINE l == ls[k]
  <1>1. l \in Listing /\ PriceIsLast(l)
    BY DEF Known
  <1> HIDE DEF l
  <1>2. /\ l.area \in Nat /\ l.price \in Prices \cup {None}
        /\ l.tags \in TagSets \cup {<<>>} /\ l.posted \in Postings \cup {None}
        /\ l.events \in Seq(Event) /\ l.reading \in Readings \cup {None}
    BY <1>1 DEF Listing
  <1>3. \A item \in DOMAIN l.tags : l.tags[item] \in DOMAIN RERA_BASE
    <2>1. CASE l.tags \in TagSets
      BY <2>1, BriefingAssumption
    <2>2. CASE l.tags = <<>>
      BY <2>2
    <2> QED
      BY <1>2, <2>1, <2>2
  <1>4. TurnsTo(l.tags, l.tags)
    BY <1>3 DEF TurnsTo, Statuses
  <1>5. l.price = None \/ l.price \in Nat \ {0}
    BY <1>2, BriefingAssumption
  <1>6. l.posted = None \/ l.posted \in Int
    BY <1>2, BriefingAssumption
  <1>7. l.reading = None \/ l.reading \in Nat
    BY <1>2, BriefingAssumption
  <1> QED
    BY <1>1, <1>2, <1>4, <1>5, <1>6, <1>7 DEF l

(***************************************************************************)
(* Each factor of a listing whose price has been cut, or whose owner has   *)
(* saved, some days later, is no less.                                     *)
(***************************************************************************)
LEMMA FactorsNoMore ==
    ASSUME NEW ls, Known(ls), NEW ms, Known(ms), NEW lv \in SUBSET Ids, NEW k \in Ids,
           \A j \in Ids \ {k} : ms[j] = ls[j], Cheaper(ls[k], ms[k]),
           NEW p \in Profile, NEW q \in Profile, Richer(p, q),
           NEW now \in Int, NEW later \in Int, now <= later
    PROVE  /\ NoMore(legal_risk(ls[k]), legal_risk(ms[k]))
           /\ NoMore(capital_fit(p, ls[k]), capital_fit(q, ms[k]))
           /\ NoMore(price_vs_locality(ls[k], PeerRates(ls, lv, k)),
                     price_vs_locality(ms[k], PeerRates(ms, lv, k)))
           /\ NoMore(thesis_fit(ls[k]), thesis_fit(ms[k]))
           /\ NoMore(distress(ls[k], now), distress(ms[k], later))
           /\ NoMore(seller_motivation(ls[k]), seller_motivation(ms[k]))
  <1> DEFINE l == ls[k]
             m == ms[k]
             rates == PeerRates(ls, lv, k)
             others == PeerRates(ms, lv, k)
  <1>1. /\ l.area \in Nat
        /\ TurnsTo(l.tags, l.tags)
        /\ l.posted = None \/ l.posted \in Int
        /\ l.events \in Seq(Event)
        /\ l.reading = None \/ l.reading \in Nat
    BY RowType
  <1>2. Cheaper(l, m)
    OBVIOUS
  <1>3. \/ Rate(l) = None /\ Rate(m) = None
        \/ Rate(l) \in Nat /\ Rate(m) \in Nat /\ Rate(m) <= Rate(l)
    BY <1>1, <1>2, RateFalls
  <1>4. rates \in Seq(Nat \ {0}) /\ others \in Seq(Nat \ {0})
    BY RatesTyped
  <1>5. m.kind = l.kind /\ m.city = l.city /\ m.corridor = l.corridor
    BY <1>2 DEF Cheaper
  <1>6. Rate(l) = None <=> Rate(m) = None
    <2>1. \A x \in Nat : x # None
      BY AffordabilityAssumption
    <2> QED
      BY <1>3, <2>1
  <1>7. Falls(rates, others, Rate(l), Rate(m))
    BY <1>5, <1>6, RatesFall
  <1> HIDE DEF l, m, rates, others
  <1>8. NoMore(legal_risk(l), legal_risk(m))
    <2>1. m.tags = l.tags
      BY <1>2 DEF Cheaper
    <2>2. TurnsTo(m.tags, l.tags)
      BY <1>1, <2>1
    <2> QED
      BY <2>2, LegalNoMore
  <1>9. NoMore(capital_fit(p, l), capital_fit(q, m))
    <2>1. Financeable(m) = Financeable(l) /\ Financeable(l) \in BOOLEAN
      BY <1>2 DEF Financeable, is_financeable, Cheaper
    <2>2. l.price = None <=> m.price = None
      BY <1>2, AffordabilityAssumption DEF Cheaper
    <2>3. ASSUME NEW n \in 0..Horizon, is_affordable(p, l.price, Financeable(l), n)
          PROVE  is_affordable(q, m.price, Financeable(m), n)
      <3>1. n \in Nat
        BY AffordabilityAssumption
      <3>2. l.price # None
        BY <2>3 DEF is_affordable
      <3>3. l.price \in Nat /\ m.price \in Nat /\ m.price <= l.price
        BY <1>2, <3>2 DEF Cheaper
      <3>4. is_affordable(q, m.price, Financeable(l), n)
        BY <2>1, <2>3, <3>1, <3>3, PaidMonotone
      <3> QED
        BY <2>1, <3>4
    <2> QED
      BY <2>2, <2>3, CapitalNoMore
  <1>10. NoMore(price_vs_locality(l, rates), price_vs_locality(m, others))
    <2>1. asset_class(l.kind) = asset_class(m.kind)
      BY <1>5
    <2>2. \/ Rate(l) = None /\ Rate(m) = None
          \/ /\ Rate(l) \in Nat /\ Rate(m) \in Nat /\ Rate(m) <= Rate(l)
             /\ Falls(rates, others, Rate(l), Rate(m))
      BY <1>3, <1>7
    <2> QED
      BY ONLY <1>4, <2>1, <2>2, LocalityNoMore
  <1>11. NoMore(thesis_fit(l), thesis_fit(m))
    BY <1>2, ThesisNoMore DEF Cheaper
  <1>12. NoMore(distress(l, now), distress(m, later))
    BY <1>1, <1>2, DistressNoMore DEF Cheaper
  <1>13. NoMore(seller_motivation(l), seller_motivation(m))
    BY <1>1, <1>2, MotivationNoMore DEF Cheaper
  <1> QED
    BY <1>8, <1>9, <1>10, <1>11, <1>12, <1>13 DEF l, m, rates, others

(***************************************************************************)
(* And so is its score.                                                    *)
(***************************************************************************)
LEMMA DealNoMore ==
    ASSUME NEW ls, Known(ls), NEW ms, Known(ms), NEW lv \in SUBSET Ids, NEW k \in Ids,
           \A j \in Ids \ {k} : ms[j] = ls[j], Cheaper(ls[k], ms[k]),
           NEW p \in Profile, NEW q \in Profile, Richer(p, q),
           NEW now \in Int, NEW later \in Int, now <= later
    PROVE  NoMore(DealOf(p, ls, lv, now, k), DealOf(q, ms, lv, later, k))
  BY FactorsNoMore, ScoreNoMore DEF DealOf

(***************************************************************************)
(* A tag that turns to a flag cannot make the score higher.                *)
(***************************************************************************)
LEMMA FlagNoMore ==
    ASSUME NEW ls, Known(ls), NEW ms, Known(ms), NEW lv \in SUBSET Ids, NEW k \in Ids,
           NEW tags, TurnsTo(ls[k].tags, tags),
           ms = [ls EXCEPT ![k].tags = tags],
           NEW p \in Profile, NEW now \in Int
    PROVE  NoMore(DealOf(p, ms, lv, now, k), DealOf(p, ls, lv, now, k))
  <1> DEFINE l == ls[k]
             m == ms[k]
             rates == PeerRates(ls, lv, k)
             others == PeerRates(ms, lv, k)
  <1>1. ls \in [Ids -> Listing] /\ l \in Listing
    BY DEF Known
  <1>2. m = [l EXCEPT !.tags = tags] /\ \A j \in Ids \ {k} : ms[j] = ls[j]
    BY <1>1
  <1>3. /\ m.kind = l.kind /\ m.area = l.area /\ m.lister = l.lister /\ m.city = l.city
        /\ m.corridor = l.corridor /\ m.posted = l.posted /\ m.reading = l.reading
        /\ m.price = l.price /\ m.events = l.events /\ m.tags = tags
    BY <1>1, <1>2 DEF Listing
  <1>4. /\ l.price = None \/ l.price \in Nat \ {0}
        /\ l.posted = None \/ l.posted \in Int
        /\ l.events \in Seq(Event)
        /\ l.reading = None \/ l.reading \in Nat
    BY RowType
  <1>5. Rate(m) = Rate(l) /\ (Rate(l) = None \/ Rate(l) \in Nat)
    BY <1>3, RowRate DEF Rate
  <1>6. rates \in Seq(Nat \ {0}) /\ others \in Seq(Nat \ {0})
    BY RatesTyped
  <1>7. Falls(others, rates, Rate(m), Rate(l))
    <2>1. \A j \in Ids \ {k} : ls[j] = ms[j]
      BY <1>2
    <2> QED
      BY <1>3, <1>5, <2>1, RatesFall
  <1> HIDE DEF l, m, rates, others
  <1>8. NoMore(legal_risk(m), legal_risk(l))
    BY <1>3, LegalNoMore DEF l
  <1>9. NoMore(capital_fit(p, m), capital_fit(p, l))
    <2>1. /\ Financeable(m) \in BOOLEAN /\ Financeable(l) \in BOOLEAN
          /\ Financeable(m) => Financeable(l)
      BY <1>3, FinanceTurns DEF l
    <2>2. ASSUME NEW n \in 0..Horizon, is_affordable(p, m.price, Financeable(m), n)
          PROVE  is_affordable(p, l.price, Financeable(l), n)
      <3>1. n \in Nat
        BY AffordabilityAssumption
      <3>2. m.price = l.price /\ l.price # None
        BY <1>3, <2>2 DEF is_affordable
      <3>3. l.price \in Nat /\ m.price \in Nat /\ l.price <= m.price
        BY <1>4, <3>2
      <3>4. Richer(p, p)
        BY DEF Richer, Profile
      <3> QED
        BY <2>1, <2>2, <3>1, <3>3, <3>4, PaidMonotone
    <2> QED
      BY <1>3, <2>2, CapitalNoMore
  <1>10. NoMore(price_vs_locality(m, others), price_vs_locality(l, rates))
    <2>1. \/ Rate(m) = None /\ Rate(l) = None
          \/ /\ Rate(m) \in Nat /\ Rate(l) \in Nat /\ Rate(l) <= Rate(m)
             /\ Falls(others, rates, Rate(m), Rate(l))
      BY <1>5, <1>7
    <2>2. asset_class(m.kind) = asset_class(l.kind)
      BY <1>3
    <2> QED
      BY ONLY <1>6, <2>1, <2>2, LocalityNoMore
  <1>11. NoMore(thesis_fit(m), thesis_fit(l))
    BY <1>3, ThesisNoMore
  <1>12. NoMore(distress(m, now), distress(l, now))
    <2>1. FallsFurther(m.events, l.events)
      BY <1>3 DEF FallsFurther
    <2>2. m.events \in Seq(Event) /\ m.posted = l.posted
      BY <1>3, <1>4
    <2>3. (m.posted = None \/ m.posted \in Int) /\ now <= now
      BY <1>3, <1>4
    <2> QED
      BY ONLY <2>1, <2>2, <2>3, now \in Int, DistressNoMore
  <1>13. NoMore(seller_motivation(m), seller_motivation(l))
    BY <1>3, <1>4, MotivationNoMore
  <1> QED
    BY <1>8, <1>9, <1>10, <1>11, <1>12, <1>13, ScoreNoMore DEF DealOf, l, m, rates, others

-------------------------------------------------------------------------------
(***************************************************************************)
(* The score moves the right way.                                          *)
(*                                                                         *)
(* A change leaves the last event with the price, whatever it changes, and *)
(* no area.                                                                *)
(***************************************************************************)
LEMMA ChangeKnown ==
    ASSUME TypeOK, TypeOK', Known(listings), NEW k \in Ids,
           NEW new \in Listing, new.area = listings[k].area, PriceIsLast(new),
           Change(k, new)
    PROVE  Known(listings')
  <1>1. listings' = [listings EXCEPT ![k] = new] /\ listings' \in [Ids -> Listing]
    BY DEF Change, TypeOK
  <1>2. ASSUME NEW j \in Ids
        PROVE  PriceIsLast(listings'[j]) /\ \A c \in Prices : listings'[j].area <= 1000 * c
    <2>1. CASE j = k
      <3>1. listings'[j] = new
        BY <1>1, <2>1 DEF Known
      <3> QED
        BY <2>1, <3>1 DEF Known
    <2>2. CASE j # k
      <3>1. listings'[j] = listings[j]
        BY <1>1, <2>2 DEF Known
      <3> QED
        BY <3>1 DEF Known
    <2> QED
      BY <2>1, <2>2
  <1> QED
    BY <1>1, <1>2 DEF Known

(***************************************************************************)
(* Each action of the market changes a row so.                             *)
(***************************************************************************)
LEMMA RowsKnown ==
    ASSUME TypeOK, Known(listings), NEW k \in Ids, NEW new,
           \/ \E c \in Prices : new = Priced(listings[k], c)
           \/ new = [listings[k] EXCEPT !.corridor = ~@]
           \/ \E tags \in TagSets : new = [listings[k] EXCEPT !.tags = tags]
           \/ \E r \in Readings : new = [listings[k] EXCEPT !.reading = r]
           \/ \E d \in Postings : new = [listings[k] EXCEPT !.posted = d]
    PROVE  new \in Listing /\ new.area = listings[k].area /\ PriceIsLast(new)
  <1> DEFINE l == listings[k]
  <1>1. new \in Listing
    BY RowsTyped
  <1>2. l \in Listing /\ PriceIsLast(l)
    BY DEF Known
  <1>3. today \in Nat
    BY DEF TypeOK
  <1>4. \/ \E c \in Prices : new = Priced(l, c)
        \/ /\ new.area = l.area /\ new.price = l.price /\ new.events = l.events
    BY <1>2 DEF Listing
  <1> HIDE DEF l
  <1>5. CASE \E c \in Prices : new = Priced(l, c)
    <2>1. PICK c \in Prices : new = Priced(l, c)
      BY <1>5
    <2> DEFINE e == [old |-> l.price, new |-> c, day |-> today]
    <2>2. l.events \in Seq(Event) /\ e \in Event
      BY <1>2, <1>3 DEF Listing, Event
    <2>3. new.area = l.area /\ new.price = c /\ new.events = Append(l.events, e)
      BY <1>2, <2>1 DEF Priced, Listing
    <2>4. e.new = c
      OBVIOUS
    <2> HIDE DEF e
    <2>5. Append(l.events, e) # <<>> /\ Last(Append(l.events, e)) = e
      BY <2>2 DEF Last
    <2> QED
      BY <1>1, <2>3, <2>4, <2>5 DEF PriceIsLast, l
  <1>6. CASE new.area = l.area /\ new.price = l.price /\ new.events = l.events
    BY <1>1, <1>2, <1>6 DEF PriceIsLast, l
  <1> QED
    BY <1>4, <1>5, <1>6

(***************************************************************************)
(* Every listing there is has the price its last event says.               *)
(***************************************************************************)
LEMMA ListingsStayKnown == Spec => []Known(listings)
  <1>1. Init => Known(listings)
    <2> SUFFICES ASSUME Init
                 PROVE  Known(listings)
      OBVIOUS
    <2>1. listings \in [Ids -> Lots] /\ Lots \subseteq Listing
      BY BriefingAssumption DEF Init
    <2> QED
      BY <2>1, LotsAssumption DEF Known
  <1>2. TypeOK /\ TypeOK' /\ Known(listings) /\ [Next]_vars => Known(listings')
    <2> SUFFICES ASSUME TypeOK, TypeOK', Known(listings), [Next]_vars
                 PROVE  Known(listings')
      OBVIOUS
    <2>1. ASSUME NEW k \in Ids,
                 Reprice(k) \/ Relocate(k) \/ Tag(k) \/ Extract(k) \/ Date(k)
          PROVE  Known(listings')
      <3>1. PICK new :
              /\ Change(k, new)
              /\ \/ \E c \in Prices : new = Priced(listings[k], c)
                 \/ new = [listings[k] EXCEPT !.corridor = ~@]
                 \/ \E tags \in TagSets : new = [listings[k] EXCEPT !.tags = tags]
                 \/ \E r \in Readings : new = [listings[k] EXCEPT !.reading = r]
                 \/ \E d \in Postings : new = [listings[k] EXCEPT !.posted = d]
        BY <2>1 DEF Reprice, Relocate, Tag, Extract, Date
      <3>2. new \in Listing /\ new.area = listings[k].area /\ PriceIsLast(new)
        BY <3>1, RowsKnown
      <3> QED
        BY <3>1, <3>2, ChangeKnown
    <2>2. CASE \/ \E k \in Ids : Leave(k)
               \/ Tick \/ Score \/ ReadTop \/ ReadWatchlist \/ ReadPlan \/ UNCHANGED vars
      <3>1. listings' = listings
        BY <2>2 DEF Leave, Tick, Score, ReadTop, ReadWatchlist, ReadPlan, vars
      <3> QED
        BY <3>1
    <2> QED
      BY <2>1, <2>2 DEF Next
  <1>3. Known(listings)' <=> Known(listings')
    BY DEF Known
  <1> QED
    BY <1>1, <1>2, <1>3, TypeCorrect, PTL DEF Spec

(***************************************************************************)
(* A value that is no more than another abstains with it, or is below it.  *)
(***************************************************************************)
LEMMA NoMoreOrders ==
    ASSUME NEW v, NEW w, NoMore(v, w)
    PROVE  /\ v = None <=> w = None
           /\ v # None => v <= w /\ w >= v
  <1>1. \A x \in 0..Scale : x \in Int /\ x # None
    BY AffordabilityAssumption DEF Scale
  <1>2. CASE v = None /\ w = None
    BY <1>2
  <1>3. CASE v \in 0..Scale /\ w \in 0..Scale /\ v <= w
    <2>1. v \in Int /\ w \in Int /\ v # None /\ w # None
      BY <1>1, <1>3
    <2> QED
      BY <1>3, <2>1
  <1> QED
    BY <1>2, <1>3 DEF NoMore

(***************************************************************************)
(* Only the market's changes touch a row, and they leave the rest alone.   *)
(***************************************************************************)
LEMMA RowsMoveAlone ==
    ASSUME [Next]_vars, listings' # listings
    PROVE  profile' = profile /\ live' = live /\ today' = today /\ ticks' = ticks
  BY DEF Next, Reprice, Relocate, Tag, Extract, Date, Change, Leave, Tick, Score,
         ReadTop, ReadWatchlist, ReadPlan, vars, counts

(***************************************************************************)
(* An owner who has saved nothing since is as rich.                        *)
(***************************************************************************)
LEMMA RicherThanItself ==
    ASSUME NEW p \in Profile
    PROVE  Richer(p, p)
  BY DEF Richer, Profile

(***************************************************************************)
(* A row is as cheap as itself.                                            *)
(***************************************************************************)
LEMMA SameIsCheaper ==
    ASSUME NEW ls, Known(ls), NEW k \in Ids
    PROVE  Cheaper(ls[k], ls[k])
  BY RowType DEF Cheaper, FallsFurther

(***************************************************************************)
(* A cut leaves every other row alone, and is a fall in the row's history. *)
(***************************************************************************)
LEMMA CutIsCheaper ==
    ASSUME TypeOK, Known(listings), NEW k \in Ids, Cut(k)
    PROVE  /\ \A j \in Ids \ {k} : listings'[j] = listings[j]
           /\ Cheaper(listings[k], listings'[k])
           /\ listings' # listings
  <1> DEFINE l == listings[k]
  <1>1. listings \in [Ids -> Listing] /\ l \in Listing /\ PriceIsLast(l)
    BY DEF Known
  <1>2. PICK c \in Prices : /\ c < l.price
                            /\ listings' = [listings EXCEPT ![k] = Priced(l, c)]
    BY DEF Cut
  <1>3. l.price # None /\ today \in Nat
    BY DEF Cut, TypeOK
  <1> DEFINE m == Priced(l, c)
             e == [old |-> l.price, new |-> c, day |-> today]
  <1>4. listings'[k] = m /\ \A j \in Ids \ {k} : listings'[j] = listings[j]
    BY <1>1, <1>2
  <1> HIDE DEF l
  <1>5. l.price \in Prices /\ l.price \in Nat /\ c \in Nat
    BY <1>1, <1>3, BriefingAssumption DEF Listing
  <1>6. e \in Event /\ e.old = l.price /\ e.new = c
    BY <1>3, <1>5 DEF Event
  <1>7. /\ m.kind = l.kind /\ m.area = l.area /\ m.lister = l.lister /\ m.city = l.city
        /\ m.corridor = l.corridor /\ m.tags = l.tags /\ m.posted = l.posted
        /\ m.reading = l.reading /\ m.price = c /\ m.events = Append(l.events, e)
    BY <1>1 DEF Priced, Listing
  <1>8. l.events # <<>> /\ Last(l.events).new = l.price
    BY <1>1, <1>3 DEF PriceIsLast
  <1> HIDE DEF m, e
  <1>9. FallsFurther(l.events, m.events)
    BY <1>2, <1>6, <1>7, <1>8 DEF FallsFurther
  <1>10. c <= l.price /\ c # l.price
    BY <1>2, <1>5
  <1>11. Cheaper(l, m)
    BY <1>5, <1>7, <1>9, <1>10 DEF Cheaper
  <1>12. listings' # listings
    BY <1>4, <1>7, <1>10 DEF l
  <1> QED
    BY <1>4, <1>11, <1>12 DEF l

(***************************************************************************)
(* A cut price, or a month of saving, never costs a live listing rank.     *)
(***************************************************************************)
LEMMA GoodNewsIsNoWorse ==
    ASSUME TypeOK, TypeOK', Known(listings), Known(listings'), [Next]_vars,
           NEW k \in live, Cut(k) \/ ticks' # ticks
    PROVE  NoWorse(k)
  <1> DEFINE a == Deal(k)
             b == DealNext(k)
  <1>1. profile \in Profile /\ today \in Nat /\ live \in SUBSET Ids /\ k \in Ids
    BY DEF TypeOK
  <1>2. NoMore(a, b)
    <2>1. CASE Cut(k)
      <3>1. /\ \A j \in Ids \ {k} : listings'[j] = listings[j]
            /\ Cheaper(listings[k], listings'[k])
            /\ listings' # listings
        BY <1>1, <2>1, CutIsCheaper
      <3>2. profile' = profile /\ live' = live /\ today' = today
        BY <3>1, RowsMoveAlone
      <3>3. NoMore(DealOf(profile, listings, live, today, k),
                   DealOf(profile, listings', live, today, k))
        <4>1. today \in Int /\ today <= today /\ Richer(profile, profile)
          BY <1>1, RicherThanItself
        <4> QED
          BY <1>1, <3>1, <4>1, DealNoMore
      <3> QED
        BY <3>2, <3>3 DEF Deal, DealNext
    <2>2. CASE ticks' # ticks
      <3>1. Tick
        BY <2>2 DEF Next, Reprice, Relocate, Tag, Extract, Date, Change, Leave, Score,
                    ReadTop, ReadWatchlist, ReadPlan, vars, counts
      <3>2. /\ listings' = listings /\ live' = live /\ today' = today + DaysPerTick
            /\ profile' = [profile EXCEPT !.liquid = @ + profile.monthly]
        BY <3>1 DEF Tick
      <3>3. today \in Int /\ today + DaysPerTick \in Int /\ today <= today + DaysPerTick
        BY <1>1, BriefingAssumption
      <3>4. profile' \in Profile /\ Richer(profile, profile')
        <4>1. profile' \in Profile
          BY <1>1, <3>2, SavingKeepsProfile
        <4>2. /\ profile.liquid \in Nat /\ profile.monthly \in Nat
              /\ profile'.reserved = profile.reserved /\ profile'.monthly = profile.monthly
              /\ profile'.ltv = profile.ltv
              /\ profile'.liquid = profile.liquid + profile.monthly
          BY <1>1, <3>2 DEF Profile
        <4>3. profile.liquid <= profile.liquid + profile.monthly
          BY <4>2
        <4> QED
          BY <4>1, <4>2, <4>3 DEF Richer
      <3>5. Cheaper(listings[k], listings[k])
        BY <1>1, SameIsCheaper
      <3>6. NoMore(DealOf(profile, listings, live, today, k),
                   DealOf(profile', listings, live, today + DaysPerTick, k))
        BY <1>1, <3>3, <3>4, <3>5, DealNoMore
      <3> QED
        BY <3>2, <3>6 DEF Deal, DealNext
    <2> QED
      BY <2>1, <2>2
  <1> HIDE DEF a, b
  <1>3. a # None => b # None /\ b >= a
    BY <1>2, NoMoreOrders
  <1> QED
    BY <1>3 DEF NoWorse, a, b

(***************************************************************************)
(* A tag that turns to a flag never gains a live listing rank.             *)
(***************************************************************************)
LEMMA BadNewsIsNoBetter ==
    ASSUME TypeOK, TypeOK', Known(listings), Known(listings'), [Next]_vars,
           NEW k \in live, Flagged(k)
    PROVE  NoBetter(k)
  <1> DEFINE a == Deal(k)
             b == DealNext(k)
             old == listings[k].tags
             new == listings'[k].tags
  <1>1. profile \in Profile /\ today \in Nat /\ live \in SUBSET Ids /\ k \in Ids
    BY DEF TypeOK
  <1>2. /\ DOMAIN new = DOMAIN old /\ new # old
        /\ \A i \in DOMAIN old : new[i] = old[i] \/ (new[i] = "flag" /\ old[i] # "fail")
        /\ listings' = [listings EXCEPT ![k].tags = new]
    BY DEF Flagged
  <1>3. TurnsTo(old, old)
    BY <1>1, RowType
  <1> HIDE DEF old, new
  <1>4. TurnsTo(old, new)
    BY <1>2, <1>3 DEF TurnsTo
  <1>5. profile' = profile /\ live' = live /\ today' = today
    <2>1. listings' # listings
      BY <1>2 DEF old, new
    <2> QED
      BY <2>1, RowsMoveAlone
  <1>6. NoMore(DealOf(profile, listings', live, today, k),
               DealOf(profile, listings, live, today, k))
    <2>1. TurnsTo(listings[k].tags, new) /\ today \in Int
      BY <1>1, <1>4 DEF old
    <2> QED
      BY <1>1, <1>2, <2>1, FlagNoMore
  <1>7. NoMore(b, a)
    BY <1>5, <1>6 DEF Deal, DealNext
  <1> HIDE DEF a, b
  <1>8. a # None => b # None /\ b <= a
    BY <1>7, NoMoreOrders
  <1> QED
    BY <1>8 DEF NoBetter, a, b

(***************************************************************************)
(* Whoever else is on the market and whatever their rates: a seller who    *)
(* cuts the price never loses rank by it, a month of saving costs no       *)
(* listing any, and a flag never gains one any.                            *)
(***************************************************************************)
THEOREM DealStaysMonotone == Spec => DealIsMonotone
  <1>1. TypeOK /\ TypeOK' /\ Known(listings) /\ Known(listings)' /\ [Next]_vars
          => [\A k \in live : /\ Cut(k) \/ ticks' # ticks => NoWorse(k)
                              /\ Flagged(k) => NoBetter(k)]_vars
    <2> SUFFICES ASSUME TypeOK, TypeOK', Known(listings), Known(listings)', [Next]_vars,
                        NEW k \in live
                 PROVE  /\ Cut(k) \/ ticks' # ticks => NoWorse(k)
                        /\ Flagged(k) => NoBetter(k)
      OBVIOUS
    <2>1. Known(listings')
      BY DEF Known
    <2> QED
      BY <2>1, GoodNewsIsNoWorse, BadNewsIsNoBetter
  <1> QED
    BY <1>1, TypeCorrect, ListingsStayKnown, PTL DEF Spec, DealIsMonotone

(***************************************************************************)
(* Every factor and every score is a share or abstains: what is no more    *)
(* than itself is.                                                         *)
(***************************************************************************)
THEOREM FactorsStayInRange == Spec => []FactorsInRange
  <1> DEFINE Found(k) == Decomposed(profile, listings[k], PeerRates(listings, live, k), today)
             Stored == scores \in [Ids -> Value]
  <1>1. ASSUME NEW v, NoMore(v, v)
        PROVE  v \in Value
    BY <1>1 DEF NoMore, Value
  <1>2. ASSUME TypeOK, Known(listings), NEW k \in Ids
        PROVE  Found(k) \in [DOMAIN WEIGHTS -> Value] /\ Deal(k) \in Value
    <2> DEFINE l == listings[k]
               rates == PeerRates(listings, live, k)
    <2>1. /\ profile \in Profile /\ today \in Int /\ today <= today /\ live \in SUBSET Ids
          /\ Richer(profile, profile) /\ Cheaper(l, l)
      BY <1>2, RicherThanItself, SameIsCheaper DEF TypeOK
    <2>2. /\ NoMore(legal_risk(l), legal_risk(l))
          /\ NoMore(capital_fit(profile, l), capital_fit(profile, l))
          /\ NoMore(price_vs_locality(l, rates), price_vs_locality(l, rates))
          /\ NoMore(thesis_fit(l), thesis_fit(l))
          /\ NoMore(distress(l, today), distress(l, today))
          /\ NoMore(seller_motivation(l), seller_motivation(l))
      BY <1>2, <2>1, FactorsNoMore
    <2>3. NoMore(Deal(k), Deal(k))
      BY <1>2, <2>1, DealNoMore DEF Deal
    <2> HIDE DEF l, rates
    <2>4. /\ legal_risk(l) \in Value /\ capital_fit(profile, l) \in Value
          /\ price_vs_locality(l, rates) \in Value /\ thesis_fit(l) \in Value
          /\ distress(l, today) \in Value /\ seller_motivation(l) \in Value
      BY <1>1, <2>2
    <2>5. Decomposed(profile, l, rates, today) \in [DOMAIN WEIGHTS -> Value]
      BY <2>4 DEF Decomposed, WEIGHTS
    <2> QED
      BY <1>1, <2>3, <2>5 DEF l, rates
  <1>3. Init => Stored
    BY DEF Init, Value
  <1>4. TypeOK /\ Known(listings) /\ Stored /\ [Next]_vars => Stored'
    <2> SUFFICES ASSUME TypeOK, Known(listings), Stored, [Next]_vars
                 PROVE  Stored'
      OBVIOUS
    <2>1. CASE Score
      <3>1. \A k \in Ids : Deal(k) \in Value
        BY <1>2
      <3> QED
        BY <2>1, <3>1 DEF Score
    <2>2. CASE ~Score
      <3>1. scores' = scores
        BY <2>2 DEF Next, Reprice, Relocate, Tag, Extract, Date, Change, Leave, Tick,
                    ReadTop, ReadWatchlist, ReadPlan, vars
      <3> QED
        BY <3>1
    <2> QED
      BY <2>1, <2>2
  <1>5. TypeOK /\ Known(listings) /\ Stored => FactorsInRange
    BY <1>2 DEF FactorsInRange
  <1> QED
    BY <1>3, <1>4, <1>5, TypeCorrect, ListingsStayKnown, PTL DEF Spec
===============================================================================
