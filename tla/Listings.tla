------------------------------- MODULE Listings -------------------------------
(***************************************************************************)
(* One row of the table listings, the rows of listing_versions and         *)
(* price_events that go with it, and what one observation of the listing   *)
(* (_upsert_listing) or one staleness sweep does to the three of them.     *)
(*                                                                         *)
(* Attrs stands for locality_id and the TRACKED_FIELDS, which the code     *)
(* compares and overwrites together.  Columns no property tells apart      *)
(* (geohash6, parser_version, posted_at, city) are left out.               *)
(*                                                                         *)
(* A definition named Faulty... is not used: it is the definition that     *)
(* follows it with a plausible bug, with which a property of Ingest fails. *)
(***************************************************************************)
EXTENDS Integers, Sequences, Columns

CONSTANTS
    Ids,     \* external ids of the portal's listings
    Prices,  \* prices in rupees
    Attrs,   \* values of the tracked columns
    Null     \* SQL NULL, and Python's None

(***************************************************************************)
(* A record of a portal's feed, as its parser sees it: a listing, a        *)
(* builder project (SKIP), or a stub the parser cannot read (None, or an   *)
(* exception).  Only a listing carries an external id.                     *)
(***************************************************************************)
ListingItem == [kind : {"listing"}, id : Ids,
                price : Prices \cup {Null}, attrs : Attrs]
Item == ListingItem \cup [kind : {"project", "stub"}]

Row == [price : Prices \cup {Null}, attrs : Attrs,
        status : {"active", "relisted", "removed"},
        seen : Nat, removedAt : Nat \cup {Null}]

ASSUME NullAssumption == Null \notin Nat /\ Null \notin Prices /\ Null \notin Row

PriceEvent == [old : Prices \cup {Null}, new : Prices]

(***************************************************************************)
(* A version written by an observation carries the run and the parsed      *)
(* record; one written by the sweep has no run, and its snapshot says when *)
(* the listing was last seen.  cutoff is the sweep's own now minus         *)
(* stale_days.                                                             *)
(***************************************************************************)
ObservedKinds == {"new", "updated", "price_changed", "relisted"}
ObservedVersion == [run : Nat, kind : ObservedKinds, snapshot : ListingItem]
RemovedVersion  == [run : {Null}, kind : {"removed"}, seen : Nat, cutoff : Int]
Version == ObservedVersion \cup RemovedVersion

Observed(run, kind, item) == [run |-> run, kind |-> kind, snapshot |-> item]

-------------------------------------------------------------------------------
(***************************************************************************)
(* What an observation finds changed with respect to the row as read.      *)
(***************************************************************************)
PriceChanged(old, item)  == item.price # Null /\ old.price # item.price
PriceVanished(old, item) == item.price = Null /\ old.price # Null
FaultyOtherChanged(old, item)   == PriceVanished(old, item)
OtherChanged(old, item)  == PriceVanished(old, item) \/ old.attrs # item.attrs

(***************************************************************************)
(* A vanished price keeps the last known value.                            *)
(***************************************************************************)
KeptPrice(old, item) == IF item.price = Null THEN old.price ELSE item.price

FaultyNewRow(item, t) ==
    [price |-> item.price, attrs |-> item.attrs, status |-> "new",
     seen |-> t, removedAt |-> Null]
NewRow(item, t) ==
    [price |-> item.price, attrs |-> item.attrs, status |-> "active",
     seen |-> t, removedAt |-> Null]

(***************************************************************************)
(* The row after the observation, as the session's object holds it: a      *)
(* removed listing comes back as relisted, with its removal date cleared.  *)
(***************************************************************************)
SeenRow(old, item, t) ==
    [price |-> KeptPrice(old, item), attrs |-> item.attrs, seen |-> t,
     status |-> IF old.status = "removed" THEN "relisted" ELSE old.status,
     removedAt |-> IF old.status = "removed" THEN Null ELSE old.removedAt]

(***************************************************************************)
(* The change kinds recorded, in order: a relist comes first and a price   *)
(* move across it is recorded as well; otherwise a price move hides any    *)
(* other change; an unchanged observation records nothing.                 *)
(***************************************************************************)
Kinds(old, item) ==
    IF old.status = "removed"
    THEN IF PriceChanged(old, item) THEN <<"relisted", "price_changed">>
                                    ELSE <<"relisted">>
    ELSE CASE PriceChanged(old, item) -> <<"price_changed">>
           [] ~PriceChanged(old, item) /\ OtherChanged(old, item) -> <<"updated">>
           [] ~PriceChanged(old, item) /\ ~OtherChanged(old, item) -> <<>>

VersionsOfKinds(kinds, run, item) ==
    [i \in 1..Len(kinds) |-> Observed(run, kinds[i], item)]

(***************************************************************************)
(* One observation: the row to write, and the versions and price events to *)
(* append.  old is the row the session read, Null if there was none.       *)
(***************************************************************************)
FaultyObserve(old, item, run, t) ==
    IF old = Null
    THEN [row |-> NewRow(item, t),
          versions |-> <<Observed(run, "new", item)>>,
          events |-> <<>>]
    ELSE [row |-> SeenRow(old, item, t),
          versions |-> VersionsOfKinds(Kinds(old, item), run, item),
          events |-> IF PriceChanged(old, item)
                     THEN <<[old |-> old.price, new |-> item.price]>>
                     ELSE <<>>]

Observe(old, item, run, t) ==
    IF old = Null
    THEN [row |-> NewRow(item, t),
          versions |-> <<Observed(run, "new", item)>>,
          events |-> IF item.price = Null
                     THEN <<>>
                     ELSE <<[old |-> Null, new |-> item.price]>>]
    ELSE [row |-> SeenRow(old, item, t),
          versions |-> VersionsOfKinds(Kinds(old, item), run, item),
          events |-> IF PriceChanged(old, item)
                     THEN <<[old |-> old.price, new |-> item.price]>>
                     ELSE <<>>]

(***************************************************************************)
(* One removal by the sweep.                                               *)
(***************************************************************************)

Removal(old, t, cutoff) ==
    [row |-> [old EXCEPT !.status = "removed", !.removedAt = t],
     versions |-> <<[run |-> Null, kind |-> "removed", seen |-> old.seen,
                     cutoff |-> cutoff]>>,
     events |-> <<>>]
===============================================================================
