------------------------------- MODULE MCIngest -------------------------------
(***************************************************************************)
(* Small instances of Ingest: two listings, two prices, the feeds each run *)
(* of the checker needs.                                                   *)
(***************************************************************************)
EXTENDS Ingest

CONSTANTS p1, p2, a1, a2

L(i, p, a) == [kind |-> "listing", id |-> i, price |-> p, attrs |-> a]
Stub    == [kind |-> "stub"]
Project == [kind |-> "project"]

(***************************************************************************)
(* One session: a priced listing, a price cut in a feed that repeats it, a *)
(* vanished price, a changed description, a mostly unparsed feed, a feed   *)
(* of projects, an empty one, and one with the other listing only.         *)
(***************************************************************************)
SerialFeeds ==
    { <<L(1, p1, a1), L(2, p1, a1)>>,
      <<L(1, p2, a1), L(1, p1, a2)>>,
      <<L(1, Null, a1), Stub, Stub>>,
      <<L(2, p1, a2)>>,
      <<Project, Stub>>,
      <<>> }

(***************************************************************************)
(* Two sessions: feeds that meet the same listings in opposite orders, at  *)
(* different prices, and a feed that one of them has dropped out of.       *)
(***************************************************************************)
CrossingFeeds ==
    { <<L(1, p1, a1), L(2, p1, a1)>>,
      <<L(2, p2, a1), L(1, p2, a1)>> }
LookingFeeds  == CrossingFeeds \cup { <<>> }
SweptFeeds    == CrossingFeeds \cup { <<L(2, p1, a1)>> }
===============================================================================
