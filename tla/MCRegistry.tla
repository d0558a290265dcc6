------------------------------ MODULE MCRegistry ------------------------------
(***************************************************************************)
(* Two registration numbers and two promoters; one listing, with the khata *)
(* rules for its text.                                                     *)
(***************************************************************************)
EXTENDS Registry

CONSTANTS r1, r2, b1, b2, n1, l1

R(reg, promoter, name) == [reg |-> reg, promoter |-> promoter, name |-> name]

MCItems == <<"khata_type">>
MCRules == [khata_type |-> <<[pattern |-> "B khata", status |-> "flag"],
                             [pattern |-> "A khata", status |-> "pass"]>>]

(***************************************************************************)
(* A full page, one that starts with an application and names the second   *)
(* promoter for the first number, and a broken one.                        *)
(***************************************************************************)
MCPages ==
    { <<R(r1, b1, n1), R(r2, b2, n1)>>,
      <<R(Null, b1, n1), R(r1, b2, Null)>>,
      Malformed }
OverlapPages == { <<R(r1, b1, n1)>>, <<R(r1, b2, n1)>> }

Says(ids, words) == [ids |-> ids, words |-> words, recent |-> TRUE]
Unseen == [ids |-> <<r1>>, words |-> {}, recent |-> FALSE]
MCFacts == {Says(<<>>, {"A khata", "B khata"}), Says(<<r2, r1>>, {"A khata"}), Unseen}
NoWindow == {Unseen}
===============================================================================
