------------------------------- MODULE MCScores -------------------------------
(***************************************************************************)
(* Two weighted factors, under two weightings that rank differently; a     *)
(* listing has both factors, one of them, or neither.                      *)
(***************************************************************************)
EXTENDS Scores

MCFactors == <<"legal_risk", "price_vs_locality">>

Pair(T, x, y) == [f \in T |-> IF f = "legal_risk" THEN x ELSE y]

MCFirst == Pair(Range(MCFactors), 3, 1)

MCWeightings == {MCFirst, Pair(Range(MCFactors), 1, 1)}

MCFindings == {Pair(Range(MCFactors), p[1], p[2]) :
                 p \in {<<2, 1>>, <<Abstained, 1>>, <<Abstained, Abstained>>}}

(***************************************************************************)
(* At first one listing has both factors, and the others have one.         *)
(***************************************************************************)
MCInitially == {[l \in Ids |-> IF l = x THEN Pair(Range(MCFactors), 2, 1)
                                        ELSE Pair(Range(MCFactors), Abstained, 1)] :
                  x \in {CHOOSE l \in Ids : TRUE}}
===============================================================================
