------------------------------ MODULE MCBriefing ------------------------------
(***************************************************************************)
(* Money in units of ten thousand rupees, a deployable capital of Rs 10    *)
(* lakh and a loan of 70%: a price of 250 can be paid at once, 300 in a    *)
(* month, 460 in a year and a half; a flagged one not within the horizon.  *)
(***************************************************************************)
EXTENDS Briefing

Lot(kind, price, lister, corridor) ==
    [kind |-> kind, area |-> 1200, price |-> price, lister |-> lister,
     city |-> "mysore", corridor |-> corridor, tags |-> <<>>, posted |-> None,
     events |-> IF price = None THEN <<>> ELSE <<[old |-> None, new |-> price, day |-> 0]>>,
     reading |-> None]

T(rera, khata, jurisdiction) ==
    [rera_registered |-> rera, khata_type |-> khata, jurisdiction |-> jurisdiction,
     layout_approval |-> "unknown"]

MCLots == {Lot("plot", 300, "owner", TRUE), Lot("flat", 250, "broker", FALSE),
           Lot("builder floor", None, "builder", TRUE)}
NewLots == {Lot("plot", None, "owner", TRUE)}
MCTagSets == {T("unknown", "unknown", "pass"), T("unknown", "flag", "pass"),
              T("flag", "flag", "flag")}
MCPostings == {-90}
MCNeighbours == [land |-> <<220, 270>>, built |-> <<230, 240, 380>>]
MCProfiles == {[liquid |-> 160, reserved |-> 60, monthly |-> 4, committed |-> 60,
                ltv |-> 7000]}

(***************************************************************************)
(* For the ladder: slabs up to Rs 20 lakh and up to Rs 45 lakh.  The       *)
(* capital takes the values about which the ceiling crosses either bound,  *)
(* with and without a loan of 70%, and one between.                        *)
(***************************************************************************)
Capital == {66, 67, 69, 154, 155, 165, 206, 207, 209, 300, 469, 475, 480}

Owner(capital, committed, ltv) ==
    [liquid |-> 60 + capital, reserved |-> 60, monthly |-> 12, committed |-> committed,
     ltv |-> ltv]

LadderProfiles == {Owner(c, 60, l) : c \in Capital, l \in {0, 7000}}
LadderPrices   == {60, 200, 201, 450, 451}
LadderLots     == {[Lot("plot", c, "owner", TRUE) EXCEPT !.city = t, !.tags = s] :
                      c \in LadderPrices \cup {None}, t \in {"bangalore", "mysore"},
                      s \in {<<>>, T("pass", "flag", "unknown")}}
LadderTagSets  == {T("pass", "flag", "unknown")}

(***************************************************************************)
(* Large committed holdings, and a price just within their reach, beside   *)
(* the capital of the other profiles.                                      *)
(***************************************************************************)
HolderProfiles == {Owner(c, 1000, l) : c \in (100..110) \cup Capital, l \in {0, 7000}}
HolderPrices   == LadderPrices \cup {1000}
===============================================================================
