---------------------------- MODULE MCMotivation ----------------------------
(***************************************************************************)
(* Two listings and two texts are enough for an edit to race the batch of  *)
(* the other listing; three batches for a re-submission of one of them.    *)
(* Of the two readings one leaves the columns signals and quote as they    *)
(* are while there is none, as "the common and correct answer" does.       *)
(***************************************************************************)
EXTENDS Motivation, TLC

CONSTANTS l1, l2, t1, t2, w1, w2

MCIds   == {l1, l2}
MCTexts == {t1, t2}
OneId   == {l1}
OneText == {t1}
MCWorkers == {w1, w2}
Alike == Permutations(MCIds) \cup Permutations(MCWorkers)

Urgent == [motivated |-> TRUE, score |-> 100, signals |-> {"distress_sale"},
           quote |-> "distress sale", confidence |-> 100]
Unmotivated == [motivated |-> FALSE, score |-> 0, signals |-> {}, quote |-> Null,
                confidence |-> 100]
OneReading  == {Urgent}
TwoReadings == {Urgent, Unmotivated}
===============================================================================
