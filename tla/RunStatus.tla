------------------------------ MODULE RunStatus ------------------------------
(***************************************************************************)
(* The status a scrape run closes with (run_source, last part): a pure     *)
(* function of how many records the portal returned, how many of them      *)
(* could not be parsed or stored, how many are builder projects, and the   *)
(* sizes of the last 'ok' runs.  The code divides floats; every quotient   *)
(* is compared with 0.3 or 0.5, which correctly rounded division orders    *)
(* exactly as the cross-multiplied integers do.                            *)
(***************************************************************************)
EXTENDS Integers, Sequences, Functions

Terminal == {"ok", "anomalous", "failed"}
Statuses == Terminal \cup {"running"}

(***************************************************************************)
(* Records that were meant to be listings; skips are not counted.          *)
(***************************************************************************)
Considered(items, skipped) == items - skipped

(***************************************************************************)
(* ANOMALY_UNPARSED_RATIO: strictly more than 30% of the considered        *)
(* records failed.  ANOMALY_VOLUME_RATIO: fewer records than half of the   *)
(* trailing average; no 'ok' run yet means there is no average.            *)
(***************************************************************************)
MostlyUnparsed(failed, considered) == 10 * failed > 3 * considered

SumOf(sizes) == FoldFunction(+, 0, sizes)

VolumeCollapsed(items, sizes) ==
    sizes # <<>> /\ 2 * items * Len(sizes) < SumOf(sizes)

(***************************************************************************)
(* The status branches, in the order of the code.                          *)
(***************************************************************************)
FaultyClassify(items, failed, skipped, sizes) ==
    IF items > 0 /\ MostlyUnparsed(failed, items) THEN "anomalous" ELSE "ok"

Classify(items, failed, skipped, sizes) ==
    LET considered == Considered(items, skipped)
        parsed     == items - failed - skipped
    IN IF items = 0 THEN "anomalous"
       ELSE IF parsed = 0
            THEN IF considered = 0 THEN "anomalous" ELSE "failed"
            ELSE IF \/ MostlyUnparsed(failed, considered)
                    \/ VolumeCollapsed(items, sizes)
                 THEN "anomalous"
                 ELSE "ok"
==============================================================================
