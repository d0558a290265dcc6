------------------------------ MODULE GateHealth ------------------------------
(***************************************************************************)
(* What Atlas says about its own collection, as functions of the table     *)
(* scrape_runs: the Phase-1 gate (gate.py) and the health of a source      *)
(* (health.py).  Time is counted in minutes of Asia/Kolkata time.  runs is *)
(* the table in order of started_at, on the set of the sources enabled in  *)
(* the database.                                                           *)
(*                                                                         *)
(* A definition named Faulty... is not used: it is the definition that     *)
(* follows it with a plausible bug, with which a property of DailyJobs     *)
(* fails.                                                                  *)
(***************************************************************************)
EXTENDS Integers, Sequences, FiniteSetsExt, RunStatus

CONSTANTS Window  \* gate_status's window_days

DayOf(t) == t \div 1440

RunsOf(runs, s) == {r \in 1..Len(runs) : runs[r].source = s}

-------------------------------------------------------------------------------
(***************************************************************************)
(* The gate.  A source is demanded from the day of its first run, which is *)
(* looked for in the whole history and not only in the window.             *)
(***************************************************************************)
FaultyDemanded(runs, enabled, day) ==
    {s \in enabled : \E r \in RunsOf(runs, s) :
                         DayOf(runs[r].started) \in day - Window..day}
Demanded(runs, enabled, day) ==
    {s \in enabled : \E r \in RunsOf(runs, s) : DayOf(runs[r].started) <= day}

StatusesOn(runs, s, day) ==
    {runs[r].status : r \in {k \in RunsOf(runs, s) : DayOf(runs[k].started) = day}}

(***************************************************************************)
(* One 'ok' run makes a day good whatever else ran; without one, a day with*)
(* a failed or anomalous run is bad, and another is missing or running.    *)
(***************************************************************************)
Bad == {"failed", "anomalous"}
DayOk(runs, s, day)  == "ok" \in StatusesOn(runs, s, day)
DayBad(runs, s, day) == /\ ~DayOk(runs, s, day)
                        /\ StatusesOn(runs, s, day) \cap Bad # {}

Clean(runs, enabled, day) ==
    LET demanded == Demanded(runs, enabled, day)
    IN demanded # {} /\ \A s \in demanded : DayOk(runs, s, day)

FaultyPendingDay(runs, enabled, day) ==
    /\ ~Clean(runs, enabled, day)
    /\ \A s \in Demanded(runs, enabled, day) : StatusesOn(runs, s, day) = {}
PendingDay(runs, enabled, day) ==
    /\ ~Clean(runs, enabled, day)
    /\ \A s \in Demanded(runs, enabled, day) : ~DayBad(runs, s, day)

(***************************************************************************)
(* Clean days counted back from today, or from yesterday while today is    *)
(* pending, as far as the window goes.                                     *)
(***************************************************************************)
Streak(runs, enabled, today) ==
    LET last == IF PendingDay(runs, enabled, today) THEN today - 1 ELSE today
    IN Max({n \in 0..last - today + Window + 1 :
              \A k \in 0..n - 1 : Clean(runs, enabled, last - k)})

-------------------------------------------------------------------------------
(***************************************************************************)
(* The health of a source: it has never run, its last run is stuck or too  *)
(* long ago, or too many runs since its last 'ok' one were bad.            *)
(***************************************************************************)
FaultyConsecutiveBad(runs, s) ==
    Cardinality({r \in RunsOf(runs, s) :
        /\ runs[r].status = "failed"
        /\ \A k \in RunsOf(runs, s) : k > r => runs[k].status # "ok"})
ConsecutiveBad(runs, s) ==
    Cardinality({r \in RunsOf(runs, s) :
        /\ runs[r].status \in Bad
        /\ \A k \in RunsOf(runs, s) : k > r => runs[k].status # "ok"})

LastRun(runs, s) == runs[Max(RunsOf(runs, s))]

Stuck(runs, s, now)  == /\ LastRun(runs, s).status = "running"
                        /\ now - LastRun(runs, s).started > 2 * 60
Silent(runs, s, now) == now - LastRun(runs, s).started > 36 * 60

Unhealthy(runs, enabled, now) ==
    {s \in enabled : \/ RunsOf(runs, s) = {}
                     \/ Stuck(runs, s, now)
                     \/ Silent(runs, s, now)
                     \/ ConsecutiveBad(runs, s) >= 2}
===============================================================================
