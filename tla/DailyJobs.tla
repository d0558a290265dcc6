------------------------------- MODULE DailyJobs -------------------------------
(***************************************************************************)
(* The process that collects every day (jobs.py, main.py's lifespan): its  *)
(* scheduler with the in-memory jobstore, the catch-up thread of a start,  *)
(* manual runs from the CLI, deaths and restarts, and what the gate and    *)
(* the digest's health line make of the runs they leave.                   *)
(*                                                                         *)
(* A collection run is its row in scrape_runs: Ingest says what happens    *)
(* inside.  The sweep and the scoring leave no such row and are not here.  *)
(* The clock stops at midnight, at the times of the schedule and at noon.  *)
(*                                                                         *)
(* A definition named Faulty... is not used: it is the definition that     *)
(* follows it with a plausible bug, with which a property below fails.     *)
(***************************************************************************)
EXTENDS GateHealth, SequencesExt

CONSTANTS
    Rera,         \* the registry source
    Portals,      \* the portal sources, in the order of the registry
    Shipped,      \* those of them a first release may enable
    Jobs,         \* the jobs of the schedule that are modelled
    Faults,       \* subset of {"bad run", "strand", "crash", "deploy", "cli"}
    MaxFaults, MaxDay, MaxRuns  \* bounds of the model

Order   == <<Rera>> \o Portals  \* in which a pass takes its sources
Sources == {Rera} \cup Range(Portals)

ASSUME DailyAssumption == /\ Shipped \subseteq Range(Portals)
                          /\ Rera \notin Range(Portals)
                          /\ Jobs \subseteq {"rera", "portals", "digest"}
                          /\ Window \in Nat /\ MaxDay \in Nat

VARIABLES
    now,       \* minutes since the first midnight
    up,        \* whether the process is alive
    checking,  \* its catch-up thread has not looked at the gate yet
    due,       \* the jobs the scheduler will still start today
    todo,      \* the sources each thread has yet to collect
    at,        \* the run each thread has open, 0 if none
    runs,      \* scrape_runs
    sources,   \* the table sources: enabled, or Rera's absence: "none"
    registry,  \* the portals the deployed registry enables
    named,     \* the sources each day's digest calls degraded
    faults     \* the faults so far, in order

process == <<up, checking, due, todo, at>>
tables  == <<runs, sources>>
vars    == <<now, process, tables, registry, named, faults>>

JobAt  == [rera |-> 330, portals |-> 360, digest |-> 435]
Times  == {0, 720} \cup {JobAt[j] : j \in Jobs}
Threads == {"rera", "portals", "catchup", "cli"}

Today == DayOf(now)
Time  == now % 1440
Enabled == {s \in Sources : sources[s] = "enabled"}
InRegistry(s) == s = Rera \/ s \in registry
Active(t) == todo[t] # {} \/ at[t] # 0

Init ==
    /\ now = 0
    /\ up = TRUE
    /\ checking = FALSE
    /\ due = Jobs
    /\ todo = [t \in Threads |-> {}]
    /\ at = [t \in Threads |-> 0]
    /\ runs = <<>>
    /\ sources = [s \in Sources |-> "none"]
    /\ registry \in SUBSET Shipped
    /\ named = [d \in 0..MaxDay |-> {}]
    /\ faults = <<>>

Fault(kind) == /\ kind \in Faults
               /\ Len(faults) < MaxFaults
               /\ faults' = Append(faults, kind)

-------------------------------------------------------------------------------
(***************************************************************************)
(* The scheduler.  A job of the last day that is still running makes this  *)
(* one's start a no-op (max_instances).                                    *)
(***************************************************************************)
Fire(j) ==
    /\ up /\ j \in due /\ Time = JobAt[j]
    /\ due' = due \ {j}
    /\ IF j = "digest"
       THEN /\ named' = [named EXCEPT ![Today] = Unhealthy(runs, Enabled, now)]
            /\ UNCHANGED todo
       ELSE /\ todo' = IF Active(j) THEN todo
                       ELSE [todo EXCEPT ![j] = IF j = "rera" THEN {Rera} ELSE registry]
            /\ UNCHANGED named
    /\ UNCHANGED <<now, up, checking, at, tables, registry, faults>>

(***************************************************************************)
(* One source of a thread.  The row of a source is created by its first    *)
(* run, and records whether the registry enables it then; RERA's is        *)
(* enabled by default.                                                     *)
(***************************************************************************)
FirstSeen(s) == IF InRegistry(s) THEN "enabled" ELSE "disabled"

IsNext(s, S) == \A j \in DOMAIN Order : Order[j] \in S =>
                    \E i \in 1..j : Order[i] = s

StartRun(t) ==
    /\ at[t] = 0
    /\ Len(runs) < MaxRuns
    /\ \E s \in todo[t] :
         /\ IsNext(s, todo[t])
         /\ runs' = Append(runs, [source |-> s, started |-> now, status |-> "running"])
         /\ sources' = [sources EXCEPT ![s] = IF @ = "none" THEN FirstSeen(s) ELSE @]
         /\ todo' = [todo EXCEPT ![t] = @ \ {s}]
    /\ at' = [at EXCEPT ![t] = Len(runs) + 1]
    /\ UNCHANGED <<now, up, checking, due, registry, named, faults>>

EndRun(t, status) ==
    /\ at[t] # 0
    /\ runs' = [runs EXCEPT ![at[t]].status = status]
    /\ at' = [at EXCEPT ![t] = 0]
    /\ UNCHANGED <<now, up, checking, due, todo, sources, registry, named>>

Succeed(t)  == EndRun(t, "ok") /\ UNCHANGED faults
GoBadly(t)  == Fault("bad run") /\ \E status \in Bad : EndRun(t, status)

(***************************************************************************)
(* An error that leaves run_source after its run was opened: the row stays *)
(* 'running', and the thread goes on to its next source.                   *)
(***************************************************************************)
Strand(t) == Fault("strand") /\ EndRun(t, "running")

(***************************************************************************)
(* The CLI, in the same container: "run" takes one source, enabled or not, *)
(* "daily" takes the whole of run_daily.                                   *)
(***************************************************************************)
EveryStep == {Rera} \cup registry

Manual ==
    /\ up /\ ~Active("cli")
    /\ Fault("cli")
    /\ \E steps \in {{s} : s \in Sources} \cup {EveryStep} :
         todo' = [todo EXCEPT !["cli"] = steps]
    /\ UNCHANGED <<now, up, checking, due, at, tables, registry, named>>

-------------------------------------------------------------------------------
(***************************************************************************)
(* Death and restart.  On a start the scheduler schedules what is still to *)
(* come today, and the catch-up thread asks the gate about today.          *)
(***************************************************************************)
Crash ==
    /\ up
    /\ Fault("crash")
    /\ up' = FALSE
    /\ checking' = FALSE
    /\ due' = {}
    /\ todo' = [t \in Threads |-> {}]
    /\ at' = [t \in Threads |-> 0]
    /\ UNCHANGED <<now, tables, registry, named>>

Boot ==
    /\ ~up
    /\ up' = TRUE
    /\ checking' = TRUE
    /\ due' = {j \in Jobs : JobAt[j] > Time}
    /\ UNCHANGED <<now, todo, at, tables, registry, named, faults>>

FaultyCatchUpNeeded == Time >= JobAt["rera"] /\ \A r \in 1..Len(runs) : DayOf(runs[r].started) # Today
CatchUpNeeded == Time >= JobAt["rera"] /\ ~Clean(runs, Enabled, Today)

CatchUp ==
    /\ checking
    /\ checking' = FALSE
    /\ todo' = IF CatchUpNeeded
               THEN [todo EXCEPT !["catchup"] = EveryStep]
               ELSE todo
    /\ UNCHANGED <<now, up, due, at, tables, registry, named, faults>>

Deploy ==
    /\ ~up
    /\ Fault("deploy")
    /\ \E s \in Range(Portals) :
         registry' = IF s \in registry THEN registry \ {s} ELSE registry \cup {s}
    /\ UNCHANGED <<now, process, tables, named>>

(***************************************************************************)
(* Time passes.  A due job is started at its time, the catch-up looks at   *)
(* the gate at once, and a thread takes time in a run and not between two; *)
(* no run takes from noon to the next day.                                 *)
(***************************************************************************)
NextTime == Min({t \in Times \cup {1440} : t > Time}) - Time

Tick ==
    /\ ~checking
    /\ \A j \in due : JobAt[j] # Time
    /\ \A t \in Threads : Active(t) => at[t] # 0 /\ Time # 720
    /\ DayOf(now + NextTime) <= MaxDay
    /\ now' = now + NextTime
    /\ due' = IF up /\ DayOf(now') # Today THEN Jobs ELSE due
    /\ UNCHANGED <<up, checking, todo, at, tables, registry, named, faults>>

Next ==
    \/ \E j \in Jobs : Fire(j)
    \/ \E t \in Threads : StartRun(t) \/ Succeed(t) \/ GoBadly(t) \/ Strand(t)
    \/ Manual \/ Crash \/ Boot \/ CatchUp \/ Deploy \/ Tick

Spec == Init /\ [][Next]_vars

-------------------------------------------------------------------------------
(***************************************************************************)
(* The process, its threads and the tables are well formed.                *)
(***************************************************************************)
TypeOK ==
    /\ now \in 0..(MaxDay + 1) * 1440
    /\ Time \in Times
    /\ up \in BOOLEAN /\ checking \in BOOLEAN
    /\ due \subseteq Jobs
    /\ at \in [Threads -> 0..Len(runs)]
    /\ todo \in [Threads -> SUBSET Sources]
    /\ \A r \in 1..Len(runs) : /\ runs[r].source \in Sources
                               /\ runs[r].started <= now
                               /\ runs[r].status \in Statuses
    /\ sources \in [Sources -> {"none", "enabled", "disabled"}]
    /\ \A s \in Sources : sources[s] = "none" <=> RunsOf(runs, s) = {}
    /\ registry \subseteq Range(Portals)
    /\ \A d \in 0..MaxDay : named[d] \subseteq Sources
    /\ faults \in Seq(Faults) /\ Len(faults) <= MaxFaults

GateStreak == Streak(runs, Enabled, Today)

(***************************************************************************)
(* "Today never breaks the streak until it has run", "only an actual bad   *)
(* run that day breaks it": within a day the streak loses no past day      *)
(* unless an enabled source has only bad runs today.                       *)
(***************************************************************************)
BadToday == \E s \in Enabled : DayBad(runs, s, Today)
OnlyBadRunsBreak ==
    [][Today' = Today /\ ~BadToday' =>
         GateStreak' >= GateStreak - IF Clean(runs, Enabled, Today) THEN 1 ELSE 0]_vars

(***************************************************************************)
(* "Evidence, not a claim": the streak grows only by an 'ok' run of today, *)
(* the first one of its source, after which every enabled source has one,  *)
(* or by which the last source with only bad runs recovers.  No midnight,  *)
(* restart or catch-up, no dead source leaving the window and no other     *)
(* outcome of a run adds a day; else the gate "would cheerfully report     *)
(* CLEAN for a totally dead scraper".                                      *)
(***************************************************************************)
OkNow(s) == DayOk(runs', s, Today') /\ ~DayOk(runs, s, Today)
OnlyOkRunsExtend ==
    [][GateStreak' > GateStreak =>
         /\ Today' = Today
         /\ \E s \in Enabled : OkNow(s)
         /\ \/ \A s \in Enabled' : DayOk(runs', s, Today')
            \/ BadToday /\ ~BadToday']_vars

(***************************************************************************)
(* "Any restart or maintenance window spanning 05:30-06:45 costs a gate    *)
(* day" no more: once the process is up and idle at noon, the gate waits   *)
(* for nothing more today, which is clean or has a source with bad runs,   *)
(* unless a run was stranded, or a release switched a source off that the  *)
(* table still calls enabled (OffIsNotDemanded).                           *)
(***************************************************************************)
DayRecovered ==
    /\ Range(faults) \cap {"strand", "deploy"} = {}
    /\ up /\ ~checking /\ Time = 720
    /\ \A t \in Threads : ~Active(t)
    => ~PendingDay(runs, Enabled, Today)

(***************************************************************************)
(* "'No new listings' and 'the scraper is dead' have to look different":   *)
(* the digest names an enabled source that yesterday and today had bad     *)
(* runs and not one 'ok' run, whatever else happened to it.                *)
(***************************************************************************)
DeadOn(s, d) == DayBad(runs, s, d - 1) /\ DayBad(runs, s, d)
DigestBuilt  == \E j \in due : j = "digest" /\ up' /\ j \notin due'
DeadSourcesNamed ==
    [][DigestBuilt => \A s \in Enabled : DeadOn(s, Today) => s \in named'[Today]]_vars

(***************************************************************************)
(* "Booting ... must not pre-empt the scheduler's own 06:00 fire": the     *)
(* catch-up collects no portal that the scheduler will still collect today.*)
(***************************************************************************)
NoPreemption ==
    "portals" \in due /\ at["catchup"] # 0 => runs[at["catchup"]].source = Rera

(***************************************************************************)
(* The gate "never demands a daily ok run from a source that is switched   *)
(* off" in the registry.                                                   *)
(***************************************************************************)
OffIsNotDemanded ==
    up => \A s \in Demanded(runs, Enabled, Today) : InRegistry(s)
===============================================================================
