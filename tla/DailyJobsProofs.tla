---------------------------- MODULE DailyJobsProofs ----------------------------
(***************************************************************************)
(* Theorems about DailyJobs, for any sources, registry, window, days and   *)
(* faults: what the gate's streak promises, what its day comes to once the *)
(* process is idle, and what the digest's health line names.               *)
(***************************************************************************)
EXTENDS DailyJobs, FiniteSetTheorems, WellFoundedInduction, TLAPS

(***************************************************************************)
(* A nonempty set of natural numbers has a least member: of the initial    *)
(* segments up to its members, one contains no other.                      *)
(***************************************************************************)
LEMMA LeastNat ==
    ASSUME NEW T \in SUBSET Nat, T # {}
    PROVE  \E n \in T : \A m \in T : n <= m
<1> DEFINE U == {1..n : n \in T}
<1>1. U \subseteq FiniteSubsetsOf(Nat) /\ U # {}
  <2>1. ASSUME NEW n \in T
        PROVE  1..n \in FiniteSubsetsOf(Nat)
    BY FS_Interval DEF FiniteSubsetsOf
  <2> QED BY <2>1
<1>2. PICK x \in U : \A y \in U : ~(<<y, x>> \in StrictSubsetOrdering(Nat))
  <2> HIDE DEF U
  <2> QED BY <1>1, FS_StrictSubsetOrderingWellFounded, WFMin
<1>3. PICK n \in T : x = 1..n
  OBVIOUS
<1>4. ASSUME NEW m \in T, ~(n <= m)
      PROVE  FALSE
  <2>1. 1..m \in U /\ 1..m \subseteq 1..n /\ n \in 1..n /\ n \notin 1..m
    BY <1>4
  <2>2. <<1..m, 1..n>> \in StrictSubsetOrdering(Nat)
    BY <2>1 DEF StrictSubsetOrdering
  <2> QED BY <1>2, <1>3, <2>1, <2>2
<1> QED BY <1>4

LEMMA MinIs ==
    ASSUME NEW T \in SUBSET Nat, T # {}
    PROVE  Min(T) \in T /\ \A m \in T : Min(T) <= m
BY LeastNat DEF Min

LEMMA MaxIs ==
    ASSUME NEW n \in Nat, NEW T \in SUBSET (0..n), T # {}
    PROVE  Max(T) \in T /\ \A m \in T : m <= Max(T)
<1> DEFINE U == {n - m : m \in T}
<1>1. U \in SUBSET Nat /\ U # {}
  <2>1. PICK k \in T : TRUE
    OBVIOUS
  <2>2. n - k \in U
    BY <2>1
  <2>3. \A m \in T : n - m \in Nat
    OBVIOUS
  <2> QED BY <2>2, <2>3
<1>2. PICK x \in U : \A y \in U : x <= y
  <2> HIDE DEF U
  <2> QED BY <1>1, LeastNat
<1>3. PICK m \in T : x = n - m
  OBVIOUS
<1>4. \A k \in T : k <= m
  <2> SUFFICES ASSUME NEW k \in T PROVE k <= m
    OBVIOUS
  <2>1. n - k \in U
    OBVIOUS
  <2> HIDE DEF U
  <2> QED BY <1>2, <1>3, <2>1
<1> QED BY <1>3, <1>4 DEF Max

-------------------------------------------------------------------------------
(***************************************************************************)
(* The streak counts clean days back from today or from yesterday, and no  *)
(* longer run of them fits the window.                                     *)
(***************************************************************************)
LastDay(rs, es, day) == IF PendingDay(rs, es, day) THEN day - 1 ELSE day
Run(rs, es, last, n) == \A k \in 0..n - 1 : Clean(rs, es, last - k)

LEMMA StreakIs ==
    ASSUME NEW rs, NEW es, NEW day \in Int
    PROVE  LET last == LastDay(rs, es, day)
               n == Streak(rs, es, day)
           IN /\ last \in {day - 1, day}
              /\ n \in 0..last - day + Window + 1
              /\ Run(rs, es, last, n)
              /\ \A m \in 0..last - day + Window + 1 : Run(rs, es, last, m) => m <= n
<1> DEFINE last == LastDay(rs, es, day)
           top == last - day + Window + 1
           T == {n \in 0..top : Run(rs, es, last, n)}
<1>1. last \in {day - 1, day} /\ top \in Nat
  BY DailyAssumption DEF LastDay
<1>2. Streak(rs, es, day) = Max(T)
  BY DEF Streak, LastDay, Run
<1>3. 0 \in T
  BY <1>1 DEF Run
<1> HIDE DEF top, last
<1>4. Max(T) \in T /\ \A m \in T : m <= Max(T)
  BY <1>1, <1>3, MaxIs
<1> QED BY <1>1, <1>2, <1>4 DEF top, last

-------------------------------------------------------------------------------
(***************************************************************************)
(* The process and its tables.  Runs are in the order of their start; a    *)
(* thread's open run is its own, is 'running', and started today; a source *)
(* has a row from its first run on.                                        *)
(***************************************************************************)
Rows == [source : Sources, started : Nat, status : Statuses]

Shape ==
    /\ now \in Nat /\ Time \in Times /\ Today \in 0..MaxDay
    /\ up \in BOOLEAN /\ checking \in BOOLEAN
    /\ due \subseteq Jobs
    /\ todo \in [Threads -> SUBSET Sources]
    /\ at \in [Threads -> Nat]
    /\ runs \in Seq(Rows)
    /\ sources \in [Sources -> {"none", "enabled", "disabled"}]
    /\ registry \subseteq Range(Portals)
    /\ named \in [0..MaxDay -> SUBSET Sources]
    /\ faults \in Seq(Faults)

Dated ==
    /\ \A r \in 1..Len(runs) : runs[r].started <= now
    /\ \A q, r \in 1..Len(runs) : q < r => runs[q].started <= runs[r].started

Open ==
    /\ \A t \in Threads : at[t] # 0 =>
          /\ at[t] \in 1..Len(runs)
          /\ runs[at[t]].status = "running"
          /\ DayOf(runs[at[t]].started) = Today
    /\ \A t, u \in Threads : at[t] # 0 /\ at[t] = at[u] => t = u

Seen == \A s \in Sources : sources[s] = "none" <=> RunsOf(runs, s) = {}

HInv == Shape /\ Dated /\ Open /\ Seen

(***************************************************************************)
(* The day's work.  What is due is still to come, and its thread is idle;  *)
(* a process that is down does nothing; while its catch-up has not looked  *)
(* at the gate it does nothing else, and all the later jobs are due.       *)
(***************************************************************************)
DueAhead == \A j \in due : /\ Time <= JobAt[j]
                           /\ j # "digest" => ~Active(j)
Down == ~up => due = {} /\ ~checking /\ \A t \in Threads : ~Active(t)
Waking == checking => /\ ~Active("catchup")
                      /\ \A j \in Jobs : JobAt[j] > Time => j \in due

Unharmed == Range(faults) \cap {"strand", "deploy"} = {}
OwnRegistry == Unharmed => \A s \in Sources : sources[s] = "enabled" <=> 
                              sources[s] # "none" /\ InRegistry(s)

Settled(s) == StatusesOn(runs, s, Today) \cap ({"ok"} \cup Bad) # {}
Ahead(s)   == \/ \E t \in Threads : s \in todo[t]
              \/ s = Rera /\ "rera" \in due
              \/ s \in registry /\ "portals" \in due
InHand(s)  == \E t \in Threads : at[t] # 0 /\ runs[at[t]].source = s

Covered ==
    Unharmed /\ up /\ ~checking =>
        /\ \A s \in Enabled : Settled(s) \/ Ahead(s) \/ InHand(s)
        /\ Enabled # {} \/ Ahead(Rera)


-------------------------------------------------------------------------------
(***************************************************************************)
(* The clock: the next stop is later today, or the midnight after noon.    *)
(***************************************************************************)
LEMMA DayArithmetic ==
    ASSUME NEW n \in Nat, NEW k \in Nat
    PROVE  /\ (n % 1440) + k < 1440 =>
                (n + k) % 1440 = (n % 1440) + k /\ (n + k) \div 1440 = n \div 1440
           /\ (n % 1440) + k = 1440 =>
                (n + k) % 1440 = 0 /\ (n + k) \div 1440 = (n \div 1440) + 1
OBVIOUS

LEMMA StopsAre ==
    /\ \A j \in Jobs : j \in {"rera", "portals", "digest"} /\ JobAt[j] \in Times
    /\ JobAt = [rera |-> 330, portals |-> 360, digest |-> 435]
    /\ Times \subseteq {0, 330, 360, 435, 720} /\ {0, 720} \subseteq Times
BY DailyAssumption DEF Times, JobAt

LEMMA TickIs ==
    ASSUME Shape, Tick
    PROVE  /\ now' \in Nat /\ now <= now'
           /\ Time' \in Times /\ Today' \in 0..MaxDay
           /\ \/ /\ Time # 720 /\ Time < Time'
                 /\ Today' = Today
                 /\ \A j \in Jobs : Time < JobAt[j] => Time' <= JobAt[j]
              \/ Time = 720 /\ Time' = 0 /\ Today' = Today + 1
<1> DEFINE S == {t \in Times \cup {1440} : t > Time}
           m == Min(S)
<1>1. /\ now \in Nat /\ Time \in Times /\ Time \in {0, 330, 360, 435, 720}
      /\ Today \in 0..MaxDay /\ MaxDay \in Nat
      /\ Time = now % 1440 /\ Today = now \div 1440
  BY StopsAre, DailyAssumption DEF Shape, Time, Today, DayOf
<1>2. S \in SUBSET Nat /\ 1440 \in S
  <2>1. Times \subseteq Nat
    BY StopsAre
  <2>2. \A t \in Times \cup {1440} : t \in Nat
    BY <2>1
  <2>3. S \subseteq Nat
    BY <2>2
  <2>4. 1440 > Time
    BY <1>1
  <2>5. 1440 \in S
    BY <2>4
  <2> QED BY <2>3, <2>5
<1>3. m \in S /\ \A t \in S : m <= t
  <2> HIDE DEF S
  <2> QED BY <1>2, MinIs
<1>4. m \in Nat /\ Time < m /\ m \in Times \cup {1440}
  BY <1>2, <1>3
<1>5. /\ now' = now + (m - Time) /\ now' \div 1440 <= MaxDay
      /\ Time' = now' % 1440 /\ Today' = now' \div 1440
  BY DEF Tick, NextTime, Time, Today, DayOf
<1>6. m - Time \in Nat /\ (now % 1440) + (m - Time) = m
  <2> HIDE DEF m
  <2> QED BY <1>1, <1>4
<1>7. /\ m < 1440 => Time' = m /\ Today' = Today
      /\ m = 1440 => Time' = 0 /\ Today' = Today + 1
      /\ now' \in Nat /\ now <= now'
  <2> HIDE DEF m
  <2>1. /\ m < 1440 => /\ (now + (m - Time)) % 1440 = m
                       /\ (now + (m - Time)) \div 1440 = now \div 1440
        /\ m = 1440 => /\ (now + (m - Time)) % 1440 = 0
                       /\ (now + (m - Time)) \div 1440 = (now \div 1440) + 1
    BY <1>1, <1>6, DayArithmetic
  <2>2. now' \in Nat /\ now <= now'
    BY <1>1, <1>5, <1>6
  <2> QED BY <1>1, <1>5, <2>1, <2>2
<1>8. CASE Time = 720
  <2>1. m = 1440
    BY <1>4, <1>8, StopsAre
  <2>2. Time' = 0 /\ Today' = Today + 1
    BY <1>7, <2>1
  <2> QED BY <1>1, <1>5, <1>7, <1>8, <2>2, StopsAre
<1>9. CASE Time # 720
  <2>1. 720 \in S
    BY <1>1, <1>9, StopsAre
  <2>2. m < 1440 /\ m \in Times
    BY <1>3, <1>4, <2>1
  <2>3. \A j \in Jobs : Time < JobAt[j] => m <= JobAt[j]
    <3> SUFFICES ASSUME NEW j \in Jobs, Time < JobAt[j] PROVE m <= JobAt[j]
      OBVIOUS
    <3>1. JobAt[j] \in S
      BY StopsAre
    <3> QED BY <1>3, <3>1
  <2> HIDE DEF m
  <2> QED BY <1>1, <1>4, <1>7, <1>9, <2>2, <2>3
<1> QED BY <1>8, <1>9

LEMMA SameClock ==
    ASSUME now' = now
    PROVE  Time' = Time /\ Today' = Today
BY DEF Time, Today

-------------------------------------------------------------------------------
(***************************************************************************)
(* What the two actions on scrape_runs do to it.                           *)
(***************************************************************************)
LEMMA StartIs ==
    ASSUME Shape, NEW t \in Threads, StartRun(t)
    PROVE  \E s \in todo[t] :
             /\ s \in Sources /\ at[t] = 0 /\ now' = now
             /\ runs' \in Seq(Rows) /\ Len(runs') = Len(runs) + 1
             /\ \A r \in 1..Len(runs) : runs'[r] = runs[r]
             /\ runs'[Len(runs) + 1] = [source |-> s, started |-> now, status |-> "running"]
             /\ sources' = [sources EXCEPT ![s] = IF @ = "none" THEN FirstSeen(s) ELSE @]
             /\ todo' = [todo EXCEPT ![t] = @ \ {s}]
             /\ at' = [at EXCEPT ![t] = Len(runs) + 1]
<1>1. PICK s \in todo[t] :
        /\ runs' = Append(runs, [source |-> s, started |-> now, status |-> "running"])
        /\ sources' = [sources EXCEPT ![s] = IF @ = "none" THEN FirstSeen(s) ELSE @]
        /\ todo' = [todo EXCEPT ![t] = @ \ {s}]
  BY DEF StartRun
<1> DEFINE x == [source |-> s, started |-> now, status |-> "running"]
<1>2. s \in Sources
  BY DEF Shape
<1>3. runs \in Seq(Rows) /\ x \in Rows
  BY <1>2 DEF Shape, Rows, Statuses
<1>4. runs' = Append(runs, x)
  BY <1>1
<1> HIDE DEF x
<1>5. /\ runs' \in Seq(Rows) /\ Len(runs') = Len(runs) + 1
      /\ \A r \in 1..Len(runs) : runs'[r] = runs[r]
      /\ runs'[Len(runs) + 1] = x
  BY <1>3, <1>4
<1> QED BY <1>1, <1>2, <1>5 DEF x, StartRun

LEMMA EndIs ==
    ASSUME Shape, Open, NEW t \in Threads, NEW st \in Statuses, EndRun(t, st)
    PROVE  /\ at[t] \in 1..Len(runs) /\ runs[at[t]].status = "running"
           /\ now' = now /\ at' = [at EXCEPT ![t] = 0]
           /\ runs' \in Seq(Rows) /\ Len(runs') = Len(runs)
           /\ \A r \in 1..Len(runs) :
                /\ runs'[r].source = runs[r].source /\ runs'[r].started = runs[r].started
                /\ runs'[r].status = IF r = at[t] THEN st ELSE runs[r].status
<1>1. at[t] \in 1..Len(runs) /\ runs[at[t]].status = "running"
  BY DEF EndRun, Open
<1>2. runs \in Seq(Rows) /\ runs' = [runs EXCEPT ![at[t]].status = st]
  BY DEF Shape, EndRun
<1>3. runs' = [runs EXCEPT ![at[t]] = [runs[at[t]] EXCEPT !.status = st]]
  BY <1>1, <1>2
<1>4. [runs[at[t]] EXCEPT !.status = st] \in Rows
  <2>1. runs[at[t]] \in Rows /\ st \in Statuses
    BY <1>1, <1>2
  <2>2. \A x \in Rows : [x EXCEPT !.status = st] \in Rows
    BY <2>1 DEF Rows
  <2> QED BY <2>1, <2>2
<1>5. runs' \in Seq(Rows) /\ Len(runs') = Len(runs)
  BY <1>1, <1>2, <1>3, <1>4
<1>6. ASSUME NEW r \in 1..Len(runs)
      PROVE  /\ runs'[r].source = runs[r].source /\ runs'[r].started = runs[r].started
             /\ runs'[r].status = IF r = at[t] THEN st ELSE runs[r].status
  <2>1. runs[r] \in Rows
    BY <1>2
  <2> QED BY <1>1, <1>3, <2>1 DEF Rows
<1> QED BY <1>1, <1>5, <1>6 DEF EndRun

LEMMA NextIs ==
    ASSUME Next
    PROVE  \/ \E j \in Jobs : Fire(j)
           \/ \E t \in Threads : StartRun(t)
           \/ \E t \in Threads : \E st \in Statuses :
                EndRun(t, st) /\ (st = "running" => Strand(t))
           \/ Manual \/ Crash \/ Boot \/ CatchUp \/ Deploy \/ Tick
<1>1. Bad \subseteq Statuses \ {"running"} /\ "ok" \in Statuses /\ "running" \in Statuses
  BY DEF Bad, Statuses, Terminal
<1>2. ASSUME NEW t \in Threads, Succeed(t)
      PROVE  EndRun(t, "ok")
  BY <1>2 DEF Succeed
<1>3. ASSUME NEW t \in Threads, GoBadly(t)
      PROVE  \E st \in Statuses \ {"running"} : EndRun(t, st)
  BY <1>1, <1>3 DEF GoBadly
<1>4. ASSUME NEW t \in Threads, Strand(t)
      PROVE  EndRun(t, "running")
  BY <1>4 DEF Strand
<1> QED BY <1>1, <1>2, <1>3, <1>4 DEF Next

LEMMA FaultsGrow ==
    ASSUME Shape, Next
    PROVE  faults' \in Seq(Faults) /\ (Unharmed' => Unharmed)
<1>1. faults \in Seq(Faults)
  BY DEF Shape
<1>2. faults' = faults \/ \E kind \in Faults : faults' = Append(faults, kind)
  BY DEF Next, Fire, StartRun, Succeed, GoBadly, Strand, EndRun, Manual, Crash,
         Boot, CatchUp, Deploy, Tick, Fault
<1>3. ASSUME NEW kind \in Faults, faults' = Append(faults, kind)
      PROVE  faults' \in Seq(Faults) /\ Range(faults) \subseteq Range(faults')
  <2>1. faults' \in Seq(Faults) /\ DOMAIN faults \subseteq DOMAIN faults'
        /\ \A i \in DOMAIN faults : faults'[i] = faults[i]
    BY <1>1, <1>3
  <2> QED BY <2>1 DEF Range
<1> QED BY <1>1, <1>2, <1>3 DEF Unharmed

-------------------------------------------------------------------------------
(***************************************************************************)
(* The process and its tables stay well formed.                            *)
(***************************************************************************)
LEMMA HInit == Init => HInv
<1> SUFFICES ASSUME Init PROVE HInv
  OBVIOUS
<1>1. now = 0 /\ now % 1440 = 0 /\ now \div 1440 = 0 /\ runs = <<>>
  BY DEF Init
<1>2. Time = 0 /\ Today = 0 /\ 0 \in 0..MaxDay
  BY <1>1, DailyAssumption DEF Time, Today, DayOf
<1>3. /\ up \in BOOLEAN /\ checking \in BOOLEAN /\ due \subseteq Jobs
      /\ registry \subseteq Range(Portals)
  BY DailyAssumption DEF Init
<1>4. Shape
  BY <1>1, <1>2, <1>3, StopsAre DEF Init, Shape
<1>5. Dated /\ Open
  BY <1>1 DEF Init, Dated, Open
<1>6. Seen
  BY <1>1 DEF Init, Seen, RunsOf
<1> QED BY <1>4, <1>5, <1>6 DEF HInv

LEMMA StartSeen ==
    ASSUME HInv, NEW t \in Threads, StartRun(t)
    PROVE  HInv'
<1> USE DEF HInv
<1>1. PICK s \in todo[t] :
        /\ s \in Sources /\ at[t] = 0 /\ now' = now
        /\ runs' \in Seq(Rows) /\ Len(runs') = Len(runs) + 1
        /\ \A r \in 1..Len(runs) : runs'[r] = runs[r]
        /\ runs'[Len(runs) + 1] = [source |-> s, started |-> now, status |-> "running"]
        /\ sources' = [sources EXCEPT ![s] = IF @ = "none" THEN FirstSeen(s) ELSE @]
        /\ todo' = [todo EXCEPT ![t] = @ \ {s}]
        /\ at' = [at EXCEPT ![t] = Len(runs) + 1]
  BY StartIs
<1> DEFINE n == Len(runs) + 1
<1>2. /\ runs \in Seq(Rows) /\ Len(runs) \in Nat /\ now \in Nat
      /\ at \in [Threads -> Nat] /\ todo \in [Threads -> SUBSET Sources]
      /\ sources \in [Sources -> {"none", "enabled", "disabled"}]
  BY DEF Shape
<1>3. /\ runs'[n].source = s /\ runs'[n].started = now /\ runs'[n].status = "running"
      /\ \A r \in 1..n : r = n \/ (r \in 1..Len(runs) /\ r < n)
      /\ Time' = Time /\ Today' = Today
  BY <1>1, <1>2, SameClock
<1>4. FirstSeen(s) \in {"enabled", "disabled"}
  BY DEF FirstSeen
<1>5. Shape'
  <2>1. /\ todo' \in [Threads -> SUBSET Sources] /\ at' \in [Threads -> Nat]
        /\ sources' \in [Sources -> {"none", "enabled", "disabled"}]
    BY <1>1, <1>2, <1>4
  <2>2. /\ up' = up /\ checking' = checking /\ due' = due /\ registry' = registry
        /\ named' = named /\ faults' = faults
    BY DEF StartRun
  <2> QED BY <1>1, <1>3, <2>1, <2>2 DEF Shape
<1>6. Dated'
  <2>1. Len(runs') = n /\ now' = now
        /\ \A r \in 1..Len(runs) : runs'[r].started = runs[r].started
    BY <1>1
  <2>2. ASSUME NEW r \in 1..n
        PROVE  runs'[r].started <= now
    BY <1>2, <1>3, <2>1 DEF Dated
  <2>3. ASSUME NEW q \in 1..n, NEW r \in 1..n, q < r
        PROVE  runs'[q].started <= runs'[r].started
    <3>1. q \in 1..Len(runs)
      BY <1>2, <2>3
    <3>2. CASE r = n
      BY <1>3, <2>2, <3>2
    <3>3. CASE r \in 1..Len(runs)
      BY <2>1, <2>3, <3>1, <3>3 DEF Dated
    <3> QED BY <1>3, <3>2, <3>3
  <2> HIDE DEF n
  <2> QED BY <2>1, <2>2, <2>3 DEF Dated
<1>7. Open'
  <2>1. ASSUME NEW u \in Threads, at'[u] # 0
        PROVE  /\ at'[u] = IF u = t THEN n ELSE at[u]
               /\ u # t => at[u] # 0 /\ at[u] \in 1..Len(runs)
    BY <1>1, <1>2, <2>1 DEF Open
  <2>2. ASSUME NEW u \in Threads, at'[u] # 0
        PROVE  /\ at'[u] \in 1..Len(runs')
               /\ runs'[at'[u]].status = "running"
               /\ DayOf(runs'[at'[u]].started) = Today'
    <3>1. CASE u = t
      BY <1>1, <1>2, <1>3, <2>1, <2>2, <3>1 DEF Today
    <3>2. CASE u # t
      BY <1>1, <1>2, <1>3, <2>1, <2>2, <3>2 DEF Open
    <3> QED BY <3>1, <3>2
  <2>3. ASSUME NEW u \in Threads, NEW w \in Threads, at'[u] # 0, at'[u] = at'[w]
        PROVE  u = w
    <3>1. n \notin 1..Len(runs)
      BY <1>2
    <3>2. at'[w] # 0
      BY <2>3
    <3> QED BY <2>1, <2>3, <3>1, <3>2 DEF Open
  <2> QED BY <2>2, <2>3 DEF Open
<1>8. Seen'
  <2> SUFFICES ASSUME NEW p \in Sources
               PROVE  sources'[p] = "none" <=> RunsOf(runs', p) = {}
    BY DEF Seen
  <2>1. CASE p = s
    <3>1. n \in RunsOf(runs', p)
      BY <1>1, <1>2, <1>3, <2>1 DEF RunsOf
    <3>2. sources'[p] # "none"
      BY <1>1, <1>2, <1>4, <2>1
    <3> QED BY <3>1, <3>2
  <2>2. CASE p # s
    <3>1. \A r : r \in RunsOf(runs', p) <=> r \in RunsOf(runs, p)
      BY <1>1, <1>2, <1>3, <2>2 DEF RunsOf
    <3>2. sources'[p] = sources[p]
      BY <1>1, <1>2, <2>2
    <3>3. RunsOf(runs', p) = RunsOf(runs, p)
      BY <3>1
    <3> QED BY <3>2, <3>3 DEF Seen
  <2> QED BY <2>1, <2>2
<1> QED BY <1>5, <1>6, <1>7, <1>8

LEMMA EndSeen ==
    ASSUME HInv, NEW t \in Threads, NEW st \in Statuses, EndRun(t, st),
           faults' \in Seq(Faults)
    PROVE  HInv'
<1> USE DEF HInv
<1>1. /\ at[t] \in 1..Len(runs) /\ runs[at[t]].status = "running"
      /\ now' = now /\ at' = [at EXCEPT ![t] = 0]
      /\ runs' \in Seq(Rows) /\ Len(runs') = Len(runs)
      /\ \A r \in 1..Len(runs) :
           /\ runs'[r].source = runs[r].source /\ runs'[r].started = runs[r].started
           /\ runs'[r].status = IF r = at[t] THEN st ELSE runs[r].status
  BY EndIs
<1>2. at \in [Threads -> Nat] /\ Len(runs) \in Nat /\ Time' = Time /\ Today' = Today
  BY <1>1, SameClock DEF Shape
<1>3. Shape'
  <2>1. /\ up' = up /\ checking' = checking /\ due' = due /\ registry' = registry
        /\ named' = named /\ todo' = todo /\ sources' = sources
    BY DEF EndRun
  <2> QED BY <1>1, <1>2, <2>1 DEF Shape
<1>4. Dated'
  BY <1>1 DEF Dated
<1>5. Open'
  <2>1. \A u \in Threads : at'[u] # 0 => u # t /\ at'[u] = at[u] /\ at[u] # at[t]
    BY <1>1, <1>2 DEF Open
  <2> QED BY <1>1, <1>2, <2>1 DEF Open
<1>6. Seen'
  <2>1. \A p \in Sources : RunsOf(runs', p) = RunsOf(runs, p)
    BY <1>1 DEF RunsOf
  <2>2. sources' = sources
    BY DEF EndRun
  <2> QED BY <2>1, <2>2 DEF Seen
<1> QED BY <1>3, <1>4, <1>5, <1>6

(***************************************************************************)
(* Every other step leaves scrape_runs and sources as they are.            *)
(***************************************************************************)
LEMMA TablesStay ==
    ASSUME Shape, Dated, Seen, runs' = runs, sources' = sources,
           now' \in Nat, now <= now'
    PROVE  Dated' /\ Seen'
<1>1. Len(runs) \in Nat /\ \A r \in 1..Len(runs) : runs[r].started \in Nat
  <2>1. Len(runs) \in Nat /\ \A r \in 1..Len(runs) : runs[r] \in Rows
    BY DEF Shape
  <2>2. \A x \in Rows : x.started \in Nat
    BY DEF Rows
  <2> QED BY <2>1, <2>2
<1>2. now \in Nat
  BY DEF Shape
<1>3. Dated'
  BY <1>1, <1>2 DEF Dated
<1> QED BY <1>3 DEF Seen

LEMMA HStep == HInv /\ [Next]_vars => HInv'
<1> SUFFICES ASSUME HInv, [Next]_vars PROVE HInv'
  OBVIOUS
<1> USE DEF HInv
<1>1. CASE UNCHANGED vars
  BY <1>1 DEF vars, process, tables, Shape, Dated, Open, Seen, Time, Today
<1>2. CASE Next
  <2> USE <1>2
  <2>1. faults' \in Seq(Faults)
    BY FaultsGrow
  <2>2. now \in Nat /\ now <= now
    BY DEF Shape
  <2>3. ASSUME NEW j \in Jobs, Fire(j)
        PROVE  HInv'
    <3>1. /\ now' = now /\ up' = up /\ checking' = checking /\ at' = at
          /\ runs' = runs /\ sources' = sources /\ registry' = registry
          /\ due' = due \ {j} /\ Time' = Time /\ Today' = Today
      BY <2>3, SameClock DEF Fire, tables
    <3>2. named' \in [0..MaxDay -> SUBSET Sources]
      <4>1. Unhealthy(runs, Enabled, now) \subseteq Sources
        BY DEF Unhealthy, Enabled
      <4> QED BY <2>3, <4>1 DEF Fire, Shape
    <3>3. todo' \in [Threads -> SUBSET Sources]
      <4>1. {Rera} \subseteq Sources /\ registry \subseteq Sources
        BY DEF Shape, Sources
      <4> QED BY <2>3, <4>1 DEF Fire, Shape
    <3>4. Shape'
      BY <2>1, <3>1, <3>2, <3>3 DEF Shape
    <3> QED BY <2>2, <3>1, <3>4, TablesStay DEF Open
  <2>4. ASSUME NEW t \in Threads, StartRun(t)
        PROVE  HInv'
    BY <2>4, StartSeen
  <2>5. ASSUME NEW t \in Threads, NEW st \in Statuses, EndRun(t, st)
        PROVE  HInv'
    BY <2>1, <2>5, EndSeen
  <2>6. CASE Manual
    <3>1. /\ now' = now /\ up' = up /\ checking' = checking /\ at' = at
          /\ runs' = runs /\ sources' = sources /\ registry' = registry
          /\ due' = due /\ named' = named /\ Time' = Time /\ Today' = Today
      BY <2>6, SameClock DEF Manual, tables
    <3>2. todo' \in [Threads -> SUBSET Sources]
      <4>1. \A x \in {{s} : s \in Sources} \cup {EveryStep} : x \in SUBSET Sources
        BY DEF Shape, Sources, EveryStep
      <4> QED BY <2>6, <4>1 DEF Manual, Shape
    <3>3. Shape'
      BY <2>1, <3>1, <3>2 DEF Shape
    <3> QED BY <2>2, <3>1, <3>3, TablesStay DEF Open
  <2>7. CASE Crash
    <3>1. /\ now' = now /\ up' = FALSE /\ checking' = FALSE /\ due' = {}
          /\ at' = [t \in Threads |-> 0] /\ todo' = [t \in Threads |-> {}]
          /\ runs' = runs /\ sources' = sources /\ registry' = registry
          /\ named' = named /\ Time' = Time /\ Today' = Today
      BY <2>7, SameClock DEF Crash, tables
    <3>2. Shape'
      BY <2>1, <3>1 DEF Shape
    <3>3. Open'
      BY <3>1 DEF Open
    <3> QED BY <2>2, <3>1, <3>2, <3>3, TablesStay
  <2>8. CASE Boot
    <3>1. /\ now' = now /\ up' = TRUE /\ checking' = TRUE /\ due' \subseteq Jobs
          /\ at' = at /\ todo' = todo
          /\ runs' = runs /\ sources' = sources /\ registry' = registry
          /\ named' = named /\ Time' = Time /\ Today' = Today
      BY <2>8, SameClock DEF Boot, tables
    <3>2. Shape'
      BY <2>1, <3>1 DEF Shape
    <3> QED BY <2>2, <3>1, <3>2, TablesStay DEF Open
  <2>9. CASE CatchUp
    <3>1. /\ now' = now /\ up' = up /\ checking' = FALSE /\ due' = due /\ at' = at
          /\ runs' = runs /\ sources' = sources /\ registry' = registry
          /\ named' = named /\ Time' = Time /\ Today' = Today
      BY <2>9, SameClock DEF CatchUp, tables
    <3>2. todo' \in [Threads -> SUBSET Sources]
      <4>1. EveryStep \in SUBSET Sources
        BY DEF Shape, Sources, EveryStep
      <4> QED BY <2>9, <4>1 DEF CatchUp, Shape
    <3>3. Shape'
      BY <2>1, <3>1, <3>2 DEF Shape
    <3> QED BY <2>2, <3>1, <3>3, TablesStay DEF Open
  <2>10. CASE Deploy
    <3>1. /\ now' = now /\ up' = up /\ checking' = checking /\ due' = due /\ at' = at
          /\ runs' = runs /\ sources' = sources /\ todo' = todo
          /\ named' = named /\ Time' = Time /\ Today' = Today
      BY <2>10, SameClock DEF Deploy, tables, process
    <3>2. registry' \subseteq Range(Portals)
      BY <2>10 DEF Deploy, Shape
    <3>3. Shape'
      BY <2>1, <3>1, <3>2 DEF Shape
    <3> QED BY <2>2, <3>1, <3>3, TablesStay DEF Open
  <2>11. CASE Tick
    <3>1. /\ up' = up /\ checking' = checking /\ due' \in {due, Jobs} /\ at' = at
          /\ todo' = todo /\ runs' = runs /\ sources' = sources
          /\ registry' = registry /\ named' = named
      BY <2>11 DEF Tick, tables
    <3>2. /\ now' \in Nat /\ now <= now' /\ Time' \in Times /\ Today' \in 0..MaxDay
          /\ Today' # Today => Time = 720
      BY <2>11, TickIs
    <3>3. Shape'
      BY <2>1, <3>1, <3>2 DEF Shape
    <3>4. Open'
      <4>1. Time = 720 => \A t \in Threads : at[t] = 0
        BY <2>11 DEF Tick, Active
      <4> QED BY <3>1, <3>2, <4>1 DEF Open
    <3> QED BY <3>1, <3>2, <3>3, <3>4, TablesStay
  <2> QED BY <2>3, <2>4, <2>5, <2>6, <2>7, <2>8, <2>9, <2>10, <2>11, NextIs
<1> QED BY <1>1, <1>2

LEMMA AlwaysHInv == Spec => []HInv
BY HInit, HStep, PTL DEF Spec

-------------------------------------------------------------------------------
(***************************************************************************)
(* A step of today leaves what the gate makes of a past day.               *)
(***************************************************************************)
PastFixed(d) == /\ \A s \in Sources : StatusesOn(runs, s, d)' = StatusesOn(runs, s, d)
                /\ Demanded(runs, Enabled, d)' = Demanded(runs, Enabled, d)

LEMMA PastStays ==
    ASSUME HInv, Next, Today' = Today, NEW d \in Int, d < Today
    PROVE  PastFixed(d)
<1> USE DEF HInv
<1>1. CASE runs' = runs /\ sources' = sources
  BY <1>1 DEF PastFixed, StatusesOn, Demanded, Enabled
<1>2. ASSUME NEW t \in Threads, StartRun(t)
      PROVE  PastFixed(d)
  <2>1. PICK s \in Sources :
          /\ now' = now /\ Len(runs') = Len(runs) + 1
          /\ \A r \in 1..Len(runs) : runs'[r] = runs[r]
          /\ runs'[Len(runs) + 1] = [source |-> s, started |-> now, status |-> "running"]
          /\ sources' = [sources EXCEPT ![s] = IF @ = "none" THEN FirstSeen(s) ELSE @]
    BY <1>2, StartIs
  <2>2. Len(runs) \in Nat /\ DayOf(now) = Today /\ Today \in Int
        /\ sources \in [Sources -> {"none", "enabled", "disabled"}]
    BY DEF Shape, Today
  <2>3. /\ \A r \in 1..Len(runs') : r \in 1..Len(runs) \/ r = Len(runs) + 1
        /\ 1..Len(runs) \subseteq 1..Len(runs')
        /\ DayOf(runs'[Len(runs) + 1].started) = Today
    BY <2>1, <2>2
  <2>4. ASSUME NEW p \in Sources
        PROVE  /\ \A r : r \in RunsOf(runs', p) /\ DayOf(runs'[r].started) = d <=>
                         r \in RunsOf(runs, p) /\ DayOf(runs[r].started) = d
               /\ \A r : r \in RunsOf(runs', p) /\ DayOf(runs'[r].started) <= d <=>
                         r \in RunsOf(runs, p) /\ DayOf(runs[r].started) <= d
    BY <2>1, <2>2, <2>3 DEF RunsOf
  <2>5. ASSUME NEW p \in Sources
        PROVE  StatusesOn(runs', p, d) = StatusesOn(runs, p, d)
    <3>1. {k \in RunsOf(runs', p) : DayOf(runs'[k].started) = d}
            = {k \in RunsOf(runs, p) : DayOf(runs[k].started) = d}
      BY <2>4
    <3>2. \A r \in RunsOf(runs, p) : runs'[r] = runs[r]
      BY <2>1 DEF RunsOf
    <3> QED BY <3>1, <3>2 DEF StatusesOn
  <2>6. ASSUME NEW p, NEW r \in RunsOf(runs, p), p \in Sources
        PROVE  p \in Enabled' <=> p \in Enabled
    <3>1. sources[p] # "none"
      BY <2>6 DEF Seen
    <3> QED BY <2>1, <2>2, <2>6, <3>1 DEF Enabled
  <2>7. Demanded(runs', Enabled', d) = Demanded(runs, Enabled, d)
    <3>1. ASSUME NEW p
          PROVE  p \in Demanded(runs', Enabled', d) <=> p \in Demanded(runs, Enabled, d)
      <4>1. Enabled \subseteq Sources /\ Enabled' \subseteq Sources
        BY DEF Enabled
      <4> QED BY <2>4, <2>6, <4>1 DEF Demanded
    <3> QED BY <3>1
  <2> QED BY <2>5, <2>7 DEF PastFixed
<1>3. ASSUME NEW t \in Threads, NEW st \in Statuses, EndRun(t, st)
      PROVE  PastFixed(d)
  <2>1. /\ Len(runs') = Len(runs) /\ at[t] \in 1..Len(runs)
        /\ \A r \in 1..Len(runs) :
             /\ runs'[r].source = runs[r].source /\ runs'[r].started = runs[r].started
             /\ runs'[r].status = IF r = at[t] THEN st ELSE runs[r].status
    BY <1>3, EndIs
  <2>2. DayOf(runs[at[t]].started) = Today /\ Today \in Int
    BY <1>3 DEF Open, EndRun, Shape
  <2>3. \A p : RunsOf(runs', p) = RunsOf(runs, p)
    BY <2>1 DEF RunsOf
  <2>4. \A p : \A r \in RunsOf(runs, p) : r \in 1..Len(runs)
    BY DEF RunsOf
  <2>5. ASSUME NEW p \in Sources
        PROVE  StatusesOn(runs', p, d) = StatusesOn(runs, p, d)
    <3> DEFINE D == {k \in RunsOf(runs, p) : DayOf(runs[k].started) = d}
    <3>1. {k \in RunsOf(runs', p) : DayOf(runs'[k].started) = d} = D
      BY <2>1, <2>3, <2>4
    <3>2. \A r \in D : r # at[t] /\ runs'[r].status = runs[r].status
      BY <2>1, <2>2, <2>4
    <3> HIDE DEF D
    <3>3. StatusesOn(runs', p, d) = {runs'[r].status : r \in D}
      BY <3>1 DEF StatusesOn
    <3>4. StatusesOn(runs, p, d) = {runs[r].status : r \in D}
      BY DEF StatusesOn, D
    <3> QED BY <3>2, <3>3, <3>4
  <2>6. Enabled' = Enabled
    BY <1>3 DEF EndRun, Enabled
  <2>7. Demanded(runs', Enabled', d) = Demanded(runs, Enabled, d)
    BY <2>1, <2>3, <2>4, <2>6 DEF Demanded
  <2> QED BY <2>5, <2>7 DEF PastFixed
<1>4. \/ runs' = runs /\ sources' = sources
      \/ \E t \in Threads : StartRun(t)
      \/ \E t \in Threads : \E st \in Statuses : EndRun(t, st)
  <2>1. ASSUME NEW j \in Jobs, Fire(j)
        PROVE  runs' = runs /\ sources' = sources
    BY <2>1 DEF Fire, tables
  <2> QED BY <2>1, NextIs DEF Manual, Crash, Boot, CatchUp, Deploy, Tick, tables
<1> QED BY <1>1, <1>2, <1>3, <1>4

LEMMA CleanStays ==
    ASSUME NEW d, PastFixed(d)
    PROVE  Clean(runs', Enabled', d) <=> Clean(runs, Enabled, d)
BY DEF PastFixed, Clean, DayOk, Demanded, Enabled

(***************************************************************************)
(* "Today never breaks the streak until it has run", "only an actual bad   *)
(* run that day breaks it": whatever a step does within a day, the streak  *)
(* keeps every past day it had.                                            *)
(***************************************************************************)
LEMMA StreakStep ==
    ASSUME HInv, [Next]_vars
    PROVE  Today' = Today /\ ~BadToday' =>
             GateStreak' >= GateStreak - IF Clean(runs, Enabled, Today) THEN 1 ELSE 0
<1> DEFINE n == GateStreak
           m == GateStreak'
           last == LastDay(runs, Enabled, Today)
           new == LastDay(runs', Enabled', Today')
<1>1. Today \in Int /\ Window \in Nat
  BY DailyAssumption DEF HInv, Shape
<1>2. SUFFICES ASSUME Next, Today' = Today, ~BadToday'
               PROVE  m >= n - IF Clean(runs, Enabled, Today) THEN 1 ELSE 0
  <2>1. ASSUME UNCHANGED vars
        PROVE  m = n /\ n \in Nat
    <3>1. GateStreak' = GateStreak
      BY <2>1 DEF vars, tables, GateStreak, Enabled, Today
    <3>2. last - Today + Window + 1 \in Nat
      BY <1>1 DEF LastDay
    <3> QED BY <1>1, <3>1, <3>2, StreakIs DEF GateStreak
  <2> QED BY <2>1
<1>3. /\ last \in {Today - 1, Today}
      /\ n \in 0..last - Today + Window + 1
      /\ Run(runs, Enabled, last, n)
  BY <1>1, StreakIs DEF GateStreak
<1>4. /\ new \in {Today - 1, Today}
      /\ m \in 0..new - Today + Window + 1
      /\ \A k \in 0..new - Today + Window + 1 : Run(runs', Enabled', new, k) => k <= m
  BY <1>1, <1>2, StreakIs DEF GateStreak
<1>5. \A d \in Int : d < Today => (Clean(runs', Enabled', d) <=> Clean(runs, Enabled, d))
  BY <1>2, PastStays, CleanStays
<1>6. new = IF Clean(runs', Enabled', Today) THEN Today ELSE Today - 1
  <2>1. ASSUME NEW s \in Demanded(runs', Enabled', Today)
        PROVE  ~DayBad(runs', s, Today)
    BY <1>2, <2>1 DEF BadToday, Demanded
  <2> QED BY <1>2, <2>1 DEF LastDay, PendingDay
<1>7. last = IF PendingDay(runs, Enabled, Today) THEN Today - 1 ELSE Today
  BY DEF LastDay
<1>8. PendingDay(runs, Enabled, Today) => ~Clean(runs, Enabled, Today)
  BY DEF PendingDay
<1> HIDE DEF n, m, last, new
<1>9. CASE n = 0
  BY <1>1, <1>4, <1>9
<1>10. CASE n # 0 /\ last = Today
  <2>1. Clean(runs, Enabled, Today)
    <3>1. 0 \in 0..n - 1 /\ last - 0 = Today
      BY <1>1, <1>3, <1>10
    <3> QED BY <1>3, <3>1 DEF Run
  <2>2. CASE Clean(runs', Enabled', Today)
    <3>1. Run(runs', Enabled', Today, n)
      BY <1>1, <1>3, <1>5, <1>10, <2>2 DEF Run
    <3> QED BY <1>1, <1>3, <1>4, <1>6, <1>10, <2>2, <3>1
  <2>3. CASE ~Clean(runs', Enabled', Today)
    <3>1. Run(runs', Enabled', Today - 1, n - 1)
      <4> SUFFICES ASSUME NEW k \in 0..n - 2
                   PROVE  Clean(runs', Enabled', Today - 1 - k)
        BY <1>3 DEF Run
      <4>1. k + 1 \in 0..n - 1 /\ Today - (k + 1) = Today - 1 - k
            /\ Today - 1 - k < Today /\ Today - 1 - k \in Int
        BY <1>1, <1>3
      <4> QED BY <1>3, <1>5, <1>10, <4>1 DEF Run
    <3>2. n - 1 \in 0..Window
      BY <1>1, <1>3, <1>10
    <3> QED BY <1>1, <1>3, <1>4, <1>6, <2>1, <2>3, <3>1, <3>2
  <2> QED BY <2>2, <2>3
<1>11. CASE n # 0 /\ last = Today - 1
  <2>1. Run(runs', Enabled', Today - 1, n)
    <3> SUFFICES ASSUME NEW k \in 0..n - 1
                 PROVE  Clean(runs', Enabled', Today - 1 - k)
      BY DEF Run
    <3>1. Today - 1 - k < Today /\ Today - 1 - k \in Int
      BY <1>1, <1>3
    <3> QED BY <1>3, <1>5, <1>11, <3>1 DEF Run
  <2>2. n \in 0..Window
    BY <1>1, <1>3, <1>11
  <2>3. CASE Clean(runs', Enabled', Today)
    <3>1. Run(runs', Enabled', Today, n)
      <4> SUFFICES ASSUME NEW k \in 0..n - 1
                   PROVE  Clean(runs', Enabled', Today - k)
        BY DEF Run
      <4>1. CASE k = 0
        BY <1>1, <2>3, <4>1
      <4>2. CASE k # 0
        <5>1. k - 1 \in 0..n - 1 /\ Today - 1 - (k - 1) = Today - k
          BY <1>1, <1>3, <4>2
        <5> QED BY <2>1, <5>1 DEF Run
      <4> QED BY <4>1, <4>2
    <3> QED BY <1>1, <1>3, <1>4, <1>6, <2>2, <2>3, <3>1
  <2>4. CASE ~Clean(runs', Enabled', Today)
    BY <1>1, <1>3, <1>4, <1>6, <2>1, <2>2, <2>4
  <2> QED BY <2>3, <2>4
<1> QED BY <1>3, <1>9, <1>10, <1>11

THEOREM StreakKept == Spec => OnlyBadRunsBreak
<1>1. HInv /\ [Next]_vars =>
        [Today' = Today /\ ~BadToday' =>
           GateStreak' >= GateStreak - IF Clean(runs, Enabled, Today) THEN 1 ELSE 0]_vars
  BY StreakStep
<1> QED BY <1>1, AlwaysHInv, PTL DEF Spec, OnlyBadRunsBreak

-------------------------------------------------------------------------------
LEMMA DayOrder == \A a, b \in Nat : a <= b => DayOf(a) <= DayOf(b)
BY DEF DayOf

(***************************************************************************)
(* A source that is enabled has a row, and so a run: the gate demands it.  *)
(***************************************************************************)
LEMMA EnabledIsDemanded ==
    ASSUME HInv
    PROVE  Demanded(runs, Enabled, Today) = Enabled
<1> USE DEF HInv
<1>1. ASSUME NEW s \in Enabled
      PROVE  \E r \in RunsOf(runs, s) : DayOf(runs[r].started) <= Today
  <2>1. s \in Sources /\ sources[s] # "none"
    BY DEF Enabled
  <2>2. PICK r \in RunsOf(runs, s) : TRUE
    BY <2>1 DEF Seen
  <2>3. r \in 1..Len(runs) /\ runs[r] \in Rows
    BY DEF RunsOf, Shape
  <2>4. runs[r].started \in Nat /\ runs[r].started <= now /\ now \in Nat
    BY <2>3 DEF Rows, Dated, Shape
  <2> QED BY <2>4, DayOrder DEF Today
<1> QED BY <1>1 DEF Demanded

-------------------------------------------------------------------------------
(***************************************************************************)
(* What a step does to the runs that are there: a running one ends, and a  *)
(* source that has a row keeps it.  A run it adds is running.              *)
(***************************************************************************)
LEMMA RunsGrow ==
    ASSUME HInv, Next
    PROVE  /\ \A r \in 1..Len(runs) :
                /\ r \in 1..Len(runs')
                /\ runs'[r].source = runs[r].source /\ runs'[r].started = runs[r].started
                /\ runs[r].status # "running" => runs'[r].status = runs[r].status
           /\ \A r \in 1..Len(runs') :
                r \in 1..Len(runs) \/ runs'[r].status = "running"
           /\ \A s \in Sources : sources[s] # "none" => sources'[s] = sources[s]
<1> USE DEF HInv
<1>1. CASE runs' = runs /\ sources' = sources
  BY <1>1
<1>2. ASSUME NEW t \in Threads, StartRun(t)
      PROVE  /\ \A r \in 1..Len(runs) : r \in 1..Len(runs') /\ runs'[r] = runs[r]
             /\ \A r \in 1..Len(runs') :
                  r \in 1..Len(runs) \/ runs'[r].status = "running"
             /\ \A s \in Sources : sources[s] # "none" => sources'[s] = sources[s]
  <2>1. PICK p \in Sources :
          /\ Len(runs') = Len(runs) + 1
          /\ \A r \in 1..Len(runs) : runs'[r] = runs[r]
          /\ runs'[Len(runs) + 1] = [source |-> p, started |-> now, status |-> "running"]
          /\ sources' = [sources EXCEPT ![p] = IF @ = "none" THEN FirstSeen(p) ELSE @]
    BY <1>2, StartIs
  <2>2. Len(runs) \in Nat /\ sources \in [Sources -> {"none", "enabled", "disabled"}]
    BY DEF Shape
  <2>3. \A s \in Sources : sources[s] # "none" => sources'[s] = sources[s]
    BY <2>1, <2>2
  <2>4. \A r \in 1..Len(runs') : r \in 1..Len(runs) \/ runs'[r].status = "running"
    BY <2>1, <2>2
  <2> QED BY <2>1, <2>2, <2>3, <2>4
<1>3. ASSUME NEW t \in Threads, NEW st \in Statuses, EndRun(t, st)
      PROVE  /\ \A r \in 1..Len(runs) :
                  /\ r \in 1..Len(runs')
                  /\ runs'[r].source = runs[r].source
                  /\ runs'[r].started = runs[r].started
                  /\ runs[r].status # "running" => runs'[r].status = runs[r].status
             /\ \A r \in 1..Len(runs') : r \in 1..Len(runs)
             /\ sources' = sources
  <2>1. /\ Len(runs') = Len(runs) /\ runs[at[t]].status = "running"
        /\ \A r \in 1..Len(runs) :
             /\ runs'[r].source = runs[r].source /\ runs'[r].started = runs[r].started
             /\ runs'[r].status = IF r = at[t] THEN st ELSE runs[r].status
    BY <1>3, EndIs
  <2>2. sources' = sources
    BY <1>3 DEF EndRun
  <2> QED BY <2>1, <2>2
<1>4. \/ runs' = runs /\ sources' = sources
      \/ \E t \in Threads : StartRun(t)
      \/ \E t \in Threads : \E st \in Statuses : EndRun(t, st)
  <2>1. ASSUME NEW j \in Jobs, Fire(j)
        PROVE  runs' = runs /\ sources' = sources
    BY <2>1 DEF Fire, tables
  <2> QED BY <2>1, NextIs DEF Manual, Crash, Boot, CatchUp, Deploy, Tick, tables
<1> QED BY <1>1, <1>2, <1>3, <1>4

(***************************************************************************)
(* So within a day a failed run stays, and a source that comes by an 'ok'  *)
(* run was enabled when that run was opened.                               *)
(***************************************************************************)
LEMMA StatusesGrow ==
    ASSUME HInv, Next, NEW s \in Sources, NEW d
    PROVE  /\ StatusesOn(runs, s, d) \ {"running"} \subseteq StatusesOn(runs', s, d)
           /\ s \in Enabled => s \in Enabled'
           /\ s \in Enabled' /\ DayOk(runs', s, d) => s \in Enabled
<1>1. ASSUME NEW x \in StatusesOn(runs, s, d), x # "running"
      PROVE  x \in StatusesOn(runs', s, d)
  <2>1. PICK r \in RunsOf(runs, s) : DayOf(runs[r].started) = d /\ runs[r].status = x
    BY DEF StatusesOn
  <2>2. /\ r \in RunsOf(runs', s) /\ DayOf(runs'[r].started) = d /\ runs'[r].status = x
    BY <1>1, <2>1, RunsGrow DEF RunsOf
  <2> QED BY <2>2 DEF StatusesOn
<1>2. s \in Enabled => s \in Enabled'
  BY RunsGrow DEF Enabled
<1>3. ASSUME s \in Enabled', DayOk(runs', s, d) PROVE s \in Enabled
  <2>1. PICK r \in RunsOf(runs', s) : runs'[r].status = "ok"
    BY <1>3 DEF DayOk, StatusesOn
  <2>2. r \in RunsOf(runs, s)
    BY <2>1, RunsGrow DEF RunsOf
  <2>3. sources[s] # "none"
    BY <2>2 DEF HInv, Seen
  <2> QED BY <1>3, <2>3, RunsGrow DEF Enabled
<1> QED BY <1>1, <1>2, <1>3

(***************************************************************************)
(* At midnight the day that ends counts, if it was clean; it did already.  *)
(***************************************************************************)
LEMMA MidnightAddsNothing ==
    ASSUME HInv, Next, Today' # Today PROVE GateStreak' <= GateStreak
<1> USE DEF HInv
<1> DEFINE n == GateStreak
           m == GateStreak'
           last == LastDay(runs, Enabled, Today)
           new == LastDay(runs', Enabled', Today')
<1>1. Tick
  BY SameClock, StartIs, EndIs, NextIs DEF Fire, Manual, Crash, Boot, CatchUp, Deploy
<1>2. /\ Today \in Int /\ Today' = Today + 1 /\ Window \in Nat
      /\ runs' = runs /\ Enabled' = Enabled
  BY <1>1, TickIs, DailyAssumption DEF Tick, tables, Enabled, Shape
<1>3. ASSUME NEW s PROVE StatusesOn(runs, s, Today + 1) = {}
  <2> SUFFICES ASSUME NEW r \in RunsOf(runs, s), DayOf(runs[r].started) = Today + 1
               PROVE  FALSE
    BY DEF StatusesOn
  <2>1. r \in 1..Len(runs) /\ runs[r] \in Rows
    BY DEF RunsOf, Shape
  <2>2. runs[r].started \in Nat /\ runs[r].started <= now /\ now \in Nat
    BY <2>1 DEF Rows, Dated, Shape
  <2> QED BY <1>2, <2>2, DayOrder DEF Today
<1>4. new = Today
  <2>1. \A s : ~DayOk(runs, s, Today + 1) /\ ~DayBad(runs, s, Today + 1)
    BY <1>3 DEF DayOk, DayBad
  <2>2. PendingDay(runs, Enabled, Today + 1)
    BY <2>1 DEF PendingDay, Clean
  <2> QED BY <1>2, <2>2 DEF LastDay
<1>5. /\ last \in {Today - 1, Today}
      /\ n \in 0..last - Today + Window + 1
      /\ \A k \in 0..last - Today + Window + 1 : Run(runs, Enabled, last, k) => k <= n
  BY <1>2, StreakIs DEF GateStreak
<1>6. /\ m \in 0..new - (Today + 1) + Window + 1
      /\ Run(runs, Enabled, new, m)
  <2>1. m = Streak(runs, Enabled, Today + 1) /\ Today + 1 \in Int
    BY <1>2 DEF GateStreak
  <2> QED BY <1>2, <2>1, StreakIs
<1>7. PendingDay(runs, Enabled, Today) => ~Clean(runs, Enabled, Today)
  BY DEF PendingDay
<1>8. last = IF PendingDay(runs, Enabled, Today) THEN Today - 1 ELSE Today
  BY DEF LastDay
<1> HIDE DEF n, m, last, new
<1>9. CASE m = 0
  <2>1. m <= n
    BY <1>2, <1>5, <1>9
  <2> QED BY <2>1 DEF n, m
<1>10. CASE m # 0
  <2>1. 0 \in 0..m - 1 /\ Today - 0 = Today
    BY <1>2, <1>4, <1>6, <1>10
  <2>2. Clean(runs, Enabled, Today)
    BY <1>4, <1>6, <2>1 DEF Run
  <2>3. last = Today /\ m \in 0..last - Today + Window + 1
    BY <1>2, <1>4, <1>6, <1>7, <1>8, <2>2
  <2>4. m <= n
    BY <1>4, <1>5, <1>6, <2>3
  <2> QED BY <2>4 DEF n, m
<1> QED BY <1>9, <1>10 DEF n, m

(***************************************************************************)
(* Within a day the streak grows in two ways: today becomes clean, or the  *)
(* last enabled source with only bad runs today recovers.                  *)
(***************************************************************************)
LEMMA GrowthIs ==
    ASSUME HInv, HInv', Next, Today' = Today, GateStreak' > GateStreak
    PROVE  /\ ~Clean(runs, Enabled, Today)
           /\ \/ Clean(runs', Enabled', Today)
              \/ /\ PendingDay(runs', Enabled', Today)
                 /\ \E s \in Enabled : DayBad(runs, s, Today)
<1> DEFINE n == GateStreak
           m == GateStreak'
           last == LastDay(runs, Enabled, Today)
           new == LastDay(runs', Enabled', Today)
<1>1. Today \in Int /\ Window \in Nat
  BY DailyAssumption DEF HInv, Shape
<1>2. /\ last \in {Today - 1, Today}
      /\ n \in 0..last - Today + Window + 1
      /\ \A k \in 0..last - Today + Window + 1 : Run(runs, Enabled, last, k) => k <= n
  BY <1>1, StreakIs DEF GateStreak
<1>3. /\ new \in {Today - 1, Today}
      /\ m \in 0..new - Today + Window + 1
      /\ Run(runs', Enabled', new, m)
  BY <1>1, StreakIs DEF GateStreak
<1>4. \A d \in Int : d < Today => (Clean(runs', Enabled', d) <=> Clean(runs, Enabled, d))
  BY PastStays, CleanStays
<1>5. /\ last = IF PendingDay(runs, Enabled, Today) THEN Today - 1 ELSE Today
      /\ new = IF PendingDay(runs', Enabled', Today) THEN Today - 1 ELSE Today
      /\ PendingDay(runs, Enabled, Today) => ~Clean(runs, Enabled, Today)
  BY DEF LastDay, PendingDay
<1>6. m > n
  OBVIOUS
<1> HIDE DEF n, m, last, new
<1>7. n \in Nat /\ m \in Nat /\ m # 0
  BY <1>1, <1>2, <1>3, <1>6
<1>8. ~Clean(runs, Enabled, Today)
  <2> SUFFICES ASSUME Clean(runs, Enabled, Today) PROVE FALSE
    OBVIOUS
  <2>1. last = Today
    BY <1>5
  <2>2. CASE new = Today
    <3>1. Run(runs, Enabled, Today, m)
      <4> SUFFICES ASSUME NEW k \in 0..m - 1 PROVE Clean(runs, Enabled, Today - k)
        BY DEF Run
      <4>1. CASE k = 0
        BY <1>1, <4>1
      <4>2. CASE k # 0
        <5>1. Today - k \in Int /\ Today - k < Today
          BY <1>1, <1>7, <4>2
        <5> QED BY <1>3, <1>4, <2>2, <5>1 DEF Run
      <4> QED BY <4>1, <4>2
    <3>2. m \in 0..last - Today + Window + 1
      BY <1>1, <1>3, <2>1, <2>2
    <3> QED BY <1>2, <1>6, <1>7, <2>1, <3>1, <3>2
  <2>3. CASE new = Today - 1
    <3>1. Run(runs, Enabled, Today, m + 1)
      <4> SUFFICES ASSUME NEW k \in 0..m PROVE Clean(runs, Enabled, Today - k)
        BY <1>7 DEF Run
      <4>1. CASE k = 0
        BY <1>1, <4>1
      <4>2. CASE k # 0
        <5>1. /\ k - 1 \in 0..m - 1 /\ Today - 1 - (k - 1) = Today - k
              /\ Today - k \in Int /\ Today - k < Today
          BY <1>1, <1>7, <4>2
        <5> QED BY <1>3, <1>4, <2>3, <5>1 DEF Run
      <4> QED BY <4>1, <4>2
    <3>2. m + 1 \in 0..last - Today + Window + 1
      BY <1>1, <1>3, <2>1, <2>3
    <3> QED BY <1>2, <1>6, <1>7, <2>1, <3>1, <3>2
  <2> QED BY <1>3, <2>2, <2>3
<1>9. CASE new = Today
  <2>1. 0 \in 0..m - 1 /\ Today - 0 = Today
    BY <1>1, <1>7
  <2> QED BY <1>3, <1>8, <1>9, <2>1 DEF Run
<1>10. CASE new = Today - 1
  <2>1. PendingDay(runs', Enabled', Today)
    BY <1>1, <1>5, <1>10
  <2>2. ~PendingDay(runs, Enabled, Today)
    <3> SUFFICES ASSUME last = Today - 1 PROVE FALSE
      BY <1>5
    <3>1. Run(runs, Enabled, Today - 1, m)
      <4> SUFFICES ASSUME NEW k \in 0..m - 1 PROVE Clean(runs, Enabled, Today - 1 - k)
        BY DEF Run
      <4>1. Today - 1 - k \in Int /\ Today - 1 - k < Today
        BY <1>1, <1>7
      <4> QED BY <1>3, <1>4, <1>10, <4>1 DEF Run
    <3> QED BY <1>2, <1>3, <1>6, <1>7, <1>10, <3>1
  <2> QED BY <1>8, <2>1, <2>2 DEF PendingDay, Demanded
<1> QED BY <1>3, <1>8, <1>9, <1>10

(***************************************************************************)
(* A step by which the streak grows lands an 'ok' run of today.            *)
(***************************************************************************)
LEMMA GrowthStep ==
    ASSUME HInv, HInv', Next, GateStreak' > GateStreak
    PROVE  /\ Today' = Today
           /\ \E s \in Enabled : OkNow(s)
           /\ \/ \A s \in Enabled' : DayOk(runs', s, Today')
              \/ BadToday /\ ~BadToday'
<1>1. Today' = Today
  <2>1. GateStreak \in Int /\ GateStreak' \in Int
    <3>1. /\ Today \in Int /\ Today' \in Int /\ Window \in Nat
      BY DailyAssumption DEF HInv, Shape
    <3>2. \A rs, es : \A day \in Int : Streak(rs, es, day) \in Int
      <4> TAKE rs, es
      <4> SUFFICES ASSUME NEW day \in Int PROVE Streak(rs, es, day) \in Int
        OBVIOUS
      <4>1. LastDay(rs, es, day) \in Int
        BY DEF LastDay
      <4> QED BY <3>1, <4>1, StreakIs
    <3> QED BY <3>1, <3>2 DEF GateStreak
  <2> QED BY <2>1, MidnightAddsNothing
<1>2. /\ ~Clean(runs, Enabled, Today)
      /\ \/ Clean(runs', Enabled', Today)
         \/ /\ PendingDay(runs', Enabled', Today)
            /\ \E s \in Enabled : DayBad(runs, s, Today)
  BY <1>1, GrowthIs
<1>3. Demanded(runs, Enabled, Today) = Enabled /\ Demanded(runs', Enabled', Today) = Enabled'
  <2>1. Demanded(runs, Enabled, Today) = Enabled
    BY EnabledIsDemanded
  <2>2. (HInv => Demanded(runs, Enabled, Today) = Enabled)'
    BY EnabledIsDemanded, PTL
  <2> QED BY <1>1, <2>1, <2>2
<1>4. \A s \in Enabled \cup Enabled' : s \in Sources
  BY DEF Enabled
<1>5. CASE Clean(runs', Enabled', Today)
  <2>1. Enabled' # {} /\ \A s \in Enabled' : DayOk(runs', s, Today)
    BY <1>3, <1>5 DEF Clean
  <2>2. \A s \in Enabled' : s \in Enabled
    BY <1>4, <2>1, StatusesGrow
  <2>3. PICK s \in Enabled : ~DayOk(runs, s, Today)
    BY <1>2, <1>3, <2>1, <2>2 DEF Clean
  <2>4. s \in Enabled'
    BY <1>4, StatusesGrow
  <2> QED BY <1>1, <2>1, <2>3, <2>4 DEF OkNow
<1>6. CASE /\ PendingDay(runs', Enabled', Today)
           /\ \E s \in Enabled : DayBad(runs, s, Today)
  <2>1. PICK s \in Enabled : DayBad(runs, s, Today)
    BY <1>6
  <2>2. s \in Enabled' /\ ~DayBad(runs', s, Today)
    BY <1>3, <1>4, <1>6, StatusesGrow DEF PendingDay
  <2>3. StatusesOn(runs', s, Today) \cap Bad # {}
    <3>1. "running" \notin Bad
      BY DEF Bad
    <3> QED BY <1>4, <2>1, <3>1, StatusesGrow DEF DayBad
  <2>4. DayOk(runs', s, Today) /\ ~DayOk(runs, s, Today)
    BY <2>1, <2>2, <2>3 DEF DayBad
  <2>5. ~BadToday'
    BY <1>1, <1>3, <1>6 DEF BadToday, PendingDay
  <2> QED BY <1>1, <2>1, <2>4, <2>5 DEF OkNow, BadToday
<1> QED BY <1>2, <1>5, <1>6

(***************************************************************************)
(* OnlyOkRunsExtend: the gate's streak is evidence.  Over any history of   *)
(* crashes, restarts, releases, manual and catch-up runs it grows only     *)
(* when an 'ok' run of today lands, either the last one that was missing   *)
(* or the one by which the last failing source recovers.                   *)
(***************************************************************************)
THEOREM StreakEarned == Spec => OnlyOkRunsExtend
<1>1. HInv /\ HInv' /\ [Next]_vars =>
        [GateStreak' > GateStreak =>
           /\ Today' = Today
           /\ \E s \in Enabled : OkNow(s)
           /\ \/ \A s \in Enabled' : DayOk(runs', s, Today')
              \/ BadToday /\ ~BadToday']_vars
  BY GrowthStep
<1> QED BY <1>1, AlwaysHInv, PTL DEF Spec, OnlyOkRunsExtend

-------------------------------------------------------------------------------
(***************************************************************************)
(* A source with bad runs and no 'ok' one on two days has two bad runs     *)
(* after its last 'ok' one: the runs between are of those two days.        *)
(***************************************************************************)
LEMMA PairHasTwo ==
    ASSUME NEW n \in Nat, NEW B \in SUBSET (1..n), NEW a \in B, NEW b \in B, a # b
    PROVE  Cardinality(B) >= 2
<1>1. IsFiniteSet(1..n)
  BY FS_Interval
<1>2. IsFiniteSet(B)
  BY <1>1, FS_Subset
<1>3. IsFiniteSet(B \ {a}) /\ Cardinality(B \ {a}) = Cardinality(B) - 1
  BY <1>2, FS_RemoveElement
<1>4. IsFiniteSet((B \ {a}) \ {b})
      /\ Cardinality((B \ {a}) \ {b}) = Cardinality(B \ {a}) - 1
  BY <1>3, FS_RemoveElement
<1>5. Cardinality((B \ {a}) \ {b}) \in Nat /\ Cardinality(B) \in Nat
  BY <1>2, <1>4, FS_CardinalityType
<1> QED BY <1>3, <1>4, <1>5

LEMMA DeadIsNamed ==
    ASSUME HInv, NEW s \in Enabled, DeadOn(s, Today)
    PROVE  s \in Unhealthy(runs, Enabled, now)
<1> USE DEF HInv
<1> DEFINE Unmended(r) == /\ runs[r].status \in Bad
                          /\ \A k \in RunsOf(runs, s) : k > r => runs[k].status # "ok"
           B == {r \in RunsOf(runs, s) : Unmended(r)}
<1>1. Len(runs) \in Nat /\ now \in Nat /\ Today \in Int /\ DayOf(now) = Today
      /\ \A r \in 1..Len(runs) : runs[r].started \in Nat /\ DayOf(runs[r].started) \in Int
  <2>1. \A r \in 1..Len(runs) : runs[r] \in Rows
    BY DEF Shape
  <2>2. \A x \in Rows : x.started \in Nat
    BY DEF Rows
  <2> QED BY <2>1, <2>2 DEF Shape, Today, DayOf
<1>2. RunsOf(runs, s) \subseteq 1..Len(runs)
  BY DEF RunsOf
<1>3. ASSUME NEW d \in {Today - 1, Today}
      PROVE  \E r \in B : DayOf(runs[r].started) = d
  <2>1. ~DayOk(runs, s, d) /\ StatusesOn(runs, s, d) \cap Bad # {}
    BY <1>3 DEF DeadOn, DayBad
  <2>2. PICK r \in RunsOf(runs, s) :
          DayOf(runs[r].started) = d /\ runs[r].status \in Bad
    BY <2>1 DEF StatusesOn
  <2>3. ASSUME NEW k \in RunsOf(runs, s), k > r, runs[k].status = "ok"
        PROVE  FALSE
    <3>1. runs[r].started <= runs[k].started /\ runs[k].started <= now
      BY <1>1, <1>2, <2>2, <2>3 DEF Dated
    <3>2. d <= DayOf(runs[k].started) /\ DayOf(runs[k].started) <= Today
      BY <1>1, <1>2, <2>2, <3>1, DayOrder
    <3>3. DayOf(runs[k].started) \in {Today - 1, Today}
      BY <1>1, <1>2, <1>3, <3>2
    <3>4. "ok" \in StatusesOn(runs, s, DayOf(runs[k].started))
      BY <2>3 DEF StatusesOn
    <3> QED BY <3>3, <3>4 DEF DeadOn, DayBad, DayOk
  <2> QED BY <2>2, <2>3
<1>4. PICK a \in B : DayOf(runs[a].started) = Today - 1
  BY <1>3
<1>5. PICK b \in B : DayOf(runs[b].started) = Today
  BY <1>3
<1>6. a # b
  BY <1>1, <1>4, <1>5
<1>7. B \in SUBSET (1..Len(runs))
  BY <1>2
<1>8. ConsecutiveBad(runs, s) = Cardinality(B)
  BY DEF ConsecutiveBad
<1> HIDE DEF B
<1>9. Cardinality(B) >= 2
  BY <1>1, <1>4, <1>5, <1>6, <1>7, PairHasTwo
<1> QED BY <1>8, <1>9 DEF Unhealthy

-------------------------------------------------------------------------------
(***************************************************************************)
(* The day's schedule, whatever jobs there are: what is due is still to    *)
(* come and its thread idle, and a process that is down or has yet to look *)
(* at the gate does nothing.                                               *)
(***************************************************************************)
Schedule == DueAhead /\ Down /\ Waking

LEMMA SInit == Init => Schedule
<1> SUFFICES ASSUME Init PROVE Schedule
  OBVIOUS
<1>1. Time = 0
  BY DEF Init, Time
<1>2. \A t \in Threads : ~Active(t)
  BY DEF Init, Active
<1>3. \A j \in Jobs : 0 <= JobAt[j] /\ (j # "digest" => j \in Threads)
  BY StopsAre DEF Threads
<1> QED BY <1>1, <1>2, <1>3 DEF Init, Schedule, DueAhead, Down, Waking

LEMMA SStep ==
    ASSUME HInv, Schedule, [Next]_vars
    PROVE  Schedule'
<1> USE DEF HInv, Schedule
<1>1. CASE UNCHANGED vars
  BY <1>1 DEF vars, process, DueAhead, Down, Waking, Active, Time
<1>2. ASSUME NEW j \in Jobs, Fire(j)
      PROVE  Schedule'
  <2>1. /\ up /\ j \in due /\ Time = JobAt[j] /\ due' = due \ {j}
        /\ up' = up /\ checking' = checking /\ at' = at /\ now' = now
    BY <1>2 DEF Fire
  <2>2. Time' = Time
    BY <2>1, SameClock
  <2>3. \A t \in Threads : t # j => todo'[t] = todo[t]
    BY <1>2 DEF Fire, Shape
  <2>4. \A t \in Threads : t # j => (Active(t)' <=> Active(t))
    BY <2>1, <2>3 DEF Active
  <2>5. /\ \A i \in due : i \in {"rera", "portals", "digest"}
        /\ {"rera", "portals", "catchup"} \subseteq Threads /\ j # "catchup"
    <3>1. \A i \in Jobs : i \in {"rera", "portals", "digest"}
      BY StopsAre
    <3>2. due \subseteq Jobs
      BY DEF Shape
    <3>3. j # "catchup"
      BY <3>1
    <3>4. {"rera", "portals", "catchup"} \subseteq Threads
      BY DEF Threads
    <3> HIDE DEF HInv, Schedule
    <3> QED BY <3>1, <3>2, <3>3, <3>4
  <2>6. DueAhead'
    BY <2>1, <2>2, <2>4, <2>5 DEF DueAhead
  <2>7. Down'
    BY <2>1 DEF Down
  <2>8. Waking'
    <3>1. \A i \in Jobs : JobAt[i] > Time => i # j
      BY <2>1, StopsAre DEF Shape
    <3> QED BY <2>1, <2>2, <2>4, <2>5, <3>1 DEF Waking
  <2> QED BY <2>6, <2>7, <2>8
<1>3. ASSUME NEW t \in Threads, StartRun(t)
      PROVE  Schedule'
  <2>1. /\ up' = up /\ checking' = checking /\ due' = due /\ now' = now
        /\ todo[t] # {} /\ \A u \in Threads : u # t => todo'[u] = todo[u] /\ at'[u] = at[u]
    BY <1>3 DEF StartRun, Shape
  <2>2. Active(t) /\ \A u \in Threads : Active(u)' => Active(u)
    BY <2>1 DEF Active
  <2>3. Time' = Time
    BY <2>1, SameClock
  <2>4. \A i \in due : i # "digest" => i \in Threads
    BY StopsAre DEF Shape, Threads
  <2> QED BY <2>1, <2>2, <2>3, <2>4 DEF DueAhead, Down, Waking, Threads
<1>4. ASSUME NEW t \in Threads, NEW st \in Statuses, EndRun(t, st)
      PROVE  Schedule'
  <2>1. /\ up' = up /\ checking' = checking /\ due' = due /\ now' = now
        /\ todo' = todo /\ \A u \in Threads : at'[u] # 0 => at'[u] = at[u]
    BY <1>4 DEF EndRun, Shape
  <2>2. \A u \in Threads : Active(u)' => Active(u)
    BY <2>1 DEF Active
  <2>3. Time' = Time
    BY <2>1, SameClock
  <2>4. \A i \in due : i # "digest" => i \in Threads
    BY StopsAre DEF Shape, Threads
  <2> QED BY <2>1, <2>2, <2>3, <2>4 DEF DueAhead, Down, Waking, Threads
<1>5. CASE Manual
  <2>1. /\ up /\ up' = up /\ checking' = checking /\ due' = due /\ now' = now /\ at' = at
        /\ \A u \in Threads : u # "cli" => todo'[u] = todo[u]
    BY <1>5 DEF Manual, Shape
  <2>2. \A u \in Threads : u # "cli" /\ Active(u)' => Active(u)
    BY <2>1 DEF Active
  <2>3. Time' = Time
    BY <2>1, SameClock
  <2>4. \A i \in due : i # "digest" => i \in Threads /\ i # "cli"
    BY StopsAre DEF Shape, Threads
  <2> QED BY <2>1, <2>2, <2>3, <2>4 DEF DueAhead, Down, Waking, Threads
<1>6. CASE Crash
  <2>1. up' = FALSE /\ checking' = FALSE /\ due' = {} /\ \A t \in Threads : ~Active(t)'
    BY <1>6 DEF Crash, Active
  <2> QED BY <2>1 DEF DueAhead, Down, Waking
<1>7. CASE Boot
  <2>1. /\ ~up /\ up' /\ now' = now /\ todo' = todo /\ at' = at
        /\ due' = {j \in Jobs : JobAt[j] > Time}
    BY <1>7 DEF Boot
  <2>2. \A t \in Threads : ~Active(t)'
    BY <2>1 DEF Down, Active
  <2>3. Time' = Time
    BY <2>1, SameClock
  <2>4. /\ \A i \in Jobs : i # "digest" => i \in Threads
        /\ \A i \in Jobs : JobAt[i] \in Nat
        /\ Time \in Nat
    BY StopsAre DEF Threads, Shape
  <2>5. "catchup" \in Threads
    BY DEF Threads
  <2> QED BY <2>1, <2>2, <2>3, <2>4, <2>5 DEF DueAhead, Down, Waking
<1>8. CASE CatchUp
  <2>1. /\ checking /\ ~checking' /\ up' = up /\ due' = due /\ now' = now /\ at' = at
        /\ \A u \in Threads : u # "catchup" => todo'[u] = todo[u]
    BY <1>8 DEF CatchUp, Shape
  <2>2. \A u \in Threads : u # "catchup" /\ Active(u)' => Active(u)
    BY <2>1 DEF Active
  <2>3. Time' = Time
    BY <2>1, SameClock
  <2>4. \A i \in due : i # "digest" => i \in Threads /\ i # "catchup"
    BY StopsAre DEF Shape, Threads
  <2> QED BY <2>1, <2>2, <2>3, <2>4 DEF DueAhead, Down, Waking
<1>9. CASE Deploy
  BY <1>9, SameClock DEF Deploy, process, DueAhead, Down, Waking, Active
<1>10. CASE Tick
  <2>1. /\ ~checking /\ up' = up /\ checking' = checking /\ at' = at /\ todo' = todo
        /\ \A j \in due : JobAt[j] # Time
        /\ \A t \in Threads : Active(t)' <=> Active(t)
    BY <1>10 DEF Tick, Active
  <2>2. Today \in Int /\ Time \in Nat /\ \A j \in Jobs : JobAt[j] \in Nat
    BY StopsAre DEF Shape
  <2>3. \/ /\ Time # 720 /\ Time < Time' /\ Today' = Today
           /\ \A j \in Jobs : Time < JobAt[j] => Time' <= JobAt[j]
        \/ Time = 720 /\ Time' = 0 /\ Today' = Today + 1
    BY <1>10, TickIs
  <2>4. Today' = DayOf(now')
    BY DEF Today
  <2>5. CASE Time # 720
    <3>1. due' = due
      BY <1>10, <2>2, <2>3, <2>4, <2>5 DEF Tick
    <3>2. \A j \in due : Time' <= JobAt[j]
      BY <2>1, <2>2, <2>3, <2>5 DEF DueAhead, Shape
    <3>3. \A j \in due : j # "digest" => j \in Threads
      BY StopsAre DEF Shape, Threads
    <3>4. DueAhead'
      BY <2>1, <3>1, <3>2, <3>3 DEF DueAhead
    <3>5. Down'
      BY <2>1, <3>1 DEF Down
    <3>6. Waking'
      BY <2>1 DEF Waking
    <3> QED BY <3>4, <3>5, <3>6
  <2>6. CASE Time = 720
    <3>1. due' = IF up THEN Jobs ELSE due
      BY <1>10, <2>2, <2>3, <2>4, <2>6 DEF Tick
    <3>2. \A t \in Threads : ~Active(t)
      BY <1>10, <2>6 DEF Tick
    <3>3. Time' = 0
      BY <2>2, <2>3, <2>6
    <3>4. \A j \in Jobs : j # "digest" => j \in Threads
      BY StopsAre DEF Threads
    <3> QED BY <2>1, <2>2, <3>1, <3>2, <3>3, <3>4 DEF DueAhead, Down, Waking, Shape
  <2> QED BY <2>5, <2>6
<1> QED BY <1>1, <1>2, <1>3, <1>4, <1>5, <1>6, <1>7, <1>8, <1>9, <1>10, NextIs

LEMMA AlwaysSchedule == Spec => [](HInv /\ Schedule)
<1>1. HInv /\ Schedule /\ [Next]_vars => Schedule'
  BY SStep
<1> QED BY <1>1, SInit, AlwaysHInv, PTL DEF Spec

(***************************************************************************)
(* The digest names an enabled source that yesterday and today had bad     *)
(* runs and no 'ok' one: only the digest job takes itself off what is due. *)
(***************************************************************************)
LEMMA DigestStep ==
    ASSUME HInv, Schedule, [Next]_vars
    PROVE  DigestBuilt => \A s \in Enabled : DeadOn(s, Today) => s \in named'[Today]
<1> USE DEF HInv, Schedule
<1> SUFFICES ASSUME "digest" \in due, up', "digest" \notin due'
             PROVE  \A s \in Enabled : DeadOn(s, Today) => s \in named'[Today]
  BY DEF DigestBuilt
<1>1. Fire("digest")
  <2>1. due' # due
    OBVIOUS
  <2>2. Next
    BY <2>1 DEF vars, process
  <2>3. ~Crash
    BY DEF Crash
  <2>4. ~Boot
    BY DEF Boot, Down
  <2>5. ~Tick
    BY DEF Tick, Shape
  <2>6. \A j \in Jobs : Fire(j) => j = "digest"
    BY DEF Fire
  <2>7. \A t \in Threads : ~StartRun(t) /\ \A st \in Statuses : ~EndRun(t, st)
    BY <2>1 DEF StartRun, EndRun
  <2>8. ~Manual /\ ~CatchUp /\ ~Deploy
    BY <2>1 DEF Manual, CatchUp, Deploy, process
  <2> QED BY <2>2, <2>3, <2>4, <2>5, <2>6, <2>7, <2>8, NextIs
<1>2. named'[Today] = Unhealthy(runs, Enabled, now)
  BY <1>1 DEF Fire, Shape
<1> QED BY <1>2, DeadIsNamed

THEOREM DeadAlwaysNamed == Spec => DeadSourcesNamed
<1>1. HInv /\ Schedule /\ [Next]_vars =>
        [DigestBuilt => \A s \in Enabled : DeadOn(s, Today) => s \in named'[Today]]_vars
  BY DigestStep
<1> QED BY <1>1, AlwaysSchedule, PTL DEF Spec, DeadSourcesNamed

-------------------------------------------------------------------------------
(***************************************************************************)
(* The day's collection.  With no release, the table calls enabled what    *)
(* the registry enables; with no stranded run either, and the catch-up     *)
(* done, every enabled source has its answer of today, or a run of it is   *)
(* open, or it is on somebody's list.                                      *)
(***************************************************************************)
LEMMA RegistryStep ==
    ASSUME HInv, Schedule, OwnRegistry, Next
    PROVE  OwnRegistry'
<1> USE DEF HInv
<1> SUFFICES ASSUME Unharmed'
             PROVE  \A p \in Sources : sources'[p] = "enabled" <=>
                       sources'[p] # "none" /\ InRegistry(p)'
  BY DEF OwnRegistry
<1>1. Unharmed
  BY FaultsGrow
<1>2. ~Deploy
  <2>1. SUFFICES ASSUME Deploy PROVE FALSE
    OBVIOUS
  <2>2. faults' = Append(faults, "deploy") /\ faults \in Seq(Faults) /\ "deploy" \in Faults
    BY <2>1 DEF Deploy, Fault, Shape
  <2>3. Len(faults) + 1 \in DOMAIN faults' /\ faults'[Len(faults) + 1] = "deploy"
    BY <2>2
  <2> QED BY <2>3 DEF Unharmed, Range
<1>3. CASE sources' = sources /\ registry' = registry
  BY <1>1, <1>3 DEF OwnRegistry, InRegistry
<1>4. ASSUME NEW t \in Threads, StartRun(t)
      PROVE  \A p \in Sources : sources'[p] = "enabled" <=>
               sources'[p] # "none" /\ InRegistry(p)'
  <2>1. PICK s \in Sources :
          sources' = [sources EXCEPT ![s] = IF @ = "none" THEN FirstSeen(s) ELSE @]
    BY <1>4, StartIs
  <2>2. registry' = registry
    BY <1>4 DEF StartRun
  <2> QED BY <1>1, <2>1, <2>2 DEF OwnRegistry, InRegistry, FirstSeen, Shape
<1>5. ASSUME NEW j \in Jobs, Fire(j)
      PROVE  sources' = sources /\ registry' = registry
  BY <1>5 DEF Fire, tables
<1> QED BY <1>2, <1>3, <1>4, <1>5, NextIs
        DEF EndRun, Manual, Crash, Boot, CatchUp, Tick, tables

LEMMA SettledStays ==
    ASSUME HInv, Next, Today' = Today, NEW s \in Sources, Settled(s)
    PROVE  Settled(s)'
<1> USE DEF HInv
<1> DEFINE Answer == {"ok"} \cup Bad
<1>1. PICK r \in RunsOf(runs, s) :
        DayOf(runs[r].started) = Today /\ runs[r].status \in Answer
  BY DEF Settled, StatusesOn
<1>2. r \in 1..Len(runs) /\ runs[r].source = s /\ Len(runs) \in Nat
  BY DEF RunsOf, Shape
<1>3. SUFFICES /\ r \in 1..Len(runs') /\ runs'[r].source = s
               /\ DayOf(runs'[r].started) = Today /\ runs'[r].status \in Answer
  <2>1. r \in RunsOf(runs', s)
    BY <1>3 DEF RunsOf
  <2> QED BY <1>3, <2>1 DEF Settled, StatusesOn
<1>4. CASE runs' = runs
  BY <1>1, <1>2, <1>4
<1>5. ASSUME NEW t \in Threads, StartRun(t)
      PROVE  r \in 1..Len(runs') /\ runs'[r] = runs[r]
  <2>1. Len(runs') = Len(runs) + 1 /\ \A q \in 1..Len(runs) : runs'[q] = runs[q]
    BY <1>5, StartIs
  <2>2. r \in 1..Len(runs) + 1
    BY <1>2
  <2> QED BY <1>2, <2>1, <2>2
<1>6. ASSUME NEW t \in Threads, NEW st \in Statuses, EndRun(t, st)
      PROVE  /\ r \in 1..Len(runs') /\ runs'[r].source = runs[r].source
             /\ runs'[r].started = runs[r].started /\ runs'[r].status = runs[r].status
  <2>1. "running" \notin Answer
    BY DEF Bad
  <2>2. /\ Len(runs') = Len(runs) /\ runs[at[t]].status = "running"
        /\ \A q \in 1..Len(runs) :
             /\ runs'[q].source = runs[q].source /\ runs'[q].started = runs[q].started
             /\ runs'[q].status = IF q = at[t] THEN st ELSE runs[q].status
    BY <1>6, EndIs
  <2>3. r # at[t]
    BY <1>1, <2>1, <2>2
  <2> QED BY <1>2, <2>2, <2>3
<1>7. ASSUME NEW j \in Jobs, Fire(j)
      PROVE  runs' = runs
  BY <1>7 DEF Fire, tables
<1> HIDE DEF Answer
<1>8. CASE Manual \/ Crash \/ Boot \/ CatchUp \/ Deploy \/ Tick
  <2>1. runs' = runs
    BY <1>8 DEF Manual, Crash, Boot, CatchUp, Deploy, Tick, tables
  <2> QED BY <1>4, <2>1
<1> QED BY <1>1, <1>2, <1>4, <1>5, <1>6, <1>7, <1>8, NextIs

Handled == /\ \A s \in Enabled : Settled(s) \/ Ahead(s) \/ InHand(s)
           /\ Enabled # {} \/ Ahead(Rera)

LEMMA AnswerStatuses == \A st \in Statuses : st = "running" \/ st \in {"ok"} \cup Bad
BY DEF Statuses, Terminal, Bad

(***************************************************************************)
(* All of the registry on the list covers every enabled source.            *)
(***************************************************************************)
LEMMA ListedIsHandled ==
    ASSUME HInv, OwnRegistry, Unharmed,
           \/ EveryStep \subseteq todo["catchup"]
           \/ {"rera", "portals"} \subseteq due
    PROVE  Handled
<1>1. "catchup" \in Threads
  BY DEF Threads
<1>2. \A s \in Enabled : s = Rera \/ s \in registry
  BY DEF OwnRegistry, Enabled, InRegistry
<1>3. \A s : s = Rera \/ s \in registry => Ahead(s)
  BY <1>1 DEF Ahead, EveryStep
<1> QED BY <1>2, <1>3 DEF Handled

LEMMA ListedNext ==
    (/\ HInv /\ OwnRegistry /\ Unharmed
     /\ EveryStep \subseteq todo["catchup"] \/ {"rera", "portals"} \subseteq due
     => Handled)'
<1>1. /\ HInv /\ OwnRegistry /\ Unharmed
      /\ EveryStep \subseteq todo["catchup"] \/ {"rera", "portals"} \subseteq due
      => Handled
  BY ListedIsHandled
<1> QED BY <1>1, PTL

LEMMA CoveredStep ==
    ASSUME HInv, HInv', Schedule, OwnRegistry, OwnRegistry', Covered, Next,
           {"rera", "portals"} \subseteq Jobs
    PROVE  Covered'
<1> USE DEF HInv
<1> SUFFICES ASSUME Unharmed', up', ~checking'
             PROVE  Handled'
  BY DEF Covered, Handled
<1>1. Unharmed
  BY FaultsGrow
<1>2. /\ todo \in [Threads -> SUBSET Sources] /\ at \in [Threads -> Nat]
      /\ runs \in Seq(Rows) /\ Len(runs) \in Nat
      /\ sources \in [Sources -> {"none", "enabled", "disabled"}]
      /\ Rera \in Sources /\ {"rera", "portals", "catchup", "cli"} = Threads
  BY DEF Shape, Sources, Threads
<1>3. \A s \in Sources : Settled(s) /\ Today' = Today => Settled(s)'
  BY SettledStays
<1>4. Enabled \subseteq Sources /\ Enabled' \subseteq Sources
  BY DEF Enabled
<1>5. CASE CatchUp
  <2>1. CASE CatchUpNeeded
    <3>1. todo'["catchup"] = EveryStep /\ registry' = registry
      BY <1>2, <1>5, <2>1 DEF CatchUp
    <3>2. EveryStep' = EveryStep
      BY <3>1 DEF EveryStep
    <3> QED BY <3>1, <3>2, ListedNext
  <2>2. CASE ~CatchUpNeeded
    <3>1. /\ checking /\ todo' = todo /\ due' = due /\ runs' = runs /\ sources' = sources
          /\ registry' = registry /\ at' = at /\ now' = now
      BY <1>5, <2>2 DEF CatchUp, tables
    <3>2. CASE Time < JobAt["rera"]
      <4>1. JobAt["rera"] > Time /\ JobAt["portals"] > Time
        BY <3>2, StopsAre DEF Shape
      <4>2. {"rera", "portals"} \subseteq due'
        BY <3>1, <4>1 DEF Schedule, Waking
      <4> QED BY <4>2, ListedNext
    <3>3. CASE Clean(runs, Enabled, Today)
      <4>1. Enabled # {} /\ \A s \in Enabled : DayOk(runs, s, Today)
        BY <3>3, EnabledIsDemanded DEF Clean
      <4>2. \A s \in Enabled : Settled(s)
        BY <4>1 DEF DayOk, Settled
      <4>3. Enabled' = Enabled /\ Today' = Today
        BY <3>1, SameClock DEF Enabled
      <4> QED BY <1>3, <1>4, <4>1, <4>2, <4>3 DEF Handled
    <3>4. Time \in Nat /\ JobAt["rera"] \in Nat
      BY StopsAre DEF Shape
    <3> QED BY <2>2, <3>2, <3>3, <3>4 DEF CatchUpNeeded
  <2> QED BY <2>1, <2>2
<1>6. CASE Tick
  <2>1. /\ ~checking /\ up /\ at' = at /\ todo' = todo /\ runs' = runs
        /\ sources' = sources /\ registry' = registry
    BY <1>6 DEF Tick, tables
  <2>2. CASE Today' = Today
    <3>1. due' = due
      BY <1>6, <2>2 DEF Tick, Today
    <3>2. Handled
      BY <1>1, <2>1 DEF Covered, Handled
    <3> QED BY <2>1, <2>2, <3>1, <3>2
            DEF Handled, Settled, Ahead, InHand, Enabled
  <2>3. CASE Today' # Today
    <3>1. due' = Jobs
      BY <1>6, <2>1, <2>3 DEF Tick, Today
    <3> QED BY <3>1, ListedNext
  <2> QED BY <2>2, <2>3
<1>7. ~Crash /\ ~Boot /\ (~Deploy \/ ~up')
  BY DEF Crash, Boot, Deploy, process
<1>8. ~Deploy
  BY <1>7
<1>9. ASSUME ~CatchUp, ~Tick
      PROVE  Handled'
  <2>1. up' = up /\ checking' = checking
    <3>1. ASSUME NEW j \in Jobs, Fire(j)
          PROVE  up' = up /\ checking' = checking
      BY <3>1 DEF Fire
    <3> QED BY <1>7, <1>8, <1>9, <3>1, NextIs DEF StartRun, EndRun, Manual
  <2>2. up /\ ~checking
    BY <2>1
  <2>3. Handled
    BY <1>1, <2>2 DEF Covered, Handled
  <2>4. ASSUME now' = now, sources' = sources, runs' = runs, at' = at,
               \A s : Ahead(s) => Ahead(s)'
        PROVE  Handled'
    BY <1>3, <1>4, <2>3, <2>4, SameClock DEF Handled, InHand, Enabled
  <2>5. ASSUME NEW j \in Jobs, Fire(j)
        PROVE  Handled'
    <3>1. /\ now' = now /\ sources' = sources /\ runs' = runs /\ at' = at
          /\ registry' = registry /\ due' = due \ {j} /\ j \in due
          /\ j # "digest" => ~Active(j)
      BY <2>5 DEF Fire, tables, Schedule, DueAhead
    <3>2. CASE j = "digest"
      <4>1. todo' = todo
        BY <2>5, <3>2 DEF Fire
      <4> QED BY <2>4, <3>1, <3>2, <4>1 DEF Ahead
    <3>3. CASE j # "digest"
      <4>1. j \in Threads /\ j \in {"rera", "portals"} /\ ~Active(j) /\ todo[j] = {}
        BY <1>2, <3>1, <3>3, StopsAre DEF Active
      <4>2. /\ todo'[j] = IF j = "rera" THEN {Rera} ELSE registry
            /\ \A t \in Threads : t # j => todo'[t] = todo[t]
        BY <1>2, <2>5, <3>3, <4>1 DEF Fire
      <4>3. \A s : Ahead(s) => Ahead(s)'
        BY <3>1, <4>1, <4>2 DEF Ahead
      <4> QED BY <2>4, <3>1, <4>3
    <3> QED BY <3>2, <3>3
  <2>6. CASE Manual
    <3>1. /\ now' = now /\ sources' = sources /\ runs' = runs /\ at' = at
          /\ registry' = registry /\ due' = due /\ todo["cli"] = {}
          /\ \A t \in Threads : t # "cli" => todo'[t] = todo[t]
      BY <1>2, <2>6 DEF Manual, tables, Active
    <3> QED BY <2>4, <3>1 DEF Ahead
  <2>7. ASSUME NEW t \in Threads, StartRun(t)
        PROVE  Handled'
    <3>1. PICK s \in todo[t] :
            /\ s \in Sources /\ at[t] = 0 /\ now' = now
            /\ \A r \in 1..Len(runs) : runs'[r] = runs[r]
            /\ runs'[Len(runs) + 1] = [source |-> s, started |-> now, status |-> "running"]
            /\ sources' = [sources EXCEPT ![s] = IF @ = "none" THEN FirstSeen(s) ELSE @]
            /\ todo' = [todo EXCEPT ![t] = @ \ {s}]
            /\ at' = [at EXCEPT ![t] = Len(runs) + 1]
      BY <2>7, StartIs
    <3>2. due' = due /\ registry' = registry /\ Today' = Today
      BY <2>7, <3>1, SameClock DEF StartRun
    <3>3. InHand(s)'
      <4>1. at'[t] = Len(runs) + 1 /\ Len(runs) + 1 # 0
        BY <1>2, <3>1
      <4> QED BY <3>1, <4>1 DEF InHand
    <3>4. \A p : p # s /\ Ahead(p) => Ahead(p)'
      <4>1. \A u \in Threads : \A p : p # s /\ p \in todo[u] => p \in todo'[u]
        BY <1>2, <3>1
      <4> QED BY <3>2, <4>1 DEF Ahead
    <3>5. \A p : InHand(p) => InHand(p)'
      <4>1. \A u \in Threads : at[u] # 0 =>
              at'[u] = at[u] /\ runs'[at[u]] = runs[at[u]]
        BY <1>2, <3>1 DEF Open
      <4> QED BY <4>1 DEF InHand
    <3>6. Enabled \subseteq Enabled' /\ \A p \in Enabled' : p # s => p \in Enabled
      BY <1>2, <3>1 DEF Enabled
    <3>7. s = Rera => Rera \in Enabled'
      <4>1. sources[Rera] # "none" => sources[Rera] = "enabled"
        BY <1>1, <1>2 DEF OwnRegistry, InRegistry
      <4> QED BY <1>2, <3>1, <4>1 DEF Enabled, FirstSeen, InRegistry
    <3>8. \A p \in Enabled' : (Settled(p) \/ Ahead(p) \/ InHand(p))' 
      BY <1>3, <1>4, <2>3, <3>2, <3>3, <3>4, <3>5, <3>6 DEF Handled
    <3>9. (Enabled # {} \/ Ahead(Rera))'
      BY <2>3, <3>4, <3>6, <3>7 DEF Handled
    <3> QED BY <3>8, <3>9 DEF Handled
  <2>8. ASSUME NEW t \in Threads, NEW st \in Statuses, EndRun(t, st),
               st = "running" => Strand(t)
        PROVE  Handled'
    <3>1. st \in {"ok"} \cup Bad
      <4>1. SUFFICES ASSUME Strand(t) PROVE FALSE
        BY <2>8, AnswerStatuses
      <4>2. faults' = Append(faults, "strand") /\ faults \in Seq(Faults) /\ "strand" \in Faults
        BY <4>1 DEF Strand, Fault, Shape
      <4>3. Len(faults) + 1 \in DOMAIN faults' /\ faults'[Len(faults) + 1] = "strand"
        BY <4>2
      <4> QED BY <4>3 DEF Unharmed, Range
    <3>2. /\ at[t] \in 1..Len(runs) /\ now' = now /\ at' = [at EXCEPT ![t] = 0]
          /\ Len(runs') = Len(runs)
          /\ \A r \in 1..Len(runs) :
               /\ runs'[r].source = runs[r].source /\ runs'[r].started = runs[r].started
               /\ runs'[r].status = IF r = at[t] THEN st ELSE runs[r].status
      BY <2>8, EndIs
    <3>3. /\ due' = due /\ registry' = registry /\ todo' = todo /\ sources' = sources
          /\ Today' = Today
      BY <2>8, <3>2, SameClock DEF EndRun
    <3>4. ASSUME NEW p
          PROVE  InHand(p) => InHand(p)' \/ Settled(p)'
      <4>1. SUFFICES ASSUME NEW u \in Threads, at[u] # 0, runs[at[u]].source = p
                     PROVE  InHand(p)' \/ Settled(p)'
        BY DEF InHand
      <4>2. CASE u # t
        BY <1>2, <3>2, <4>1, <4>2 DEF InHand, Open
      <4>3. CASE u = t
        <5>1. at[t] \in RunsOf(runs', p) /\ runs'[at[t]].status = st
              /\ DayOf(runs'[at[t]].started) = Today'
          BY <3>2, <3>3, <4>1, <4>3 DEF RunsOf, Open
        <5> QED BY <3>1, <5>1 DEF Settled, StatusesOn
      <4> QED BY <4>2, <4>3
    <3>5. Enabled' = Enabled /\ \A p : Ahead(p) => Ahead(p)'
      BY <3>3 DEF Enabled, Ahead
    <3> QED BY <1>3, <1>4, <2>3, <3>3, <3>4, <3>5 DEF Handled
  <2> QED BY <1>7, <1>8, <1>9, <2>5, <2>6, <2>7, <2>8, NextIs
<1> QED BY <1>5, <1>6, <1>9

LEMMA CInit ==
    ASSUME Init, {"rera", "portals"} \subseteq Jobs
    PROVE  OwnRegistry /\ Covered
<1>1. Enabled = {} /\ due = Jobs /\ \A s \in Sources : sources[s] = "none"
  BY DEF Init, Enabled
<1>2. Ahead(Rera)
  BY <1>1 DEF Ahead
<1> QED BY <1>1, <1>2 DEF OwnRegistry, Covered

LEMMA AlwaysCovered ==
    ASSUME {"rera", "portals"} \subseteq Jobs
    PROVE  Spec => [](HInv /\ Schedule /\ OwnRegistry /\ Covered)
<1>1. Init => OwnRegistry /\ Covered
  BY CInit
<1>2. HInv /\ Schedule /\ OwnRegistry /\ [Next]_vars => OwnRegistry'
  <2>1. ASSUME UNCHANGED vars
        PROVE  OwnRegistry' <=> OwnRegistry
    BY <2>1 DEF vars, tables, OwnRegistry, Unharmed, InRegistry
  <2> QED BY <2>1, RegistryStep
<1>3. HInv /\ HInv' /\ Schedule /\ OwnRegistry /\ OwnRegistry' /\ Covered /\ [Next]_vars
        => Covered'
  <2>1. ASSUME UNCHANGED vars
        PROVE  Covered' <=> Covered
    BY <2>1 DEF vars, process, tables, Covered, Unharmed, Settled, Ahead, InHand, Enabled, Today
  <2> QED BY <2>1, CoveredStep
<1> QED BY <1>1, <1>2, <1>3, AlwaysSchedule, PTL DEF Spec

(***************************************************************************)
(* "Any restart or maintenance window spanning 05:30-06:45 costs a gate    *)
(* day" no more: at noon nothing is due, and once every thread is idle     *)
(* every enabled source has its answer, so the gate waits for none.        *)
(***************************************************************************)
LEMMA IdleIsSettled ==
    HInv /\ Schedule /\ Covered => DayRecovered
<1> SUFFICES ASSUME HInv, Schedule, Covered, Unharmed, up, ~checking, Time = 720,
                    \A t \in Threads : ~Active(t)
             PROVE  ~PendingDay(runs, Enabled, Today)
  BY DEF DayRecovered, Unharmed
<1>1. due = {}
  <2>1. \A j \in Jobs : JobAt[j] \in Nat /\ JobAt[j] < 720
    BY StopsAre
  <2> QED BY <2>1 DEF HInv, Shape, Schedule, DueAhead
<1>2. \A s : ~Ahead(s) /\ ~InHand(s)
  BY <1>1 DEF Ahead, InHand, Active
<1>3. Enabled # {} /\ \A s \in Enabled : Settled(s)
  BY <1>2 DEF Covered
<1>4. ASSUME \A s \in Enabled : ~DayBad(runs, s, Today)
      PROVE  Clean(runs, Enabled, Today)
  <2>1. \A s \in Enabled : DayOk(runs, s, Today)
    BY <1>3, <1>4 DEF Settled, DayBad, DayOk
  <2> QED BY <1>3, <2>1, EnabledIsDemanded DEF Clean
<1> QED BY <1>4, EnabledIsDemanded DEF PendingDay

THEOREM DayAlwaysRecovered ==
    ASSUME {"rera", "portals"} \subseteq Jobs
    PROVE  Spec => []DayRecovered
BY AlwaysCovered, IdleIsSettled, PTL
===============================================================================
