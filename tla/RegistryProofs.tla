---------------------------- MODULE RegistryProofs ----------------------------
(***************************************************************************)
(* Theorems about Registry, for any sessions, pages, listings and faults:  *)
(* the archived pages of the runs that were not called failed account for  *)
(* the registry; the tags of a listing appear together; and, while the     *)
(* sessions of a job do not overlap, the tags agree with the evidence they *)
(* cite and the archive replays to the registry.                           *)
(***************************************************************************)
EXTENDS Registry, FiniteSetTheorems, WellFoundedInduction, TLAPS

ProjectKey(reg) == <<"project", reg>>

LEMMA KeysDiffer ==
    /\ \A reg : ProjectKey(reg)[1] = "project"
    /\ \A r1, r2 : ProjectKey(r1) = ProjectKey(r2) => r1 = r2
BY DEF ProjectKey

LEMMA OverrideAt ==
    ASSUME NEW new, NEW old
    PROVE  /\ DOMAIN Override(new, old) = DOMAIN new \cup DOMAIN old
           /\ \A k \in DOMAIN new : Override(new, old)[k] = new[k]
           /\ \A k \in DOMAIN old \ DOMAIN new : Override(new, old)[k] = old[k]
BY DEF Override

-------------------------------------------------------------------------------
(***************************************************************************)
(* A run is published once its upserts are committed: from then on its     *)
(* session, if it lives, can only close it, and no page of it is touched.  *)
(* A record is backed if it is on the archived page of such a run.         *)
(***************************************************************************)
Published(r) ==
    /\ r \in 1..Len(runs)
    /\ r \in DOMAIN raw
    /\ runs[r].status # "failed"
    /\ raw[r] # Malformed
    /\ \A w \in Workers : cur[w] = r => pc[w] = "close"

Backed(rec) == \E r \in DOMAIN raw : Published(r) /\ rec \in Range(raw[r])

RowsBacked ==
    \A reg \in Regs : ProjectKey(reg) \in DOMAIN rows =>
        /\ "raw" \in DOMAIN rows[ProjectKey(reg)]
        /\ Backed(rows[ProjectKey(reg)].raw)

ClosedRuns ==
    \A r \in 1..Len(runs) : runs[r].status \in {"ok", "anomalous"} =>
        /\ r \in DOMAIN raw
        /\ \A reg \in Regs : Registered(r, reg) => ProjectKey(reg) \in DOMAIN rows

(***************************************************************************)
(* What a session is sure of: its run is its own and open, its page is the *)
(* archived one, and the records before pos have their projects, as        *)
(* committed rows or among what it has flushed.                            *)
(***************************************************************************)
InRun(w) == pc[w] \in {"record", "project"} \/ (pc[w] = "flush" /\ cur[w] # 0)

RunOpen(w) ==
    /\ cur[w] # 0 => cur[w] \in 1..Len(runs) /\ runs[cur[w]].status = "running"
    /\ pc[w] \in {"idle", "tag"} => cur[w] = 0
    /\ pc[w] \in {"fetch", "parse", "record", "project", "close"} => cur[w] # 0
    /\ pc[w] \in {"idle", "fetch", "parse"} => pos[w] = 1

PageKept(w) ==
    /\ pc[w] = "parse" => page[w] \in Pages
    /\ InRun(w) \/ pc[w] = "close" => page[w] \in Seq(Record) /\ page[w] # Malformed
    /\ InRun(w) \/ pc[w] \in {"parse", "close"} =>
         cur[w] \in DOMAIN raw /\ raw[cur[w]] = page[w]

AtPos(w) ==
    /\ InRun(w) => pos[w] \in Nat \ {0}
    /\ InRun(w) /\ pc[w] # "record" => /\ pos[w] \in 1..Len(page[w])
                                       /\ Rec(w).reg # Null

Wanted(w) ==
    pc[w] = "flush" =>
        IF cur[w] = 0 THEN want[w].key[1] = "tag"
        ELSE \/ want[w].key[1] = "builder"
             \/ /\ want[w].key = ProjectKey(Rec(w).reg)
                /\ "raw" \in DOMAIN want[w].row
                /\ want[w].row.raw = Rec(w)
                /\ view[w] # Null => want[w].key \in DOMAIN staged[w] \cup DOMAIN rows

StagedBacked(w) ==
    \A reg \in Regs : ProjectKey(reg) \in DOMAIN staged[w] =>
        /\ InRun(w)
        /\ "raw" \in DOMAIN staged[w][ProjectKey(reg)]
        /\ \/ staged[w][ProjectKey(reg)].raw \in Range(page[w])
           \/ Backed(staged[w][ProjectKey(reg)].raw)

Done(w) ==
    /\ InRun(w) => \A k \in 1..Len(page[w]) : k < pos[w] /\ page[w][k].reg # Null =>
         ProjectKey(page[w][k].reg) \in DOMAIN rows \cup DOMAIN staged[w]
    /\ pc[w] = "close" => \A k \in 1..Len(page[w]) : page[w][k].reg # Null =>
         ProjectKey(page[w][k].reg) \in DOMAIN rows

Session(w) == /\ RunOpen(w) /\ PageKept(w) /\ AtPos(w) /\ Wanted(w)
              /\ StagedBacked(w) /\ Done(w)

Distinct == \A v, w \in Workers : v # w /\ cur[v] = cur[w] => cur[v] = 0

RunRow == [status : Statuses, items : Nat]
Shape ==
    /\ runs \in Seq(RunRow)
    /\ DOMAIN pc = Workers /\ DOMAIN cur = Workers /\ DOMAIN page = Workers
    /\ DOMAIN pos = Workers /\ DOMAIN view = Workers /\ DOMAIN want = Workers
    /\ DOMAIN staged = Workers

RInv == /\ Shape /\ Distinct /\ RowsBacked /\ ClosedRuns
        /\ \A w \in Workers : Session(w)

-------------------------------------------------------------------------------
(***************************************************************************)
(* The frame of a step of session w: nobody else's session, no other run   *)
(* and no other run's page change, and no row goes away.                   *)
(***************************************************************************)
Frame(w) ==
    /\ \A v \in Workers \ {w} :
         /\ pc'[v] = pc[v] /\ cur'[v] = cur[v] /\ page'[v] = page[v] /\ pos'[v] = pos[v]
         /\ view'[v] = view[v] /\ want'[v] = want[v] /\ staged'[v] = staged[v]
    /\ Len(runs') >= Len(runs)
    /\ \A r \in 1..Len(runs) : r # cur[w] => runs'[r] = runs[r]
    /\ \A r \in DOMAIN raw : r # cur[w] => r \in DOMAIN raw' /\ raw'[r] = raw[r]
    /\ DOMAIN rows \subseteq DOMAIN rows'
    /\ cur'[w] \in {cur[w], 0, Len(runs) + 1}

BackedStays == \A rec : Backed(rec) => Backed(rec)'

LEMMA FrameBacked ==
    ASSUME RInv, NEW w \in Workers, Frame(w), Shape',
           \/ pc[w] # "close"
           \/ cur'[w] = 0 /\ runs'[cur[w]].status # "failed" /\ raw' = raw
    PROVE  BackedStays
<1>1. Len(runs) \in Nat /\ Len(runs') \in Nat
  BY DEF RInv, Shape
<1>2. ASSUME NEW r \in DOMAIN raw, Published(r)
      PROVE  /\ Published(r)'
             /\ r \in DOMAIN raw' /\ raw'[r] = raw[r]
  <2>1. r \in 1..Len(runs) /\ r \in 1..Len(runs')
    BY <1>1, <1>2 DEF Published, Frame
  <2>2. CASE pc[w] # "close"
    <3>1. cur[w] # r
      BY <1>2, <2>2 DEF Published
    <3>2. runs'[r] = runs[r] /\ r \in DOMAIN raw' /\ raw'[r] = raw[r]
      BY <2>1, <3>1 DEF Frame
    <3>3. cur'[w] # r
      BY <1>1, <2>1, <3>1 DEF Frame
    <3> QED BY <1>2, <2>1, <3>2, <3>3 DEF Published, Frame
  <2>3. CASE cur'[w] = 0 /\ runs'[cur[w]].status # "failed" /\ raw' = raw
    <3>1. runs'[r].status # "failed"
      BY <1>2, <2>1, <2>3 DEF Published, Frame
    <3>2. cur'[w] # r
      BY <2>1, <2>3
    <3> QED BY <1>2, <2>1, <2>3, <3>1, <3>2 DEF Published, Frame
  <2> QED BY <2>2, <2>3
<1> QED BY <1>2 DEF BackedStays, Backed

LEMMA FrameSessions ==
    ASSUME RInv, NEW w \in Workers, Frame(w), BackedStays
    PROVE  /\ Distinct'
           /\ \A v \in Workers \ {w} : Session(v)'
<1>1. Len(runs) \in Nat
  BY DEF RInv, Shape
<1>2. \A v \in Workers : cur[v] = 0 \/ cur[v] \in 1..Len(runs)
  BY DEF RInv, Session, RunOpen
<1>3. Distinct'
  BY <1>1, <1>2 DEF RInv, Distinct, Frame
<1>4. ASSUME NEW v \in Workers \ {w} PROVE Session(v)'
  <2>1. /\ pc'[v] = pc[v] /\ cur'[v] = cur[v] /\ page'[v] = page[v] /\ pos'[v] = pos[v]
        /\ view'[v] = view[v] /\ want'[v] = want[v] /\ staged'[v] = staged[v]
        /\ DOMAIN rows \subseteq DOMAIN rows'
    BY DEF Frame
  <2>2. Session(v)
    BY DEF RInv
  <2>3. cur[v] # 0 => cur[v] # cur[w]
    BY DEF RInv, Distinct
  <2>4. RunOpen(v)'
    BY <1>1, <2>1, <2>2, <2>3 DEF Session, RunOpen, Frame
  <2>5. PageKept(v)'
    BY <2>1, <2>2, <2>3 DEF Session, PageKept, InRun, RunOpen, Frame
  <2>6. AtPos(v)'
    BY <2>1, <2>2 DEF Session, AtPos, InRun, Rec
  <2>7. Wanted(v)'
    BY <2>1, <2>2 DEF Session, Wanted, Rec
  <2>8. StagedBacked(v)'
    BY <2>1, <2>2 DEF Session, StagedBacked, InRun, BackedStays
  <2>9. Done(v)'
    BY <2>1, <2>2 DEF Session, Done, InRun
  <2> QED BY <2>4, <2>5, <2>6, <2>7, <2>8, <2>9 DEF Session
<1> QED BY <1>3, <1>4

(***************************************************************************)
(* A step that commits no row and calls no run ok.                         *)
(***************************************************************************)
LEMMA QuietStep ==
    ASSUME RInv, NEW w \in Workers, Frame(w), Shape', rows' = rows, pc[w] # "close",
           \A r \in 1..Len(runs') : runs'[r].status \in {"ok", "anomalous"} =>
               r \in 1..Len(runs) /\ runs'[r] = runs[r],
           BackedStays => Session(w)'
    PROVE  RInv'
<1>1. BackedStays
  BY FrameBacked
<1>2. RowsBacked'
  BY <1>1 DEF RInv, RowsBacked, BackedStays
<1>3. ClosedRuns'
  <2> SUFFICES ASSUME NEW r \in 1..Len(runs'), runs'[r].status \in {"ok", "anomalous"}
               PROVE  /\ r \in DOMAIN raw'
                      /\ \A reg \in Regs : Registered(r, reg)' =>
                             ProjectKey(reg) \in DOMAIN rows
    BY DEF ClosedRuns
  <2>1. r \in 1..Len(runs) /\ runs[r].status \in {"ok", "anomalous"}
    OBVIOUS
  <2>2. r # cur[w]
    BY <2>1 DEF RInv, Session, RunOpen
  <2>3. /\ r \in DOMAIN raw
        /\ \A reg \in Regs : Registered(r, reg) => ProjectKey(reg) \in DOMAIN rows
    BY <2>1 DEF RInv, ClosedRuns
  <2> QED BY <2>2, <2>3 DEF Frame, Registered
<1> QED BY <1>1, <1>2, <1>3, FrameSessions DEF RInv

(***************************************************************************)
(* A session that ends without a commit: its run, if it has one, is closed *)
(* as failed or left as it is.                                             *)
(***************************************************************************)
LEMMA LeaveSession ==
    ASSUME Shape, NEW w \in Workers, Leave(w), Shape'
    PROVE  /\ Session(w)'
           /\ cur'[w] = 0 /\ pc'[w] = "idle"
           /\ \A v \in Workers \ {w} :
                /\ pc'[v] = pc[v] /\ cur'[v] = cur[v] /\ page'[v] = page[v]
                /\ pos'[v] = pos[v] /\ view'[v] = view[v] /\ want'[v] = want[v]
                /\ staged'[v] = staged[v]
<1>1. /\ pc'[w] = "idle" /\ cur'[w] = 0 /\ staged'[w] = Nothing /\ pos'[w] = 1
  BY DEF Leave, Go, Shape
<1>2. DOMAIN staged'[w] = {}
  BY <1>1 DEF Nothing
<1>3. Session(w)'
  BY <1>1, <1>2 DEF Session, RunOpen, PageKept, AtPos, Wanted, StagedBacked, Done, InRun
<1> QED BY <1>1, <1>3 DEF Leave, Go, Shape

LEMMA LeaveShape ==
    ASSUME Shape, NEW w \in Workers, Leave(w), runs' \in Seq(RunRow)
    PROVE  Shape'
BY DEF Shape, Leave, Go

LEMMA FailedRun ==
    ASSUME Shape, NEW w \in Workers, cur[w] \in 1..Len(runs), NEW items \in Nat,
           NEW status \in Statuses,
           runs' = [runs EXCEPT ![cur[w]] = [status |-> status, items |-> items]]
    PROVE  /\ runs' \in Seq(RunRow)
           /\ Len(runs') = Len(runs)
           /\ runs'[cur[w]].status = status
           /\ \A r \in 1..Len(runs) : r # cur[w] => runs'[r] = runs[r]
<1> DEFINE row == [status |-> status, items |-> items]
<1>1. row \in RunRow /\ row.status = status
  BY DEF RunRow
<1>2. runs \in Seq(RunRow) /\ runs' = [runs EXCEPT ![cur[w]] = row]
  BY DEF Shape
<1> HIDE DEF row
<1> QED BY <1>1, <1>2

LEMMA CloseFailed ==
    ASSUME RInv, NEW w \in Workers, cur[w] # 0, pc[w] # "close", NEW items \in Nat,
           Close(w, "failed", items), UNCHANGED <<rows, raw>>
    PROVE  RInv'
<1>1. Shape /\ cur[w] \in 1..Len(runs) /\ Len(runs) \in Nat
  BY DEF RInv, Session, RunOpen, Shape
<1>2. /\ runs' \in Seq(RunRow) /\ Len(runs') = Len(runs)
      /\ runs'[cur[w]].status = "failed"
      /\ \A r \in 1..Len(runs) : r # cur[w] => runs'[r] = runs[r]
  <2>1. "failed" \in Statuses
    BY DEF Statuses, Terminal
  <2>2. runs' = [runs EXCEPT ![cur[w]] = [status |-> "failed", items |-> items]]
    BY DEF Close
  <2> QED BY ONLY <1>1, <2>1, <2>2, FailedRun, w \in Workers, items \in Nat
<1>3. Leave(w) /\ Shape'
  BY <1>1, <1>2, LeaveShape DEF Close
<1>4. Session(w)' /\ Frame(w)
  BY <1>1, <1>2, <1>3, LeaveSession DEF Frame
<1> QED BY <1>1, <1>2, <1>3, <1>4, QuietStep

LEMMA LeaveKeeps ==
    ASSUME RInv, NEW w \in Workers, pc[w] # "close", Leave(w), UNCHANGED tables
    PROVE  RInv'
<1>1. Shape /\ Shape' /\ Len(runs) \in Nat
  BY LeaveShape DEF RInv, Shape, tables
<1>2. Session(w)' /\ Frame(w)
  BY <1>1, LeaveSession DEF Frame, tables
<1> QED BY <1>1, <1>2, QuietStep DEF tables

-------------------------------------------------------------------------------
(***************************************************************************)
(* The run up to its first record.                                         *)
(***************************************************************************)
LEMMA StartKeeps == ASSUME RInv, NEW w \in Workers, Start(w) PROVE RInv'
<1> USE DEF Start, RInv
<1>1. Shape /\ Len(runs) \in Nat /\ Session(w) /\ cur[w] = 0
  BY DEF Shape, Session, RunOpen
<1>2. [status |-> "running", items |-> 0] \in RunRow
  BY DEF RunRow, Statuses
<1>3. /\ runs' \in Seq(RunRow) /\ Len(runs') = Len(runs) + 1
      /\ runs'[Len(runs) + 1].status = "running"
      /\ \A r \in 1..Len(runs) : runs'[r] = runs[r]
  BY <1>1, <1>2 DEF Shape
<1>4. Shape'
  BY <1>3 DEF Shape, Go
<1>5. pc'[w] = "fetch" /\ cur'[w] = Len(runs) + 1
  BY DEF Shape, Go
<1>6. Frame(w)
  BY <1>1, <1>3, <1>5 DEF Frame, Go, Shape
<1>7. Session(w)'
  <2>1. \A reg \in Regs : ProjectKey(reg) \notin DOMAIN staged[w]
    BY <1>1 DEF Session, StagedBacked, InRun
  <2> QED BY <1>1, <1>3, <1>5, <2>1 DEF Session, RunOpen, PageKept, AtPos, Wanted,
                                    StagedBacked, Done, InRun
<1>8. \A r \in 1..Len(runs') : runs'[r].status \in {"ok", "anomalous"} =>
        r \in 1..Len(runs) /\ runs'[r] = runs[r]
  BY <1>1, <1>3
<1> QED BY <1>4, <1>6, <1>7, <1>8, QuietStep

LEMMA ArchiveKeeps == ASSUME RInv, NEW w \in Workers, Archive(w) PROVE RInv'
<1> USE DEF RInv
<1>1. Shape /\ Len(runs) \in Nat /\ Session(w)
  BY DEF Shape
<1>2. PICK p \in Pages : /\ page' = [page EXCEPT ![w] = p]
                         /\ raw' = Override([r \in {cur[w]} |-> p], raw)
  BY DEF Archive
<1>3. /\ DOMAIN raw' = {cur[w]} \cup DOMAIN raw
      /\ raw'[cur[w]] = p
      /\ \A r \in DOMAIN raw : r # cur[w] => raw'[r] = raw[r]
  <2>1. DOMAIN raw' = {cur[w]} \cup DOMAIN raw
    BY <1>2 DEF Override
  <2>2. \A r \in {cur[w]} \cup DOMAIN raw : raw'[r] = IF r = cur[w] THEN p ELSE raw[r]
    BY <1>2 DEF Override
  <2> QED BY <2>1, <2>2
<1>4. /\ pc'[w] = "parse" /\ page'[w] = p /\ Shape'
      /\ UNCHANGED <<rows, runs, cur, pos, view, want, staged>>
  BY <1>2 DEF Archive, Go, Shape
<1>5. Frame(w)
  BY <1>1, <1>2, <1>3, <1>4 DEF Frame, Archive, Go, Shape
<1>6. Session(w)'
  <2>1. \A reg \in Regs : ProjectKey(reg) \notin DOMAIN staged[w]
    BY <1>1 DEF Session, StagedBacked, InRun, Archive
  <2> QED BY <1>1, <1>3, <1>4, <2>1 DEF Session, RunOpen, PageKept, AtPos, Wanted,
                                    StagedBacked, Done, InRun, Archive
<1> QED BY <1>1, <1>4, <1>5, <1>6, QuietStep DEF Archive

LEMMA ParseKeeps == ASSUME RInv, NEW w \in Workers, Parse(w) PROVE RInv'
<1> USE DEF RInv
<1>1. Shape /\ Len(runs) \in Nat /\ Session(w)
  BY DEF Shape
<1>2. /\ pc[w] = "parse" /\ pc'[w] = "record" /\ Shape' /\ Frame(w)
      /\ UNCHANGED <<rows, runs, raw, cur, page, pos, view, want, staged>>
  BY <1>1 DEF Parse, Go, Shape, Frame, tables
<1>3. page[w] \in Seq(Record) /\ page[w] # Malformed
  BY <1>1, <1>2, RegistryAssumption DEF Parse, Unparsable, Session, PageKept
<1>4. \A reg \in Regs : ProjectKey(reg) \notin DOMAIN staged[w]
  BY <1>1, <1>2 DEF Session, StagedBacked, InRun
<1>5. pos[w] = 1
  BY <1>1, <1>2 DEF Session, RunOpen
<1>6. Session(w)'
  BY <1>1, <1>2, <1>3, <1>4, <1>5 DEF Session, RunOpen, PageKept, AtPos, Wanted,
                                    StagedBacked, Done, InRun
<1> QED BY <1>2, <1>6, QuietStep

-------------------------------------------------------------------------------
(***************************************************************************)
(* The steps at a record that flush nothing.                               *)
(***************************************************************************)
LEMMA SkipKeeps == ASSUME RInv, NEW w \in Workers, Skip(w) PROVE RInv'
<1> USE DEF RInv
<1>1. Shape /\ Len(runs) \in Nat /\ Session(w)
  BY DEF Shape
<1>2. /\ pc[w] = "record" /\ pos[w] \in Nat \ {0} /\ Rec(w).reg = Null
  BY <1>1 DEF Skip, AtRecord, Session, AtPos, InRun
<1>3. /\ pos'[w] = pos[w] + 1 /\ Shape' /\ Frame(w)
      /\ UNCHANGED <<rows, runs, raw, pc, cur, page, view, want, staged>>
  BY <1>1 DEF Skip, Shape, Frame, tables
<1>4. Done(w)'
  <2> SUFFICES ASSUME NEW k \in 1..Len(page[w]), k < pos[w] + 1, page[w][k].reg # Null
               PROVE  ProjectKey(page[w][k].reg) \in DOMAIN rows \cup DOMAIN staged[w]
    BY <1>2, <1>3 DEF Done, InRun
  <2>1. k # pos[w]
    BY <1>2 DEF Rec
  <2>2. k < pos[w]
    BY <1>2, <2>1
  <2> QED BY <1>1, <1>2, <2>2 DEF Session, Done, InRun
<1>5. BackedStays => Session(w)'
  BY <1>1, <1>2, <1>3, <1>4 DEF Session, RunOpen, PageKept, AtPos, Wanted,
                                    StagedBacked, InRun, BackedStays
<1> QED BY <1>2, <1>3, <1>5, QuietStep

LEMMA FindBuilderKeeps == ASSUME RInv, NEW w \in Workers, FindBuilder(w) PROVE RInv'
<1> USE DEF RInv
<1>1. Shape /\ Len(runs) \in Nat /\ Session(w)
  BY DEF Shape
<1>2. /\ pc[w] = "record" /\ pos[w] \in 1..Len(page[w]) /\ Rec(w).reg # Null
  <2>1. page[w] \in Seq(Record) /\ pos[w] \in Nat \ {0}
    BY <1>1 DEF FindBuilder, AtRecord, Session, AtPos, PageKept, InRun
  <2> QED BY <2>1 DEF FindBuilder, AtRecord
<1>3. /\ UNCHANGED <<rows, runs, raw, cur, page, pos, staged>>
      /\ Shape' /\ Frame(w)
      /\ \/ pc'[w] = "project"
         \/ pc'[w] = "flush" /\ want'[w].key[1] = "builder"
  BY <1>1 DEF FindBuilder, Seek, Go, Shape, Frame, tables
<1>4. cur[w] # 0
  BY <1>1, <1>2 DEF Session, RunOpen
<1>5. BackedStays => Session(w)'
  BY <1>1, <1>2, <1>3, <1>4 DEF Session, RunOpen, PageKept, AtPos, Wanted, Rec,
                                    StagedBacked, Done, InRun, BackedStays
<1> QED BY <1>2, <1>3, <1>5, QuietStep

LEMMA FindProjectKeeps == ASSUME RInv, NEW w \in Workers, FindProject(w) PROVE RInv'
<1> USE DEF RInv
<1> DEFINE key == ProjectKey(Rec(w).reg)
<1>1. Shape /\ Len(runs) \in Nat /\ Session(w)
  BY DEF Shape
<1>2. /\ pc[w] = "project" /\ pos[w] \in 1..Len(page[w]) /\ Rec(w).reg # Null
      /\ cur[w] # 0
  BY <1>1 DEF FindProject, Session, AtPos, InRun, RunOpen
<1>3. /\ UNCHANGED <<rows, runs, raw, cur, page, pos, staged>>
      /\ Shape' /\ Frame(w) /\ pc'[w] = "flush"
      /\ view'[w] = Mine(w, key)
      /\ want'[w] = [key |-> key, row |-> Upserted(Rec(w), Mine(w, key))]
  BY <1>1 DEF FindProject, Seek, Go, Shape, Frame, tables, ProjectKey
<1>4. /\ want'[w].key = key
      /\ "raw" \in DOMAIN want'[w].row /\ want'[w].row.raw = Rec(w)
  BY <1>3 DEF Upserted
<1>5. view'[w] # Null => key \in DOMAIN staged[w] \cup DOMAIN rows
  BY <1>3, OverrideAt DEF Mine, Fetched
<1> HIDE DEF key
<1>6. Wanted(w)'
  BY <1>2, <1>3, <1>4, <1>5 DEF Wanted, Rec, key
<1>7. BackedStays => Session(w)'
  BY <1>1, <1>2, <1>3, <1>6 DEF Session, RunOpen, PageKept, AtPos, Rec,
                                    StagedBacked, Done, InRun, BackedStays
<1> QED BY <1>2, <1>3, <1>7, QuietStep

(***************************************************************************)
(* The tagger reads.                                                       *)
(***************************************************************************)
LEMMA ListKeeps == ASSUME RInv, NEW w \in Workers, List(w) PROVE RInv'
<1> USE DEF RInv
<1>1. Shape /\ Len(runs) \in Nat /\ Session(w)
  BY DEF Shape
<1>2. /\ pc[w] = "idle" /\ pc'[w] = "tag" /\ Shape' /\ Frame(w)
      /\ UNCHANGED <<rows, runs, raw, cur, page, pos, view, want, staged>>
  BY <1>1 DEF List, Go, Shape, Frame, tables
<1>3. Session(w)'
  BY <1>1, <1>2 DEF Session, RunOpen, PageKept, AtPos, Wanted, StagedBacked, Done, InRun
<1> QED BY <1>2, <1>3, QuietStep

LEMMA FindTagKeeps == ASSUME RInv, NEW w \in Workers, FindTag(w) PROVE RInv'
<1> USE DEF RInv
<1>1. Shape /\ Len(runs) \in Nat /\ Session(w)
  BY DEF Shape
<1>2. /\ pc[w] = "tag" /\ pc'[w] = "flush" /\ want'[w].key[1] = "tag"
      /\ UNCHANGED <<rows, runs, raw, cur, page, pos, staged>>
      /\ Shape' /\ Frame(w)
  BY <1>1 DEF FindTag, Seek, Go, Shape, Frame, tables
<1>3. Session(w)'
  BY <1>1, <1>2 DEF Session, RunOpen, PageKept, AtPos, Wanted, StagedBacked, Done, InRun
<1> QED BY <1>2, <1>3, QuietStep

-------------------------------------------------------------------------------
(***************************************************************************)
(* A flush: a builder's row, a project's, or a tag's.  A project's row is  *)
(* the one found with some columns replaced; its record is either the one  *)
(* at hand or one that was already backed.                                 *)
(***************************************************************************)
LEMMA MineBacked ==
    ASSUME RInv, NEW w \in Workers, NEW reg \in Regs, NEW key, key = ProjectKey(reg),
           key \in DOMAIN staged[w] \cup DOMAIN rows
    PROVE  /\ "raw" \in DOMAIN Mine(w, key)
           /\ \/ Mine(w, key).raw \in Range(page[w])
              \/ Backed(Mine(w, key).raw)
<1>1. Mine(w, key) = IF key \in DOMAIN staged[w] THEN staged[w][key] ELSE rows[key]
  BY DEF Mine, Fetched, Override
<1>2. CASE key \in DOMAIN staged[w]
  BY <1>1, <1>2 DEF RInv, Session, StagedBacked
<1>3. CASE key \notin DOMAIN staged[w]
  BY <1>1, <1>3 DEF RInv, RowsBacked
<1> QED BY <1>2, <1>3

LEMMA FlushKeeps == ASSUME RInv, NEW w \in Workers, Flush(w) PROVE RInv'
<1> DEFINE key == want[w].key
           row == IF view[w] = Null THEN want[w].row
                  ELSE WriteColumns(Mine(w, key), view[w], want[w].row)
<1>1. Shape /\ Len(runs) \in Nat /\ Session(w) /\ pc[w] = "flush"
  BY DEF RInv, Shape, Flush
<1>2. /\ staged'[w] = Override([k \in {key} |-> row], staged[w])
      /\ pc'[w] = CASE key[1] = "builder" -> "project"
                    [] key[1] = "project" -> "record"
                    [] OTHER -> "tag"
      /\ key[1] = "project" => pos'[w] = pos[w] + 1
      /\ key[1] = "builder" => pos'[w] = pos[w]
      /\ UNCHANGED <<rows, runs, raw, cur, page>>
  BY <1>1 DEF Flush, Go, Shape, tables
<1>3. Shape' /\ Frame(w)
  BY <1>1 DEF Flush, Go, Shape, Frame, tables
<1>4. /\ DOMAIN staged'[w] = {key} \cup DOMAIN staged[w]
      /\ staged'[w][key] = row
      /\ \A k \in DOMAIN staged[w] : k # key => staged'[w][k] = staged[w][k]
  <2> HIDE DEF key, row
  <2>1. DOMAIN staged'[w] = {key} \cup DOMAIN staged[w]
    BY <1>2 DEF Override
  <2>2. \A k \in {key} \cup DOMAIN staged[w] :
          staged'[w][k] = IF k = key THEN row ELSE staged[w][k]
    BY <1>2 DEF Override
  <2> QED BY <2>1, <2>2
<1>5. ASSUME BackedStays PROVE Session(w)'
  <2>1. CASE cur[w] = 0
    <3>1. key[1] = "tag" /\ pc'[w] = "tag" /\ cur'[w] = 0
      BY <1>1, <1>2, <2>1 DEF Session, Wanted
    <3>2. \A reg \in Regs : ProjectKey(reg) \notin DOMAIN staged'[w]
      <4>1. \A reg \in Regs : ProjectKey(reg) \notin DOMAIN staged[w]
        BY <1>1, <2>1 DEF Session, StagedBacked, InRun
      <4> QED BY <1>4, <3>1, <4>1, KeysDiffer
    <3> HIDE DEF key, row
    <3> QED BY <3>1, <3>2 DEF Session, RunOpen, PageKept, AtPos, Wanted, StagedBacked,
                              Done, InRun
  <2>2. CASE cur[w] # 0 /\ key[1] = "builder"
    <3>1. pc'[w] = "project" /\ cur'[w] = cur[w] /\ pos'[w] = pos[w]
      BY <1>2, <2>2
    <3>2. \A reg : ProjectKey(reg) # key
      BY <2>2, KeysDiffer
    <3> HIDE DEF key, row
    <3>3. StagedBacked(w)'
      BY <1>1, <1>2, <1>4, <1>5, <2>2, <3>1, <3>2
      DEF Session, StagedBacked, InRun, BackedStays
    <3>4. Done(w)'
      BY <1>1, <1>2, <1>4, <2>2, <3>1 DEF Session, Done, InRun
    <3>5. AtPos(w)'
      BY <1>1, <1>2, <2>2, <3>1 DEF Session, AtPos, InRun, Rec
    <3> QED BY <1>1, <1>2, <2>2, <3>1, <3>3, <3>4, <3>5
            DEF Session, RunOpen, PageKept, Wanted, InRun
  <2>3. CASE cur[w] # 0 /\ key[1] # "builder"
    <3>1. /\ key = ProjectKey(Rec(w).reg)
          /\ "raw" \in DOMAIN want[w].row /\ want[w].row.raw = Rec(w)
          /\ view[w] # Null => key \in DOMAIN staged[w] \cup DOMAIN rows
      BY <1>1, <2>3 DEF Session, Wanted
    <3>2. /\ page[w] \in Seq(Record) /\ pos[w] \in 1..Len(page[w])
          /\ Rec(w).reg # Null /\ Rec(w) \in Range(page[w])
      BY <1>1, <2>3 DEF Session, AtPos, InRun, PageKept, Rec, Range
    <3>3. Rec(w).reg \in Regs
      <4>1. Rec(w) \in Record
        BY <3>2 DEF Rec
      <4> QED BY <3>2, <4>1 DEF Record
    <3>4. pc'[w] = "record" /\ cur'[w] = cur[w] /\ pos'[w] = pos[w] + 1
      BY <1>2, <3>1, KeysDiffer
    <3>5. "raw" \in DOMAIN row /\ (row.raw \in Range(page[w]) \/ Backed(row.raw))
      <4>1. CASE view[w] = Null
        BY <3>1, <3>2, <4>1
      <4>2. CASE view[w] # Null
        <5>1. /\ "raw" \in DOMAIN Mine(w, key)
              /\ \/ Mine(w, key).raw \in Range(page[w])
                 \/ Backed(Mine(w, key).raw)
          BY <3>1, <3>3, <4>2, MineBacked
        <5>2. /\ DOMAIN row = DOMAIN Mine(w, key)
              /\ row.raw \in {want[w].row.raw, Mine(w, key).raw}
          BY <4>2, <5>1 DEF WriteColumns
        <5> QED BY <3>1, <3>2, <5>1, <5>2
      <4> QED BY <4>1, <4>2
    <3> HIDE DEF key, row
    <3>6. StagedBacked(w)'
      BY <1>1, <1>2, <1>4, <1>5, <2>3, <3>4, <3>5
      DEF Session, StagedBacked, InRun, BackedStays
    <3>7. Done(w)'
      <4> SUFFICES ASSUME NEW k \in 1..Len(page[w]), k < pos[w] + 1,
                          page[w][k].reg # Null
                   PROVE  ProjectKey(page[w][k].reg) \in DOMAIN rows \cup DOMAIN staged'[w]
        BY <1>2, <3>4 DEF Done, InRun
      <4>1. CASE k = pos[w]
        BY <1>4, <3>1, <4>1 DEF Rec
      <4>2. CASE k < pos[w]
        BY <1>1, <1>4, <2>3, <4>2 DEF Session, Done, InRun
      <4> QED BY <3>2, <4>1, <4>2
    <3>8. PageKept(w)' /\ AtPos(w)'
      BY <1>1, <1>2, <2>3, <3>2, <3>4 DEF Session, PageKept, AtPos, InRun
    <3> QED BY <1>1, <1>2, <2>3, <3>4, <3>6, <3>7, <3>8
            DEF Session, RunOpen, Wanted
  <2> QED BY <2>1, <2>2, <2>3
<1> QED BY <1>1, <1>2, <1>3, <1>5, QuietStep

-------------------------------------------------------------------------------
(***************************************************************************)
(* The commits.  That of a page publishes the run: its records have their  *)
(* projects and are on its archived page.  Closing the run then calls it   *)
(* ok or anomalous.  That of a tag pass touches no project.                *)
(***************************************************************************)
LEMMA PublishRows ==
    ASSUME NEW w \in Workers, Publish(w), DOMAIN staged = Workers
    PROVE  /\ DOMAIN rows' = DOMAIN staged[w] \cup DOMAIN rows
           /\ \A k \in DOMAIN staged[w] : rows'[k] = staged[w][k]
           /\ \A k \in DOMAIN rows \ DOMAIN staged[w] : rows'[k] = rows[k]
           /\ DOMAIN staged' = Workers /\ DOMAIN staged'[w] = {}
           /\ \A v \in Workers \ {w} : staged'[v] = staged[v]
<1>1. rows' = [k \in DOMAIN staged[w] \cup DOMAIN rows |->
                  IF k \in DOMAIN staged[w] THEN staged[w][k] ELSE rows[k]]
  BY DEF Publish, Override
<1>2. DOMAIN staged' = Workers /\ staged'[w] = Nothing
  BY DEF Publish
<1>3. \A v \in Workers \ {w} : staged'[v] = staged[v]
  BY DEF Publish
<1> QED BY <1>1, <1>2, <1>3 DEF Nothing

LEMMA CommitPageKeeps == ASSUME RInv, NEW w \in Workers, CommitPage(w) PROVE RInv'
<1>1. Shape /\ Len(runs) \in Nat /\ Session(w) /\ pc[w] = "record"
  BY DEF RInv, Shape, CommitPage
<1>2. /\ DOMAIN rows' = DOMAIN staged[w] \cup DOMAIN rows
      /\ \A k \in DOMAIN staged[w] : rows'[k] = staged[w][k]
      /\ \A k \in DOMAIN rows \ DOMAIN staged[w] : rows'[k] = rows[k]
      /\ DOMAIN staged' = Workers /\ DOMAIN staged'[w] = {}
      /\ \A v \in Workers \ {w} : staged'[v] = staged[v]
  BY <1>1, PublishRows DEF CommitPage, Shape
<1>3. /\ pc'[w] = "close" /\ UNCHANGED <<runs, raw, cur, page, pos, view, want>>
      /\ pos[w] > Len(page[w]) /\ DOMAIN pc' = Workers
      /\ \A v \in Workers \ {w} : pc'[v] = pc[v]
  BY <1>1 DEF CommitPage, Go, Shape
<1>4. Shape' /\ Frame(w)
  BY <1>1, <1>2, <1>3 DEF Shape, Frame
<1>5. BackedStays
  BY <1>1, <1>4, FrameBacked
<1>6. /\ cur[w] # 0 /\ cur[w] \in 1..Len(runs) /\ runs[cur[w]].status = "running"
      /\ page[w] \in Seq(Record) /\ page[w] # Malformed
      /\ cur[w] \in DOMAIN raw /\ raw[cur[w]] = page[w]
      /\ pos[w] \in Nat \ {0}
  BY <1>1 DEF Session, RunOpen, PageKept, AtPos, InRun
<1>7. Published(cur[w])'
  <2>1. \A v \in Workers : cur[v] = cur[w] => v = w
    BY <1>6 DEF RInv, Distinct
  <2> QED BY <1>3, <1>6, <2>1 DEF Published
<1>8. \A rec \in Range(page[w]) : Backed(rec)'
  BY <1>3, <1>6, <1>7 DEF Backed
<1>9. RowsBacked'
  <2> SUFFICES ASSUME NEW reg \in Regs, ProjectKey(reg) \in DOMAIN rows'
               PROVE  (/\ "raw" \in DOMAIN rows[ProjectKey(reg)]
                       /\ Backed(rows[ProjectKey(reg)].raw))'
    BY DEF RowsBacked
  <2>1. CASE ProjectKey(reg) \in DOMAIN staged[w]
    <3>1. /\ "raw" \in DOMAIN staged[w][ProjectKey(reg)]
          /\ \/ staged[w][ProjectKey(reg)].raw \in Range(page[w])
             \/ Backed(staged[w][ProjectKey(reg)].raw)
      BY <1>1, <2>1 DEF Session, StagedBacked
    <3>2. rows'[ProjectKey(reg)] = staged[w][ProjectKey(reg)]
      BY <1>2, <2>1
    <3> QED BY <1>5, <1>8, <3>1, <3>2 DEF BackedStays
  <2>2. CASE ProjectKey(reg) \notin DOMAIN staged[w]
    <3>1. /\ ProjectKey(reg) \in DOMAIN rows
          /\ rows'[ProjectKey(reg)] = rows[ProjectKey(reg)]
      BY <1>2, <2>2
    <3> QED BY <1>5, <3>1 DEF RInv, RowsBacked, BackedStays
  <2> QED BY <2>1, <2>2
<1>10. ClosedRuns'
  BY <1>2, <1>3 DEF RInv, ClosedRuns, Registered
<1>11. Session(w)'
  <2>1. Done(w)'
    <3>1. \A k \in 1..Len(page[w]) : page[w][k].reg # Null =>
            ProjectKey(page[w][k].reg) \in DOMAIN rows \cup DOMAIN staged[w]
      <4>1. Len(page[w]) \in Nat
        BY <1>6
      <4>2. Done(w) /\ InRun(w)
        BY <1>1, <1>3, <1>6 DEF Session, InRun
      <4>3. pos[w] > Len(page[w])
        BY <1>3, <1>6
      <4> QED BY <4>1, <4>2, <4>3, <1>6 DEF Done
    <3> QED BY <1>2, <1>3, <3>1 DEF Done, InRun
  <2> QED BY <1>1, <1>2, <1>3, <1>6, <2>1
          DEF Session, RunOpen, PageKept, AtPos, Wanted, StagedBacked, InRun
<1> QED BY <1>4, <1>5, <1>9, <1>10, <1>11, FrameSessions DEF RInv

LEMMA CommitTagsKeeps == ASSUME RInv, NEW w \in Workers, CommitTags(w) PROVE RInv'
<1>1. Shape /\ Len(runs) \in Nat /\ Session(w) /\ pc[w] = "tag" /\ cur[w] = 0
  BY DEF RInv, Shape, CommitTags, Session, RunOpen
<1>2. /\ DOMAIN rows' = DOMAIN staged[w] \cup DOMAIN rows
      /\ \A k \in DOMAIN rows \ DOMAIN staged[w] : rows'[k] = rows[k]
  BY <1>1, PublishRows DEF CommitTags, Shape
<1>3. \A reg \in Regs : ProjectKey(reg) \notin DOMAIN staged[w]
  BY <1>1 DEF Session, StagedBacked, InRun
<1>4. Leave(w) /\ UNCHANGED <<runs, raw>>
  BY DEF CommitTags
<1>5. Shape'
  BY <1>1, <1>4, LeaveShape DEF Shape
<1>6. Session(w)' /\ Frame(w)
  BY <1>1, <1>2, <1>4, <1>5, LeaveSession DEF Frame
<1>7. BackedStays
  BY <1>1, <1>5, <1>6, FrameBacked
<1>8. RowsBacked'
  BY <1>2, <1>3, <1>7 DEF RInv, RowsBacked, BackedStays
<1>9. ClosedRuns'
  BY <1>2, <1>4 DEF RInv, ClosedRuns, Registered
<1> QED BY <1>5, <1>6, <1>7, <1>8, <1>9, FrameSessions DEF RInv

LEMMA CloseRunKeeps == ASSUME RInv, NEW w \in Workers, CloseRun(w) PROVE RInv'
<1>1. Shape /\ Len(runs) \in Nat /\ Session(w) /\ pc[w] = "close"
  BY DEF RInv, Shape, CloseRun
<1>2. /\ cur[w] # 0 /\ cur[w] \in 1..Len(runs)
      /\ page[w] \in Seq(Record)
      /\ cur[w] \in DOMAIN raw /\ raw[cur[w]] = page[w]
  BY <1>1 DEF Session, RunOpen, PageKept
<1>3. PICK status \in {"ok", "anomalous"} : Close(w, status, Len(page[w]))
  BY DEF CloseRun
<1>4. UNCHANGED <<rows, raw>>
  BY DEF CloseRun
<1>5. /\ runs' \in Seq(RunRow) /\ Len(runs') = Len(runs)
      /\ runs'[cur[w]].status = status
      /\ \A r \in 1..Len(runs) : r # cur[w] => runs'[r] = runs[r]
  <2>1. Len(page[w]) \in Nat /\ status \in Statuses
    BY <1>2 DEF Statuses, Terminal
  <2> QED BY <1>1, <1>2, <1>3, <2>1, FailedRun DEF Close
<1>6. Leave(w) /\ Shape'
  BY <1>1, <1>3, <1>5, LeaveShape DEF Close
<1>7. Session(w)' /\ Frame(w) /\ cur'[w] = 0
  BY <1>1, <1>4, <1>5, <1>6, LeaveSession DEF Frame
<1>8. BackedStays
  <2>1. runs'[cur[w]].status # "failed"
    BY <1>5
  <2> QED BY <1>4, <1>6, <1>7, <2>1, FrameBacked
<1>9. RowsBacked'
  BY <1>4, <1>8 DEF RInv, RowsBacked, BackedStays
<1>10. ClosedRuns'
  <2> SUFFICES ASSUME NEW r \in 1..Len(runs), runs'[r].status \in {"ok", "anomalous"}
               PROVE  /\ r \in DOMAIN raw
                      /\ \A reg \in Regs : Registered(r, reg) =>
                             ProjectKey(reg) \in DOMAIN rows
    BY <1>4, <1>5 DEF ClosedRuns, Registered
  <2>1. CASE r = cur[w]
    <3> SUFFICES ASSUME NEW reg \in Regs, NEW k \in DOMAIN page[w], page[w][k].reg = reg
                 PROVE  ProjectKey(reg) \in DOMAIN rows
      BY <1>2, <2>1 DEF Registered
    <3>1. reg # Null /\ k \in 1..Len(page[w])
      BY <1>2, RegistryAssumption
    <3> QED BY <1>1, <3>1 DEF Session, Done
  <2>2. CASE r # cur[w]
    BY <1>5, <2>2 DEF RInv, ClosedRuns
  <2> QED BY <2>1, <2>2
<1> QED BY <1>6, <1>7, <1>8, <1>9, <1>10, FrameSessions DEF RInv

-------------------------------------------------------------------------------
(***************************************************************************)
(* The ends without a commit.                                              *)
(***************************************************************************)
LEMMA CrashKeeps == ASSUME RInv, NEW w \in Workers, Crash(w) PROVE RInv'
<1>1. Shape /\ Len(runs) \in Nat /\ Session(w) /\ Leave(w)
      /\ UNCHANGED <<rows, runs, raw>>
  BY DEF RInv, Shape, Crash, tables
<1>2. CASE pc[w] # "close"
  BY <1>1, <1>2, LeaveKeeps DEF tables
<1>3. CASE pc[w] = "close"
  <2>1. cur[w] \in 1..Len(runs) /\ runs[cur[w]].status = "running"
    BY <1>1, <1>3 DEF Session, RunOpen
  <2>2. Shape'
    BY <1>1, LeaveShape DEF Shape
  <2>3. Session(w)' /\ Frame(w) /\ cur'[w] = 0
    BY <1>1, <2>2, LeaveSession DEF Frame
  <2>4. BackedStays
    BY <1>1, <2>1, <2>2, <2>3, FrameBacked
  <2>5. RowsBacked'
    BY <1>1, <2>4 DEF RInv, RowsBacked, BackedStays
  <2>6. ClosedRuns'
    BY <1>1 DEF RInv, ClosedRuns, Registered
  <2> QED BY <2>2, <2>3, <2>4, <2>5, <2>6, FrameSessions DEF RInv
<1> QED BY <1>2, <1>3

LEMMA RollbackKeeps ==
    ASSUME RInv, NEW w \in Workers, pc[w] \in {"record", "project", "flush", "tag"},
           Rollback(w)
    PROVE  RInv'
<1>1. Session(w) /\ UNCHANGED <<rows, raw>>
  BY DEF RInv, Rollback
<1>2. CASE cur[w] # 0
  <2>1. InRun(w)
    BY <1>1, <1>2 DEF Session, RunOpen, InRun
  <2>2. Len(page[w]) \in Nat
    BY <1>1, <2>1 DEF Session, PageKept
  <2>3. Close(w, "failed", Len(page[w]))
    BY <1>2 DEF Rollback, Job
  <2> QED BY <1>1, <1>2, <2>2, <2>3, CloseFailed
<1>3. CASE cur[w] = 0
  <2>1. Leave(w) /\ UNCHANGED tables
    BY <1>1, <1>3 DEF Rollback, Job, tables
  <2> QED BY <2>1, LeaveKeeps
<1> QED BY <1>2, <1>3

LEMMA EarlyFailKeeps ==
    ASSUME RInv, NEW w \in Workers, FetchFails(w) \/ ParseFails(w) PROVE RInv'
<1>1. /\ pc[w] \in {"fetch", "parse"} /\ Close(w, "failed", 0)
      /\ UNCHANGED <<rows, raw>>
  BY DEF FetchFails, ParseFails
<1>2. cur[w] # 0
  BY <1>1 DEF RInv, Session, RunOpen
<1> QED BY <1>1, <1>2, CloseFailed

LEMMA OtherKeeps == ASSUME RInv, UNCHANGED <<tables, session>> PROVE RInv'
<1>1. UNCHANGED <<rows, runs, raw, pc, cur, page, pos, view, want, staged>>
  BY DEF tables, session
<1>2. Shape' /\ Distinct' /\ ClosedRuns'
  BY <1>1 DEF RInv, Shape, Distinct, ClosedRuns, Registered
<1>3. \A rec : Backed(rec)' <=> Backed(rec)
  BY <1>1 DEF Backed, Published
<1>4. RowsBacked'
  BY <1>1, <1>3 DEF RInv, RowsBacked
<1>5. ASSUME NEW w \in Workers PROVE Session(w)'
  BY <1>1, <1>3 DEF RInv, Session, RunOpen, PageKept, AtPos, Wanted, StagedBacked,
                    Done, InRun, Rec
<1> QED BY <1>2, <1>4, <1>5 DEF RInv

-------------------------------------------------------------------------------
LEMMA RInvInit == Init => RInv
<1> SUFFICES ASSUME Init PROVE RInv
  OBVIOUS
<1>1. runs = <<>> /\ Len(runs) = 0 /\ DOMAIN rows = {}
  BY DEF Init, Nothing
<1>2. Shape /\ Distinct /\ RowsBacked /\ ClosedRuns
  BY <1>1 DEF Init, Shape, Distinct, RowsBacked, ClosedRuns
<1>3. ASSUME NEW w \in Workers PROVE Session(w)
  <2>1. DOMAIN staged[w] = {} /\ pc[w] = "idle" /\ cur[w] = 0 /\ pos[w] = 1
    BY DEF Init, Nothing
  <2> QED BY <2>1 DEF Session, RunOpen, PageKept, AtPos, Wanted, StagedBacked, Done, InRun
<1> QED BY <1>2, <1>3 DEF RInv

LEMMA RInvStep == RInv /\ [Next]_vars => RInv'
<1> SUFFICES ASSUME RInv, [Next]_vars PROVE RInv'
  OBVIOUS
<1>1. ASSUME NEW w \in Workers, Start(w) \/ List(w) PROVE RInv'
  BY <1>1, StartKeeps, ListKeeps
<1>2. ASSUME NEW w \in Workers, Archive(w) \/ Parse(w) \/ Skip(w) \/ FindTag(w) PROVE RInv'
  BY <1>2, ArchiveKeeps, ParseKeeps, SkipKeeps, FindTagKeeps
<1>3. ASSUME NEW w \in Workers, FindBuilder(w) \/ FindProject(w) \/ Flush(w) PROVE RInv'
  BY <1>3, FindBuilderKeeps, FindProjectKeeps, FlushKeeps
<1>4. ASSUME NEW w \in Workers, CommitPage(w) \/ CloseRun(w) \/ CommitTags(w) PROVE RInv'
  BY <1>4, CommitPageKeeps, CloseRunKeeps, CommitTagsKeeps
<1>5. ASSUME NEW w \in Workers, FetchFails(w) \/ ParseFails(w) PROVE RInv'
  BY <1>5, EarlyFailKeeps
<1>6. ASSUME NEW w \in Workers, Collide(w) \/ DeadlockVictim(w) \/ Fail(w) PROVE RInv'
  <2>1. pc[w] \in {"record", "project", "flush", "tag"} /\ Rollback(w)
    BY <1>6 DEF Collide, DeadlockVictim, Fail, Deadlocked, WaitsFor
  <2> QED BY <2>1, RollbackKeeps
<1>7. ASSUME NEW w \in Workers, Crash(w) PROVE RInv'
  BY <1>7, CrashKeeps
<1>8. ASSUME NEW l \in Listings, Change(l) PROVE RInv'
  BY <1>8, OtherKeeps DEF Change
<1>9. CASE UNCHANGED vars
  BY <1>9, OtherKeeps DEF vars
<1> QED BY <1>1, <1>2, <1>3, <1>4, <1>5, <1>6, <1>7, <1>8, <1>9 DEF Next, Advance

LEMMA RInvAccounts == RInv => RunsAccountForRegistry
<1> SUFFICES ASSUME RInv PROVE RunsAccountForRegistry
  OBVIOUS
<1>1. ASSUME NEW reg \in Projects
      PROVE  \E r \in DOMAIN raw : /\ runs[r].status # "failed"
                                   /\ raw[r] # Malformed
                                   /\ RowFor(reg).raw \in Range(raw[r])
  BY DEF RInv, Projects, RowsBacked, Backed, Published, ProjectKey, RowFor
<1>2. ASSUME NEW r \in 1..Len(runs), runs[r].status \in {"ok", "anomalous"}
      PROVE  /\ r \in DOMAIN raw
             /\ \A reg \in Regs : Registered(r, reg) => reg \in Projects
  BY <1>2 DEF RInv, ClosedRuns, Projects, ProjectKey
<1> QED BY <1>1, <1>2 DEF RunsAccountForRegistry

(***************************************************************************)
(* The archive explains the registry: no project is there whose record is  *)
(* not on the page of a run that was published, and no run is called ok    *)
(* or anomalous some of whose registered records are missing, whatever the *)
(* sessions of the collector and of the tagger do, and wherever they fail  *)
(* or die.                                                                 *)
(***************************************************************************)
THEOREM RegistryAccounted == Spec => []RunsAccountForRegistry
<1>1. Init => RInv
  BY RInvInit
<1>2. RInv /\ [Next]_vars => RInv'
  BY RInvStep
<1>3. RInv => RunsAccountForRegistry
  BY RInvAccounts
<1> QED BY <1>1, <1>2, <1>3, PTL DEF Spec

-------------------------------------------------------------------------------
(***************************************************************************)
(* The tag passes.                                                         *)
(*                                                                         *)
(* What a step of session w leaves to the others, and what it may be.      *)
(***************************************************************************)
Works(w) == Start(w) \/ List(w) \/ Advance(w) \/ FetchFails(w) \/ Fail(w) \/ Crash(w)
Goes(w)  == Archive(w) \/ Parse(w) \/ Skip(w) \/ FindBuilder(w) \/ FindProject(w)
GivesUp(w) == Leave(w) /\ UNCHANGED <<rows, raw, listings, stored, overlapped>>

LEMMA StepCases ==
    ASSUME NEW w \in Workers, Works(w)
    PROVE  \/ Start(w) \/ List(w) \/ Goes(w) \/ CommitPage(w) \/ FindTag(w) \/ Flush(w)
           \/ CommitTags(w) \/ GivesUp(w)
<1>1. Rollback(w) => GivesUp(w)
  BY DEF Rollback, Close, GivesUp
<1>2. FetchFails(w) \/ ParseFails(w) \/ CloseRun(w) => GivesUp(w)
  BY DEF FetchFails, ParseFails, CloseRun, Close, GivesUp, history
<1>3. Crash(w) => GivesUp(w)
  BY DEF Crash, GivesUp, tables
<1> QED BY <1>1, <1>2, <1>3 DEF Works, Advance, Goes, Collide, DeadlockVictim, Fail

TShape ==
    /\ DOMAIN snap = Workers /\ DOMAIN todo = Workers /\ DOMAIN cache = Workers
    /\ listings \in [Listings -> Facts]

Apart(w) ==
    \A v \in Workers \ {w} :
        /\ pc'[v] = pc[v] /\ cur'[v] = cur[v] /\ page'[v] = page[v] /\ pos'[v] = pos[v]
        /\ snap'[v] = snap[v] /\ todo'[v] = todo[v] /\ cache'[v] = cache[v]
        /\ view'[v] = view[v] /\ want'[v] = want[v] /\ staged'[v] = staged[v]

LEMMA LeaveApart ==
    ASSUME Shape, TShape, NEW w \in Workers, Leave(w)
    PROVE  /\ Apart(w)
           /\ DOMAIN snap' = Workers /\ DOMAIN todo' = Workers /\ DOMAIN cache' = Workers
           /\ pc'[w] = "idle" /\ cur'[w] = 0 /\ DOMAIN staged'[w] = {} /\ pos'[w] = 1
           /\ DOMAIN cache'[w] = {}
<1>1. /\ pc'[w] = "idle" /\ cur'[w] = 0 /\ staged'[w] = Nothing /\ pos'[w] = 1
      /\ cache'[w] = Nothing
  BY DEF Leave, Go, Shape, TShape
<1>2. DOMAIN staged'[w] = {} /\ DOMAIN cache'[w] = {}
  BY <1>1 DEF Nothing
<1> QED BY <1>1, <1>2 DEF Leave, Go, Shape, TShape, Apart

LEMMA StepApart ==
    ASSUME RInv, TShape, NEW w \in Workers, Works(w)
    PROVE  /\ Apart(w)
           /\ TShape'
           /\ DOMAIN rows \subseteq DOMAIN rows'
           /\ listings' = listings
<1>1. Shape
  BY DEF RInv
<1>2. CASE Start(w)
  BY <1>1, <1>2 DEF Start, Go, Shape, TShape, Apart
<1>3. CASE List(w)
  BY <1>1, <1>3 DEF List, Go, Shape, TShape, Apart, tables
<1>4. CASE Goes(w)
  BY <1>1, <1>4 DEF Goes, Archive, Parse, Skip, FindBuilder, FindProject, Seek, Go, Shape,
                    TShape, Apart, tables
<1>5. CASE CommitPage(w)
  <2>1. DOMAIN rows \subseteq DOMAIN rows' /\ Apart(w)
    BY <1>1, <1>5, PublishRows DEF CommitPage, Go, Shape, Apart
  <2> QED BY <1>1, <1>5, <2>1 DEF CommitPage, TShape
<1>6. CASE FindTag(w)
  BY <1>1, <1>6 DEF FindTag, Seek, Go, Shape, TShape, Apart, tables
<1>7. CASE Flush(w)
  BY <1>1, <1>7 DEF Flush, Go, Shape, TShape, Apart, tables
<1>8. CASE CommitTags(w)
  <2>1. DOMAIN rows \subseteq DOMAIN rows'
    BY <1>1, <1>8, PublishRows DEF CommitTags, Shape
  <2> QED BY <1>1, <1>8, <2>1, LeaveApart DEF CommitTags, TShape
<1>9. CASE GivesUp(w)
  BY <1>1, <1>9, LeaveApart DEF GivesUp, TShape
<1> QED BY <1>2, <1>3, <1>4, <1>5, <1>6, <1>7, <1>8, <1>9, StepCases

-------------------------------------------------------------------------------
(***************************************************************************)
(* What a session has flushed is of its own kind.  A pass has yet to tag   *)
(* the listings in todo, the first of them from its item on, and has       *)
(* flushed every other tag of its listings.                                *)
(***************************************************************************)
TagKey(l, item) == <<"tag", <<l, item>>>>
AtTags(w) == pc[w] \in {"tag", "flush"} /\ cur[w] = 0

OwnKind(w) ==
    /\ pc[w] \in {"idle", "fetch", "parse", "close"} => DOMAIN staged[w] = {}
    /\ cur[w] # 0 => \A key \in DOMAIN staged[w] : key[1] \in {"builder", "project"}
    /\ AtTags(w) => \A key \in DOMAIN staged[w] :
         \E l \in DOMAIN snap[w] : \E i \in DOMAIN AllItems : key = TagKey(l, AllItems[i])

Ahead(w, l, i) ==
    \E k \in 1..Len(todo[w]) : todo[w][k] = l /\ (k = 1 => pos[w] <= i)

Pass(w) ==
    AtTags(w) =>
        /\ todo[w] \in Seq(DOMAIN snap[w])
        /\ pos[w] \in DOMAIN AllItems
        /\ \A l \in DOMAIN snap[w] : \A i \in DOMAIN AllItems :
             TagKey(l, AllItems[i]) \in DOMAIN staged[w] \/ Ahead(w, l, i)
        /\ pc[w] = "flush" => /\ todo[w] # <<>>
                              /\ want[w].key = TagKey(Head(todo[w]), AllItems[pos[w]])

Whole ==
    \A l \in Listings : \A i, j \in DOMAIN AllItems :
        TagKey(l, AllItems[i]) \in DOMAIN rows => TagKey(l, AllItems[j]) \in DOMAIN rows

TInv == TShape /\ Whole /\ \A w \in Workers : OwnKind(w) /\ Pass(w)

LEMMA ItemsLen ==
    /\ AllItems \in Seq({"rera_registered"} \cup DOMAIN Rules)
    /\ Len(AllItems) \in Nat \ {0}
    /\ DOMAIN AllItems = 1..Len(AllItems)
    /\ AllItems[1] = "rera_registered"
<1>1. Items \in Seq(DOMAIN Rules)
  BY RegistryAssumption
<1> QED BY <1>1 DEF AllItems

(***************************************************************************)
(* The passes of the others are not disturbed.                             *)
(***************************************************************************)
LEMMA OthersPass ==
    ASSUME TInv, NEW w \in Workers, Apart(w), NEW v \in Workers, v # w
    PROVE  OwnKind(v)' /\ Pass(v)'
<1>1. OwnKind(v) /\ Pass(v)
  BY DEF TInv
<1>2. /\ pc'[v] = pc[v] /\ cur'[v] = cur[v] /\ pos'[v] = pos[v]
      /\ snap'[v] = snap[v] /\ todo'[v] = todo[v] /\ want'[v] = want[v]
      /\ staged'[v] = staged[v]
  BY DEF Apart
<1> QED BY <1>1, <1>2 DEF OwnKind, Pass, AtTags, Ahead

(***************************************************************************)
(* The order of a pass takes every listing of the window.                  *)
(***************************************************************************)
LEMMA OrderIsWhole ==
    ASSUME NEW S, IsFiniteSet(S), NEW order \in SetToSeqs(S)
    PROVE  order \in Seq(S) /\ \A x \in S : \E k \in 1..Len(order) : order[k] = x
<1> DEFINE n == Cardinality(S)
<1>1. n \in Nat
  BY FS_CardinalityType
<1>2. order \in [1..n -> S] /\ \A i, j \in 1..n : i # j => order[i] # order[j]
  BY DEF SetToSeqs
<1>3. order \in Injection(1..n, S)
  BY <1>2 DEF Injection, IsInjective
<1>4. Cardinality(1..n) = n
  BY <1>1, FS_Interval
<1>5. order \in Surjection(1..n, S)
  BY <1>3, <1>4, FS_Injection
<1>6. \A x \in S : \E k \in 1..n : order[k] = x
  BY <1>5 DEF Surjection
<1> HIDE DEF n
<1>7. order \in Seq(S) /\ Len(order) = n
  BY <1>1, <1>2
<1> QED BY <1>6, <1>7

LEMMA ListPasses ==
    ASSUME RInv, TInv, NEW w \in Workers, List(w)
    PROVE  OwnKind(w)' /\ Pass(w)'
<1>1. /\ Shape /\ TShape /\ cur[w] = 0 /\ DOMAIN staged[w] = {} /\ pos[w] = 1
  BY DEF RInv, TInv, OwnKind, List, Session, RunOpen
<1>2. PICK order \in SetToSeqs(Recent) : todo' = [todo EXCEPT ![w] = order]
  BY DEF List
<1>3. /\ todo'[w] = order /\ DOMAIN snap'[w] = Recent /\ pc'[w] = "tag"
      /\ UNCHANGED <<cur, staged, pos>>
  BY <1>1, <1>2 DEF List, Go, Shape, TShape
<1>4. IsFiniteSet(Recent)
  BY RegistryAssumption, FS_Subset DEF Recent
<1>5. order \in Seq(Recent) /\ \A x \in Recent : \E k \in 1..Len(order) : order[k] = x
  BY <1>4, OrderIsWhole
<1>6. ASSUME NEW l \in Recent, NEW i \in DOMAIN AllItems
      PROVE  Ahead(w, l, i)'
  BY <1>1, <1>3, <1>5, ItemsLen DEF Ahead
<1> QED BY <1>1, <1>3, <1>5, <1>6, ItemsLen DEF OwnKind, Pass, AtTags

LEMMA FindTagPasses ==
    ASSUME RInv, TInv, NEW w \in Workers, FindTag(w)
    PROVE  OwnKind(w)' /\ Pass(w)'
<1>1. /\ Shape /\ TShape /\ cur[w] = 0 /\ pc[w] = "tag" /\ todo[w] # <<>>
      /\ OwnKind(w) /\ Pass(w)
  BY DEF RInv, TInv, FindTag, Session, RunOpen
<1>2. /\ pc'[w] = "flush" /\ want'[w].key = TagKey(Head(todo[w]), AllItems[pos[w]])
      /\ UNCHANGED <<cur, staged, pos, snap, todo>>
  BY <1>1 DEF FindTag, Seek, Go, Shape, TShape, TagKey
<1> QED BY <1>1, <1>2 DEF OwnKind, Pass, AtTags, Ahead

(***************************************************************************)
(* What a flush stages, and where it goes.                                 *)
(***************************************************************************)
Flushed(w) == IF view[w] = Null THEN want[w].row
              ELSE WriteColumns(Mine(w, want[w].key), view[w], want[w].row)

LEMMA FlushEffect ==
    ASSUME RInv, TShape, NEW w \in Workers, Flush(w)
    PROVE  /\ pc[w] = "flush"
           /\ DOMAIN staged'[w] = {want[w].key} \cup DOMAIN staged[w]
           /\ staged'[w][want[w].key] = Flushed(w)
           /\ \A k \in DOMAIN staged[w] : k # want[w].key => staged'[w][k] = staged[w][k]
           /\ UNCHANGED <<tables, listings, cur, page, snap, cache, history>>
           /\ want[w].key[1] = "builder" =>
                pc'[w] = "project" /\ pos'[w] = pos[w] /\ todo'[w] = todo[w]
           /\ want[w].key[1] = "project" =>
                pc'[w] = "record" /\ pos'[w] = pos[w] + 1 /\ todo'[w] = todo[w]
           /\ want[w].key[1] = "tag" =>
                /\ pc'[w] = "tag"
                /\ IF pos[w] = Len(AllItems)
                   THEN pos'[w] = 1 /\ todo'[w] = Tail(todo[w])
                   ELSE pos'[w] = pos[w] + 1 /\ todo'[w] = todo[w]
<1> DEFINE key == want[w].key
           row == Flushed(w)
<1>1. Shape
  BY DEF RInv
<1>2. staged'[w] = Override([k \in {key} |-> row], staged[w])
  BY <1>1 DEF Flush, Shape, Flushed
<1> HIDE DEF key, row
<1>3. DOMAIN staged'[w] = {key} \cup DOMAIN staged[w]
  BY <1>2 DEF Override
<1>4. \A k \in {key} \cup DOMAIN staged[w] :
        staged'[w][k] = IF k = key THEN row ELSE staged[w][k]
  BY <1>2 DEF Override
<1>5. /\ staged'[w][key] = row
      /\ \A k \in DOMAIN staged[w] : k # key => staged'[w][k] = staged[w][k]
  BY <1>4
<1>6. pc[w] = "flush" /\ UNCHANGED <<tables, listings, cur, page, snap, cache, history>>
  BY DEF Flush
<1>7. /\ key[1] = "builder" =>
            pc'[w] = "project" /\ pos'[w] = pos[w] /\ todo'[w] = todo[w]
      /\ key[1] = "project" =>
            pc'[w] = "record" /\ pos'[w] = pos[w] + 1 /\ todo'[w] = todo[w]
  BY <1>1 DEF Flush, Go, Shape, TShape, key
<1>8. key[1] = "tag" =>
        /\ pc'[w] = "tag"
        /\ IF pos[w] = Len(AllItems)
           THEN pos'[w] = 1 /\ todo'[w] = Tail(todo[w])
           ELSE pos'[w] = pos[w] + 1 /\ todo'[w] = todo[w]
  BY <1>1 DEF Flush, Go, Shape, TShape, key
<1> QED BY <1>3, <1>5, <1>6, <1>7, <1>8 DEF key, row

LEMMA FlushPasses ==
    ASSUME RInv, TInv, NEW w \in Workers, Flush(w)
    PROVE  OwnKind(w)' /\ Pass(w)'
<1> DEFINE key == want[w].key
<1>1. Shape /\ TShape /\ OwnKind(w) /\ Pass(w) /\ Wanted(w)
  BY DEF RInv, TInv, Session
<1>2. /\ pc[w] = "flush" /\ UNCHANGED <<cur, snap>>
      /\ DOMAIN staged'[w] = {key} \cup DOMAIN staged[w]
  BY <1>1, FlushEffect
<1>3. CASE cur[w] # 0
  <2>1. key[1] \in {"builder", "project"}
    BY <1>1, <1>2, <1>3, KeysDiffer DEF Wanted
  <2>2. pc'[w] \in {"project", "record"}
    BY <1>1, <2>1, FlushEffect
  <2> HIDE DEF key
  <2> QED BY <1>1, <1>2, <1>3, <2>1, <2>2 DEF OwnKind, Pass, AtTags
<1>4. CASE cur[w] = 0
  <2> DEFINE l == Head(todo[w])
  <2>1. /\ todo[w] \in Seq(DOMAIN snap[w]) /\ todo[w] # <<>>
        /\ pos[w] \in 1..Len(AllItems)
        /\ key = TagKey(l, AllItems[pos[w]])
    BY <1>1, <1>2, <1>4, ItemsLen DEF Pass, AtTags
  <2>2. l \in DOMAIN snap[w] /\ Len(todo[w]) \in Nat \ {0} /\ todo[w][1] = l
    BY <2>1
  <2>3. /\ pc'[w] = "tag"
        /\ IF pos[w] = Len(AllItems)
           THEN pos'[w] = 1 /\ todo'[w] = Tail(todo[w])
           ELSE pos'[w] = pos[w] + 1 /\ todo'[w] = todo[w]
    <3>1. key[1] = "tag"
      BY <2>1 DEF TagKey
    <3> QED BY <1>1, <3>1, FlushEffect
  <2>4. OwnKind(w)'
    BY <1>1, <1>2, <1>4, <2>1, <2>2, <2>3, ItemsLen DEF OwnKind, AtTags
  <2>5. todo'[w] \in Seq(DOMAIN snap'[w]) /\ pos'[w] \in DOMAIN AllItems
    <3> DEFINE D == DOMAIN snap[w]
    <3>1. D = DOMAIN snap'[w] /\ todo[w] \in Seq(D)
      BY <1>2, <2>1
    <3>2. Tail(todo[w]) \in Seq(D)
      <4> DEFINE s == todo[w]
      <4>1. s \in Seq(D) /\ s # <<>>
        BY <2>1, <3>1
      <4> HIDE DEF s, D
      <4>2. Tail(s) \in Seq(D)
        BY <4>1
      <4> QED BY <4>2 DEF s
    <3> HIDE DEF D, l, key
    <3>3. Len(AllItems) \in Nat \ {0} /\ DOMAIN AllItems = 1..Len(AllItems)
      BY ItemsLen
    <3>4. pos'[w] \in DOMAIN AllItems
      BY <2>1, <2>3, <3>3
    <3> QED BY <2>3, <3>1, <3>2, <3>4
  <2> HIDE DEF key, l
  <2>6. ASSUME NEW m \in DOMAIN snap[w], NEW i \in DOMAIN AllItems,
               TagKey(m, AllItems[i]) \notin DOMAIN staged'[w]
        PROVE  Ahead(w, m, i)'
    <3>1. Ahead(w, m, i) /\ ~(m = l /\ i = pos[w])
      BY <1>1, <1>2, <1>4, <2>1, <2>6 DEF Pass, AtTags
    <3>2. PICK k \in 1..Len(todo[w]) : todo[w][k] = m /\ (k = 1 => pos[w] <= i)
      BY <3>1 DEF Ahead
    <3>3. i \in 1..Len(AllItems) /\ Len(AllItems) \in Nat
      BY ItemsLen
    <3>4. CASE pos[w] = Len(AllItems)
      <4>1. k # 1
        BY <2>1, <2>2, <3>1, <3>2, <3>3, <3>4
      <4>2. k - 1 \in 1..Len(Tail(todo[w])) /\ Tail(todo[w])[k - 1] = m
        BY <2>1, <3>2, <4>1
      <4>3. 1 <= i
        BY <3>3
      <4> QED BY <2>3, <3>4, <4>2, <4>3 DEF Ahead
    <3>5. CASE pos[w] # Len(AllItems)
      <4>1. k = 1 => pos[w] + 1 <= i
        BY <2>1, <2>2, <3>1, <3>2, <3>3
      <4> QED BY <2>3, <3>2, <3>5, <4>1 DEF Ahead
    <3> QED BY <3>4, <3>5
  <2> QED BY <1>2, <2>3, <2>4, <2>5, <2>6 DEF Pass
<1> QED BY <1>3, <1>4

(***************************************************************************)
(* Every other step of a session keeps what it has flushed of its kind.    *)
(***************************************************************************)
LEMMA OwnPasses ==
    ASSUME RInv, TInv, NEW w \in Workers, Works(w)
    PROVE  OwnKind(w)' /\ Pass(w)'
<1>1. Shape /\ TShape /\ OwnKind(w) /\ Pass(w) /\ RunOpen(w)
  BY DEF RInv, TInv, Session
<1>2. CASE Start(w)
  <2>1. pc'[w] = "fetch" /\ cur'[w] = Len(runs) + 1 /\ staged' = staged /\ Len(runs) \in Nat
    BY <1>1, <1>2 DEF Start, Go, Shape
  <2>2. DOMAIN staged[w] = {}
    BY <1>1, <1>2 DEF Start, OwnKind
  <2> QED BY <2>1, <2>2 DEF OwnKind, Pass, AtTags
<1>3. CASE Goes(w)
  <2>1. /\ cur'[w] = cur[w] /\ cur[w] # 0 /\ staged' = staged
        /\ pc[w] \in {"fetch", "parse", "record", "project"}
        /\ pc'[w] \in {"idle", "fetch", "parse", "close"} => pc[w] = "fetch"
    BY <1>1, <1>3 DEF Goes, Archive, Parse, Skip, AtRecord, FindBuilder, FindProject, Seek, Go,
                      Shape, RunOpen
  <2> QED BY <1>1, <2>1 DEF OwnKind, Pass, AtTags
<1>4. CASE CommitPage(w)
  <2>1. pc'[w] = "close" /\ DOMAIN staged'[w] = {}
    BY <1>1, <1>4, PublishRows DEF CommitPage, Go, Shape
  <2> QED BY <2>1 DEF OwnKind, Pass, AtTags
<1>5. CASE Leave(w)
  <2>1. pc'[w] = "idle" /\ DOMAIN staged'[w] = {}
    BY <1>1, <1>5, LeaveApart
  <2> QED BY <2>1 DEF OwnKind, Pass, AtTags
<1> QED BY <1>2, <1>3, <1>4, <1>5, ListPasses, FindTagPasses, FlushPasses, StepCases
        DEF CommitTags, GivesUp

(***************************************************************************)
(* A commit stores all tags of its listings, or none at all.               *)
(***************************************************************************)
LEMMA CommitWhole ==
    ASSUME RInv, TInv, NEW w \in Workers, Works(w)
    PROVE  Whole'
<1>1. Shape /\ TShape /\ OwnKind(w) /\ Pass(w) /\ RunOpen(w) /\ Whole
  BY DEF RInv, TInv, Session
<1>2. CASE CommitTags(w)
  <2>1. DOMAIN rows' = DOMAIN staged[w] \cup DOMAIN rows
    BY <1>1, <1>2, PublishRows DEF CommitTags, Shape
  <2>2. AtTags(w) /\ todo[w] = <<>>
    BY <1>1, <1>2 DEF CommitTags, AtTags, RunOpen
  <2>3. \A l, i : ~Ahead(w, l, i)
    BY <2>2 DEF Ahead
  <2> SUFFICES ASSUME NEW l \in Listings,
                      NEW i \in DOMAIN AllItems, NEW j \in DOMAIN AllItems,
                      TagKey(l, AllItems[i]) \in DOMAIN rows'
               PROVE  TagKey(l, AllItems[j]) \in DOMAIN rows'
    BY DEF Whole
  <2>4. CASE TagKey(l, AllItems[i]) \in DOMAIN staged[w]
    <3>1. l \in DOMAIN snap[w]
      BY <1>1, <2>2, <2>4 DEF OwnKind, TagKey
    <3> QED BY <1>1, <2>1, <2>2, <2>3, <3>1 DEF Pass
  <2>5. CASE TagKey(l, AllItems[i]) \in DOMAIN rows
    BY <1>1, <2>1, <2>5 DEF Whole
  <2> QED BY <2>1, <2>4, <2>5
<1>3. CASE CommitPage(w)
  <2>1. DOMAIN rows' = DOMAIN staged[w] \cup DOMAIN rows
    BY <1>1, <1>3, PublishRows DEF CommitPage, Shape
  <2>2. \A l, x : TagKey(l, x) \notin DOMAIN staged[w]
    BY <1>1, <1>3 DEF CommitPage, RunOpen, OwnKind, TagKey
  <2> QED BY <1>1, <2>1, <2>2 DEF Whole
<1>4. CASE ~CommitTags(w) /\ ~CommitPage(w)
  <2>1. rows' = rows
    BY <1>4, StepCases DEF Start, List, Goes, Archive, Parse, Skip, FindBuilder, FindProject,
                           FindTag, Flush, GivesUp, tables
  <2> QED BY <1>1, <2>1 DEF Whole
<1> QED BY <1>2, <1>3, <1>4

LEMMA TInvStep == RInv /\ TInv /\ [Next]_vars => TInv'
<1> SUFFICES ASSUME RInv, TInv, [Next]_vars PROVE TInv'
  OBVIOUS
<1>1. ASSUME NEW w \in Workers, Works(w) PROVE TInv'
  <2>1. TShape' /\ Apart(w) /\ Whole'
    BY <1>1, StepApart, CommitWhole DEF TInv
  <2>2. ASSUME NEW v \in Workers PROVE OwnKind(v)' /\ Pass(v)'
    <3>1. CASE v = w
      BY <1>1, <3>1, OwnPasses
    <3>2. CASE v # w
      BY <2>1, <3>2, OthersPass
    <3> QED BY <3>1, <3>2
  <2> QED BY <2>1, <2>2 DEF TInv
<1>2. ASSUME NEW l \in Listings, Change(l) PROVE TInv'
  <2>1. UNCHANGED <<tables, session>> /\ TShape'
    BY <1>2 DEF Change, session, TInv, TShape
  <2> QED BY <2>1 DEF TInv, Whole, OwnKind, Pass, AtTags, Ahead, tables, session
<1>3. CASE UNCHANGED vars
  BY <1>3 DEF vars, tables, session, TInv, TShape, Whole, OwnKind, Pass, AtTags, Ahead
<1> QED BY <1>1, <1>2, <1>3 DEF Next, Works

LEMMA RInvHolds == Spec => []RInv
BY RInvInit, RInvStep, PTL DEF Spec

LEMMA TInvHolds == Spec => []TInv
<1>1. Init => TInv
  <2> SUFFICES ASSUME Init PROVE TInv
    OBVIOUS
  <2>1. DOMAIN rows = {} /\ \A w \in Workers : DOMAIN staged[w] = {}
    BY DEF Init, Nothing
  <2> QED BY <2>1 DEF Init, TInv, TShape, Whole, OwnKind, Pass, AtTags
<1> QED BY <1>1, TInvStep, RInvHolds, PTL DEF Spec

(***************************************************************************)
(* "Every listing gets tagged on four items": the tags of a listing appear *)
(* together, however passes overlap and wherever they fail.                *)
(***************************************************************************)
THEOREM TagsStayComplete == Spec => []TagsComplete
<1>1. TInv => TagsComplete
  <2> SUFFICES ASSUME TInv, NEW l \in Listings, NEW i \in Tagged(l)
               PROVE  Tagged(l) = Range(AllItems)
    BY DEF TagsComplete
  <2>1. Range(AllItems) = {AllItems[j] : j \in DOMAIN AllItems}
    BY DEF Range
  <2> QED BY <2>1 DEF TInv, Whole, Tagged, TagKey
<1> QED BY <1>1, TInvHolds, PTL

-------------------------------------------------------------------------------
(***************************************************************************)
(* What the registry refers to.                                            *)
(*                                                                         *)
(* The builder of a project is there before the project is: as a committed *)
(* row, or as one its own session has flushed.  What a pass remembers of   *)
(* the registry is in it.                                                  *)
(***************************************************************************)
BuilderKey(b) == <<"builder", b>>
Seen(w) == DOMAIN staged[w] \cup DOMAIN rows

Known(b, keys) == b = Null \/ (b \in Promoters /\ BuilderKey(b) \in keys)
Refers(row, keys) == row \in ProjectRow /\ Known(row.builder, keys)

RowsRefer == \A reg \in Regs : ProjectKey(reg) \in DOMAIN rows =>
                 Refers(rows[ProjectKey(reg)], DOMAIN rows)

StagedRefers(w) == \A reg \in Regs : ProjectKey(reg) \in DOMAIN staged[w] =>
                       Refers(staged[w][ProjectKey(reg)], Seen(w))

WantRefers(w) ==
    /\ pc[w] = "project" => Known(Rec(w).promoter, Seen(w))
    /\ pc[w] = "flush" /\ cur[w] # 0 =>
         \/ /\ Rec(w).promoter \in Promoters
            /\ want[w].key = BuilderKey(Rec(w).promoter)
         \/ /\ want[w].key[1] = "project"
            /\ Refers(want[w].row, Seen(w))

CacheRefers(w) ==
    \A reg \in DOMAIN cache[w] : cache[w][reg] # Null =>
        ProjectKey(reg) \in DOMAIN rows /\ Refers(cache[w][reg], DOMAIN rows)

SnapFacts(w) == \A l \in DOMAIN snap[w] : snap[w][l] \in Facts

Refer(w) == StagedRefers(w) /\ WantRefers(w) /\ CacheRefers(w) /\ SnapFacts(w)
RefInv == RowsRefer /\ \A w \in Workers : Refer(w)

LEMMA RefersOn ==
    ASSUME NEW row, NEW K, NEW M, Refers(row, K), K \subseteq M
    PROVE  Refers(row, M)
BY DEF Refers, Known

(***************************************************************************)
(* The row a session finds for a project refers to a builder it sees.      *)
(***************************************************************************)
LEMMA MineRefers ==
    ASSUME RefInv, NEW w \in Workers, NEW reg \in Regs, Mine(w, ProjectKey(reg)) # Null
    PROVE  Refers(Mine(w, ProjectKey(reg)), Seen(w))
<1> DEFINE key == ProjectKey(reg)
<1>1. /\ key \in DOMAIN staged[w] \cup DOMAIN rows
      /\ Mine(w, key) = IF key \in DOMAIN staged[w] THEN staged[w][key] ELSE rows[key]
  BY DEF Mine, Fetched, Override
<1>2. CASE key \in DOMAIN staged[w]
  BY <1>1, <1>2 DEF RefInv, Refer, StagedRefers
<1>3. CASE key \notin DOMAIN staged[w]
  <2>1. Refers(rows[key], DOMAIN rows)
    BY <1>1, <1>3 DEF RefInv, RowsRefer
  <2> QED BY <1>1, <1>3, <2>1, RefersOn DEF Seen
<1> QED BY <1>2, <1>3

LEMMA OthersRefer ==
    ASSUME RefInv, NEW w \in Workers, Apart(w), DOMAIN rows \subseteq DOMAIN rows',
           NEW v \in Workers, v # w
    PROVE  Refer(v)'
<1>1. Refer(v) /\ Seen(v) \subseteq Seen(v)'
  BY DEF RefInv, Apart, Seen
<1>2. /\ pc'[v] = pc[v] /\ cur'[v] = cur[v] /\ pos'[v] = pos[v] /\ page'[v] = page[v]
      /\ snap'[v] = snap[v] /\ cache'[v] = cache[v] /\ want'[v] = want[v]
      /\ staged'[v] = staged[v]
  BY DEF Apart
<1>3. StagedRefers(v)'
  BY <1>1, <1>2, RefersOn DEF Refer, StagedRefers
<1>4. WantRefers(v)'
  <2>1. pc[v] = "flush" /\ cur[v] # 0 /\ Refers(want[v].row, Seen(v)) =>
          Refers(want[v].row, Seen(v)')
    BY <1>1, RefersOn
  <2> QED BY <1>1, <1>2, <2>1 DEF Refer, WantRefers, Known, Rec
<1>5. CacheRefers(v)'
  BY <1>1, <1>2, RefersOn DEF Refer, CacheRefers
<1> QED BY <1>1, <1>2, <1>3, <1>4, <1>5 DEF Refer, SnapFacts

(***************************************************************************)
(* A commit publishes projects together with their builders.               *)
(***************************************************************************)
LEMMA CommitRefers ==
    ASSUME RInv, RefInv, NEW w \in Workers, Works(w)
    PROVE  RowsRefer'
<1>1. CASE CommitPage(w) \/ CommitTags(w)
  <2>1. /\ DOMAIN rows' = DOMAIN staged[w] \cup DOMAIN rows
        /\ \A k \in DOMAIN staged[w] : rows'[k] = staged[w][k]
        /\ \A k \in DOMAIN rows \ DOMAIN staged[w] : rows'[k] = rows[k]
    BY <1>1, PublishRows DEF CommitPage, CommitTags, RInv, Shape
  <2>2. Seen(w) = DOMAIN rows' /\ DOMAIN rows \subseteq DOMAIN rows'
    BY <2>1 DEF Seen
  <2>3. ASSUME NEW reg \in Regs, ProjectKey(reg) \in DOMAIN rows'
        PROVE  Refers(rows'[ProjectKey(reg)], DOMAIN rows')
    <3>1. CASE ProjectKey(reg) \in DOMAIN staged[w]
      BY <2>1, <2>2, <3>1 DEF RefInv, Refer, StagedRefers
    <3>2. CASE ProjectKey(reg) \notin DOMAIN staged[w]
      <4>1. Refers(rows[ProjectKey(reg)], DOMAIN rows)
        BY <2>1, <2>3, <3>2 DEF RefInv, RowsRefer
      <4> QED BY <2>1, <2>2, <2>3, <3>2, <4>1, RefersOn
    <3> QED BY <3>1, <3>2
  <2> QED BY <2>3 DEF RowsRefer
<1>2. CASE ~CommitPage(w) /\ ~CommitTags(w)
  <2>1. rows' = rows
    BY <1>2, StepCases DEF Start, List, Goes, Archive, Parse, Skip, FindBuilder, FindProject,
                           FindTag, Flush, GivesUp, tables
  <2> QED BY <2>1 DEF RefInv, RowsRefer
<1> QED BY <1>1, <1>2

(***************************************************************************)
(* The session's own steps: it looks a builder up, or flushes it, before   *)
(* it looks up the project.                                                *)
(***************************************************************************)
LEMMA FindBuilderRefers ==
    ASSUME RInv, TShape, RefInv, NEW w \in Workers, FindBuilder(w)
    PROVE  Refer(w)'
<1> DEFINE b == Rec(w).promoter
           key == BuilderKey(b)
<1>1. Shape /\ Session(w) /\ Refer(w)
  BY DEF RInv, RefInv
<1>2. /\ UNCHANGED <<rows, cur, page, pos, snap, cache, staged>>
      /\ pc[w] = "record" /\ cur[w] # 0
  BY <1>1 DEF FindBuilder, AtRecord, tables, Session, RunOpen
<1>3. b \in Promoters \cup {Null}
  <2>1. page[w] \in Seq(Record) /\ pos[w] \in 1..Len(page[w])
    BY <1>1, <1>2 DEF FindBuilder, AtRecord, Session, PageKept, AtPos, InRun
  <2>2. Rec(w) \in Record
    BY <2>1 DEF Rec
  <2> QED BY <2>2 DEF Record
<1>4. \/ pc'[w] = "project" /\ (b = Null \/ Mine(w, key) # Null)
      \/ pc'[w] = "flush" /\ b # Null /\ want'[w].key = key
  BY <1>1 DEF FindBuilder, Seek, Go, Shape, BuilderKey
<1>5. Mine(w, key) # Null => key \in Seen(w)
  <2> HIDE DEF key, b
  <2> QED BY DEF Mine, Fetched, Override, Seen
<1>6. pc'[w] = "project" => Known(b, Seen(w))
  BY <1>3, <1>4, <1>5 DEF Known
<1>7. Seen(w)' = Seen(w) /\ b' = b
  BY <1>2 DEF Seen, Rec
<1>8. WantRefers(w)'
  BY <1>3, <1>4, <1>6, <1>7 DEF WantRefers
<1> QED BY <1>1, <1>2, <1>7, <1>8 DEF Refer, StagedRefers, CacheRefers, SnapFacts

LEMMA FindProjectRefers ==
    ASSUME RInv, TShape, RefInv, NEW w \in Workers, FindProject(w)
    PROVE  Refer(w)'
<1> DEFINE b == Rec(w).promoter
           key == ProjectKey(Rec(w).reg)
           old == Mine(w, key)
           row == Upserted(Rec(w), old)
<1>1. Shape /\ Session(w) /\ Refer(w)
  BY DEF RInv, RefInv
<1>2. /\ UNCHANGED <<rows, cur, page, pos, snap, cache, staged>>
      /\ pc[w] = "project" /\ cur[w] # 0
      /\ pc'[w] = "flush" /\ want'[w] = [key |-> key, row |-> row]
  BY <1>1 DEF FindProject, Seek, Go, tables, Session, RunOpen, Shape, ProjectKey
<1>3. Rec(w) \in Record /\ Rec(w).reg \in Regs /\ Known(b, Seen(w))
  <2>1. page[w] \in Seq(Record) /\ pos[w] \in 1..Len(page[w]) /\ Rec(w).reg # Null
    BY <1>1, <1>2 DEF Session, PageKept, AtPos, InRun
  <2>2. Rec(w) \in Record
    BY <2>1 DEF Rec
  <2> QED BY <1>1, <1>2, <2>1, <2>2 DEF Record, Refer, WantRefers
<1>4. Refers(row, Seen(w))
  <2>1. /\ row.builder = IF old = Null THEN b ELSE Or(b, old.builder)
        /\ row = [builder |-> row.builder, name |-> row.name, raw |-> Rec(w)]
        /\ row.name = IF old = Null THEN Rec(w).name ELSE Or(Rec(w).name, old.name)
    BY DEF Upserted
  <2>2. old # Null => old \in ProjectRow /\ Known(old.builder, Seen(w))
    BY <1>3, MineRefers DEF Refers
  <2>3. Known(row.builder, Seen(w)) /\ row.builder \in Promoters \cup {Null}
    <3> HIDE DEF row, b, old
    <3> QED BY <1>3, <2>1, <2>2 DEF Known, Or
  <2>4. row.name \in Names \cup {Null}
    <3> HIDE DEF row, old
    <3> QED BY <1>3, <2>1, <2>2 DEF Record, ProjectRow, Or
  <2> HIDE DEF row
  <2>5. row \in ProjectRow
    BY <1>3, <2>1, <2>3, <2>4 DEF ProjectRow
  <2> QED BY <2>3, <2>5 DEF Refers
<1>5. Seen(w)' = Seen(w)
  BY <1>2 DEF Seen
<1>6. want'[w].key[1] = "project" /\ want'[w].row = row
  BY <1>2, KeysDiffer
<1> HIDE DEF key, row
<1>7. WantRefers(w)'
  BY <1>2, <1>4, <1>5, <1>6 DEF WantRefers
<1> QED BY <1>1, <1>2, <1>5, <1>7 DEF Refer, StagedRefers, CacheRefers, SnapFacts

LEMMA FlushRefers ==
    ASSUME RInv, TShape, RefInv, NEW w \in Workers, Flush(w)
    PROVE  Refer(w)'
<1> DEFINE key == want[w].key
<1>1. Shape /\ Session(w) /\ Refer(w) /\ Wanted(w)
  BY DEF RInv, RefInv, Session
<1>2. /\ pc[w] = "flush" /\ UNCHANGED <<rows, cur, page, snap, cache>>
      /\ DOMAIN staged'[w] = {key} \cup DOMAIN staged[w]
      /\ staged'[w][key] = Flushed(w)
      /\ \A k \in DOMAIN staged[w] : k # key => staged'[w][k] = staged[w][k]
      /\ key[1] = "builder" => pc'[w] = "project" /\ pos'[w] = pos[w]
      /\ key[1] = "project" => pc'[w] = "record"
      /\ key[1] = "tag" => pc'[w] = "tag"
  BY FlushEffect DEF tables
<1>3. Seen(w)' = {key} \cup Seen(w)
  BY <1>2 DEF Seen
<1>4. \A reg \in Regs : ProjectKey(reg) = key => Refers(Flushed(w), Seen(w))
  <2> SUFFICES ASSUME NEW reg \in Regs, ProjectKey(reg) = key
               PROVE  Refers(Flushed(w), Seen(w))
    OBVIOUS
  <2>1. key[1] = "project"
    BY KeysDiffer
  <2>2. cur[w] # 0 /\ Refers(want[w].row, Seen(w))
    BY <1>1, <1>2, <2>1 DEF Wanted, Refer, WantRefers, BuilderKey
  <2>3. CASE view[w] = Null
    BY <2>2, <2>3 DEF Flushed
  <2>4. CASE view[w] # Null
    <3>1. key \in DOMAIN staged[w] \cup DOMAIN rows
      BY <1>1, <1>2, <2>1, <2>2, <2>4 DEF Wanted
    <3>2. Mine(w, key) = IF key \in DOMAIN staged[w] THEN staged[w][key] ELSE rows[key]
      BY <3>1 DEF Mine, Fetched, Override
    <3>3. Refers(Mine(w, key), Seen(w))
      <4>1. key \in DOMAIN rows => Refers(rows[key], DOMAIN rows)
        BY DEF RefInv, RowsRefer
      <4>2. key \in DOMAIN staged[w] => Refers(staged[w][key], Seen(w))
        BY <1>1 DEF Refer, StagedRefers
      <4> QED BY <3>1, <3>2, <4>1, <4>2, RefersOn DEF Seen
    <3>4. Flushed(w) = [c \in DOMAIN Mine(w, key) |->
                          IF want[w].row[c] # view[w][c] THEN want[w].row[c]
                          ELSE Mine(w, key)[c]]
      BY <2>4 DEF Flushed, WriteColumns
    <3> DEFINE new == want[w].row
               old == Mine(w, key)
               row == Flushed(w)
    <3>5. /\ new \in ProjectRow /\ old \in ProjectRow
          /\ Known(new.builder, Seen(w)) /\ Known(old.builder, Seen(w))
      BY <2>2, <3>3 DEF Refers
    <3> HIDE DEF key, new, old
    <3>6. DOMAIN old = {"builder", "name", "raw"}
      BY <3>5 DEF ProjectRow
    <3>7. /\ row = [builder |-> row.builder, name |-> row.name, raw |-> row.raw]
          /\ row.builder \in {new.builder, old.builder}
          /\ row.name \in {new.name, old.name} /\ row.raw \in {new.raw, old.raw}
      BY <3>4, <3>6 DEF new, old
    <3> HIDE DEF row
    <3> QED BY <3>5, <3>7 DEF Refers, ProjectRow, row
  <2> QED BY <2>3, <2>4
<1> HIDE DEF key
<1>5. StagedRefers(w)'
  <2> SUFFICES ASSUME NEW reg \in Regs, ProjectKey(reg) \in DOMAIN staged'[w]
               PROVE  Refers(staged'[w][ProjectKey(reg)], Seen(w)')
    BY DEF StagedRefers
  <2>1. CASE ProjectKey(reg) = key
    BY <1>2, <1>3, <1>4, <2>1, RefersOn
  <2>2. CASE ProjectKey(reg) # key
    <3>1. Refers(staged[w][ProjectKey(reg)], Seen(w))
      BY <1>1, <1>2, <2>2 DEF Refer, StagedRefers
    <3> QED BY <1>2, <1>3, <2>2, <3>1, RefersOn
  <2> QED BY <2>1, <2>2
<1>6. WantRefers(w)'
  <2>1. CASE cur[w] = 0
    BY <1>1, <1>2, <2>1 DEF Wanted, WantRefers, key
  <2>2. CASE cur[w] # 0 /\ key[1] = "builder"
    <3>1. Rec(w).promoter \in Promoters /\ key = BuilderKey(Rec(w).promoter)
      BY <1>1, <1>2, <2>2 DEF Refer, WantRefers, key
    <3>2. Rec(w)' = Rec(w) /\ pc'[w] = "project"
      BY <1>2, <2>2 DEF Rec
    <3> QED BY <1>3, <3>1, <3>2 DEF WantRefers, Known
  <2>3. CASE cur[w] # 0 /\ key[1] # "builder"
    <3>1. pc'[w] = "record"
      BY <1>1, <1>2, <2>3, KeysDiffer DEF Wanted, key
    <3> QED BY <3>1 DEF WantRefers
  <2> QED BY <2>1, <2>2, <2>3
<1> QED BY <1>1, <1>2, <1>5, <1>6 DEF Refer, CacheRefers, SnapFacts

(***************************************************************************)
(* A pass that looks up a number remembers the row it found.               *)
(***************************************************************************)
LEMMA ProjectRefers ==
    ASSUME RefInv, NEW w \in Workers, NEW reg \in Regs, Project(w, reg) # Null
    PROVE  ProjectKey(reg) \in DOMAIN rows /\ Refers(Project(w, reg), DOMAIN rows)
<1>1. CASE reg \in DOMAIN cache[w]
  BY <1>1 DEF Project, RefInv, Refer, CacheRefers
<1>2. CASE reg \notin DOMAIN cache[w]
  BY <1>2 DEF Project, RefInv, RowsRefer, Fetched, ProjectKey
<1> QED BY <1>1, <1>2

LEMMA FindTagRefers ==
    ASSUME RInv, TInv, RefInv, NEW w \in Workers, FindTag(w)
    PROVE  Refer(w)'
<1> DEFINE l == Head(todo[w])
           ids == snap[w][l].ids
           found == Override(cache[w], [reg \in LookedUp(w, ids) |-> Project(w, reg)])
<1>1. Shape /\ TShape /\ Session(w) /\ Refer(w) /\ Pass(w)
  BY DEF RInv, TInv, RefInv
<1>2. /\ UNCHANGED <<rows, cur, page, pos, snap, staged>>
      /\ pc[w] = "tag" /\ cur[w] = 0 /\ pc'[w] = "flush"
      /\ cache' = cache \/ cache'[w] = found
  <2>1. cache' = cache \/ cache' = [cache EXCEPT ![w] = found]
    BY DEF FindTag
  <2> HIDE DEF found
  <2> QED BY <1>1, <2>1 DEF FindTag, Seek, Go, Shape, TShape, tables, Session, RunOpen
<1>3. ids \in Seq(Regs)
  <2>1. l \in DOMAIN snap[w]
    BY <1>1, <1>2 DEF Pass, AtTags, FindTag
  <2> QED BY <1>1, <2>1, RegistryAssumption DEF Refer, SnapFacts
<1>4. CacheRefers(w)'
  <2>1. CASE cache' = cache
    BY <1>1, <1>2, <2>1 DEF Refer, CacheRefers
  <2>2. CASE cache'[w] = found
    <3>1. LookedUp(w, ids) \subseteq Regs
      BY <1>3 DEF LookedUp
    <3> HIDE DEF ids
    <3> SUFFICES ASSUME NEW reg \in DOMAIN cache'[w], cache'[w][reg] # Null
                 PROVE  /\ ProjectKey(reg) \in DOMAIN rows
                        /\ Refers(cache'[w][reg], DOMAIN rows)
      BY <1>2 DEF CacheRefers
    <3>2. CASE reg \in DOMAIN cache[w]
      <4>1. cache'[w][reg] = cache[w][reg]
        BY <2>2, <3>2 DEF Override
      <4> QED BY <1>1, <3>2, <4>1 DEF Refer, CacheRefers
    <3>3. CASE reg \notin DOMAIN cache[w]
      <4>1. reg \in LookedUp(w, ids) /\ cache'[w][reg] = Project(w, reg)
        BY <2>2, <3>3 DEF Override
      <4> QED BY <3>1, <4>1, ProjectRefers
    <3> QED BY <3>2, <3>3
  <2> QED BY <1>2, <2>1, <2>2
<1>5. Seen(w)' = Seen(w)
  BY <1>2 DEF Seen
<1> QED BY <1>1, <1>2, <1>4, <1>5 DEF Refer, StagedRefers, WantRefers, SnapFacts

LEMMA OwnRefers ==
    ASSUME RInv, TInv, RefInv, NEW w \in Workers, Works(w)
    PROVE  Refer(w)'
<1>1. /\ Shape /\ TShape /\ Refer(w) /\ RunOpen(w) /\ OwnKind(w)
      /\ DOMAIN rows \subseteq DOMAIN rows'
  BY StepApart DEF RInv, TInv, RefInv, Session
<1>2. CacheRefers(w) /\ cache' = cache => CacheRefers(w)'
  BY <1>1, RefersOn DEF CacheRefers
<1>3. CASE Start(w)
  <2>1. pc'[w] = "fetch" /\ UNCHANGED <<rows, staged, snap, cache>>
    BY <1>1, <1>3 DEF Start, Go, Shape
  <2> QED BY <1>1, <1>2, <2>1 DEF Refer, StagedRefers, Seen, WantRefers, SnapFacts
<1>4. CASE List(w)
  <2>1. /\ pc'[w] = "tag" /\ UNCHANGED <<rows, staged, cache>>
        /\ snap'[w] = [l \in Recent |-> listings[l]]
    BY <1>1, <1>4 DEF List, Go, Shape, TShape, tables
  <2>2. SnapFacts(w)'
    BY <1>1, <2>1 DEF SnapFacts, TShape, Recent
  <2> QED BY <1>1, <1>2, <2>1, <2>2 DEF Refer, StagedRefers, Seen, WantRefers
<1>5. CASE Archive(w) \/ Parse(w) \/ Skip(w)
  <2>1. /\ UNCHANGED <<rows, staged, snap, cache>>
        /\ pc'[w] \notin {"project", "flush"}
    BY <1>1, <1>5 DEF Archive, Parse, Skip, AtRecord, Go, Shape, tables
  <2> QED BY <1>1, <1>2, <2>1 DEF Refer, StagedRefers, Seen, WantRefers, SnapFacts
<1>6. CASE CommitPage(w)
  <2>1. pc'[w] = "close" /\ DOMAIN staged'[w] = {} /\ UNCHANGED <<snap, cache>>
    BY <1>1, <1>6, PublishRows DEF CommitPage, Go, Shape
  <2> QED BY <1>1, <1>2, <2>1 DEF Refer, StagedRefers, WantRefers, SnapFacts
<1>7. CASE Leave(w)
  <2>1. /\ pc'[w] = "idle" /\ DOMAIN staged'[w] = {} /\ DOMAIN cache'[w] = {}
        /\ DOMAIN snap'[w] = {}
    BY <1>1, <1>7, LeaveApart DEF Leave, TShape, Nothing
  <2> QED BY <2>1 DEF Refer, StagedRefers, WantRefers, CacheRefers, SnapFacts
<1> QED BY <1>1, <1>3, <1>4, <1>5, <1>6, <1>7, FindBuilderRefers, FindProjectRefers,
           FindTagRefers, FlushRefers, StepCases DEF Goes, CommitTags, GivesUp

LEMMA RefStep == RInv /\ TInv /\ RefInv /\ [Next]_vars => RefInv'
<1> SUFFICES ASSUME RInv, TInv, RefInv, [Next]_vars PROVE RefInv'
  OBVIOUS
<1>1. ASSUME NEW w \in Workers, Works(w) PROVE RefInv'
  <2>1. TShape /\ RowsRefer' /\ Refer(w)'
    BY <1>1, CommitRefers, OwnRefers DEF TInv
  <2>2. Apart(w) /\ DOMAIN rows \subseteq DOMAIN rows'
    BY <1>1, <2>1, StepApart
  <2>3. \A v \in Workers : v # w => Refer(v)'
    BY <2>2, OthersRefer
  <2> QED BY <2>1, <2>3 DEF RefInv
<1>2. ASSUME NEW l \in Listings, Change(l) PROVE RefInv'
  <2>1. UNCHANGED <<tables, session>>
    BY <1>2 DEF Change
  <2> QED BY <2>1 DEF RefInv, RowsRefer, Refer, StagedRefers, WantRefers, CacheRefers,
                      SnapFacts, Seen, Rec, tables, session
<1>3. CASE UNCHANGED vars
  BY <1>3 DEF vars, RefInv, RowsRefer, Refer, StagedRefers, WantRefers, CacheRefers,
              SnapFacts, Seen, Rec, tables, session
<1> QED BY <1>1, <1>2, <1>3 DEF Next, Works

LEMMA RefInvHolds == Spec => []RefInv
<1>1. Init => RefInv
  <2> SUFFICES ASSUME Init PROVE RefInv
    OBVIOUS
  <2>1. /\ DOMAIN rows = {}
        /\ \A w \in Workers : /\ DOMAIN staged[w] = {} /\ DOMAIN cache[w] = {}
                              /\ DOMAIN snap[w] = {} /\ pc[w] = "idle"
    BY DEF Init, Nothing
  <2> QED BY <2>1 DEF RefInv, RowsRefer, Refer, StagedRefers, WantRefers, CacheRefers,
                      SnapFacts
<1> QED BY <1>1, RefStep, RInvHolds, TInvHolds, PTL DEF Spec

-------------------------------------------------------------------------------
(***************************************************************************)
(* A pass that is alone: what it is about to write cites what it found,    *)
(* and the row it read is the row it will update.                          *)
(***************************************************************************)
RegKey(l) == TagKey(l, "rera_registered")

Cites(tag, keys) ==
    /\ {"status", "evidence"} \subseteq DOMAIN tag
    /\ \/ /\ tag.status = "unknown"
          /\ tag.evidence = Null
       \/ /\ tag.status = "flag"
          /\ tag.evidence # Null
          /\ tag.evidence[1] = "unmatched"
       \/ /\ tag.status = "pass"
          /\ tag.evidence # Null
          /\ tag.evidence[1] = "project"
          /\ tag.evidence[2] \in Regs
          /\ ProjectKey(tag.evidence[2]) \in keys
          /\ tag.evidence[3] # Null => BuilderKey(tag.evidence[3]) \in keys

Lone == \A v, w \in Workers : AtTags(v) /\ AtTags(w) => v = w

RowsCite == \A l \in Listings : RegKey(l) \in DOMAIN rows =>
                Cites(rows[RegKey(l)], DOMAIN rows)

StagedCites(w) == \A l \in Listings : RegKey(l) \in DOMAIN staged[w] =>
                      Cites(staged[w][RegKey(l)], DOMAIN rows)

WantCites(w) ==
    AtTags(w) /\ pc[w] = "flush" =>
        /\ view[w] = Mine(w, want[w].key)
        /\ \A l \in Listings : want[w].key = RegKey(l) => Cites(want[w].row, DOMAIN rows)

CiteInv ==
    "tags" \notin overlapped =>
        Lone /\ RowsCite /\ \A w \in Workers : StagedCites(w) /\ WantCites(w)

LEMMA CitesOn ==
    ASSUME NEW tag, NEW K, NEW M, Cites(tag, K), K \subseteq M
    PROVE  Cites(tag, M)
BY DEF Cites

(***************************************************************************)
(* A nonempty set of natural numbers has a least member: of the initial    *)
(* segments up to its members, one contains no other.                      *)
(***************************************************************************)
LEMMA LeastNat ==
    ASSUME NEW T \in SUBSET Nat, T # {}
    PROVE  \E n \in T : \A m \in T : n <= m
  <1> DEFINE U == {1..n : n \in T}
  <1>1. U \subseteq FiniteSubsetsOf(Nat) /\ U # {}
    <2>1. ASSUME NEW n \in T
          PROVE  1..n \in FiniteSubsetsOf(Nat)
      BY FS_Interval DEF FiniteSubsetsOf
    <2> QED
      BY <2>1
  <1>2. PICK x \in U : \A y \in U : ~(<<y, x>> \in StrictSubsetOrdering(Nat))
    <2> HIDE DEF U
    <2> QED
      BY <1>1, FS_StrictSubsetOrderingWellFounded, WFMin
  <1>3. PICK n \in T : x = 1..n
    OBVIOUS
  <1>4. ASSUME NEW m \in T, ~(n <= m)
        PROVE  FALSE
    <2>1. 1..m \in U /\ 1..m \subseteq 1..n /\ n \in 1..n /\ n \notin 1..m
      BY <1>4
    <2>2. <<1..m, 1..n>> \in StrictSubsetOrdering(Nat)
      BY <2>1 DEF StrictSubsetOrdering
    <2> QED
      BY <1>2, <1>3, <2>1, <2>2
  <1> QED
    BY <1>4

(***************************************************************************)
(* rera_registered cites the first number that is registered.              *)
(***************************************************************************)
LEMMA RegistryTagCites ==
    ASSUME RefInv, NEW w \in Workers, NEW facts \in Facts
    PROVE  Cites(RegistryTag(w, facts.ids), DOMAIN rows)
<1> DEFINE ids == facts.ids
           found == {k \in DOMAIN ids : Project(w, ids[k]) # Null}
           reg == ids[Min(found)]
<1>1. ids \in Seq(Regs) /\ Null \notin Evidence
  BY RegistryAssumption
<1>2. CASE ids = <<>>
  BY <1>2 DEF RegistryTag, Cites
<1>3. CASE ids # <<>> /\ found # {}
  <2>1. RegistryTag(w, ids) = [status |-> "pass",
                               evidence |-> <<"project", reg, Project(w, reg).builder>>]
    BY <1>3 DEF RegistryTag
  <2>2. found \in SUBSET Nat
    BY <1>1
  <2> HIDE DEF found, ids
  <2>3. Min(found) \in found
    <3>1. \E k \in found : \A m \in found : k <= m
      BY <1>3, <2>2, LeastNat
    <3> QED BY <3>1 DEF Min
  <2>4. reg \in Regs /\ Project(w, reg) # Null
    BY <1>1, <2>3 DEF found
  <2> HIDE DEF reg
  <2>5. ProjectKey(reg) \in DOMAIN rows /\ Refers(Project(w, reg), DOMAIN rows)
    BY <2>4, ProjectRefers
  <2> DEFINE b == Project(w, reg).builder
             evidence == <<"project", reg, b>>
  <2>6. b \in Promoters \cup {Null} /\ (b # Null => BuilderKey(b) \in DOMAIN rows)
    BY <2>5 DEF Refers, Known
  <2> HIDE DEF b
  <2>7. evidence \in Evidence
    BY <2>4, <2>6 DEF Evidence
  <2>8. evidence # Null /\ evidence[1] = "project" /\ evidence[2] = reg /\ evidence[3] = b
    BY <1>1, <2>7
  <2> HIDE DEF evidence
  <2>9. RegistryTag(w, ids) = [status |-> "pass", evidence |-> evidence]
    BY <2>1 DEF evidence, b
  <2> QED BY <2>4, <2>5, <2>6, <2>8, <2>9 DEF Cites, ids
<1>4. CASE ids # <<>> /\ found = {}
  <2> DEFINE evidence == <<"unmatched", ids>>
  <2>1. RegistryTag(w, ids) = [status |-> "flag", evidence |-> evidence]
    BY <1>4 DEF RegistryTag
  <2>2. evidence \in Evidence
    BY DEF Evidence
  <2>3. evidence # Null /\ evidence[1] = "unmatched"
    BY <1>1, <2>2
  <2> HIDE DEF evidence
  <2> QED BY <2>1, <2>3 DEF Cites
<1> QED BY <1>2, <1>3, <1>4

(***************************************************************************)
(* While two passes have never overlapped, a step keeps them apart.        *)
(***************************************************************************)
LEMMA LoneStep ==
    ASSUME RInv, TInv, NEW w \in Workers, Works(w), "tags" \notin overlapped', Lone
    PROVE  Lone'
<1>1. Shape /\ TShape /\ RunOpen(w) /\ Apart(w)
  BY StepApart DEF RInv, TInv, Session
<1>2. \A v \in Workers : v # w => (AtTags(v)' <=> AtTags(v))
  BY <1>1 DEF Apart, AtTags
<1>3. CASE List(w)
  <2>1. \A v \in Workers \ {w} : ~AtTags(v)
    BY <1>3 DEF List, Begin, Job, AtTags
  <2> QED BY <1>2, <2>1 DEF Lone
<1>4. CASE ~List(w)
  <2>1. AtTags(w)' => AtTags(w)
    <3>1. CASE Start(w)
      BY <1>1, <3>1 DEF Start, Go, Shape, AtTags
    <3>2. CASE Goes(w)
      <4>1. cur'[w] = cur[w] /\ cur[w] # 0
        BY <1>1, <3>2 DEF Goes, Archive, Parse, Skip, AtRecord, FindBuilder, FindProject,
                          Seek, RunOpen
      <4> QED BY <4>1 DEF AtTags
    <3>3. CASE CommitPage(w)
      BY <1>1, <3>3 DEF CommitPage, Go, Shape, AtTags
    <3>4. CASE FindTag(w) \/ Flush(w)
      <4>1. cur' = cur /\ pc[w] \in {"tag", "flush"}
        BY <3>4 DEF FindTag, Flush
      <4> QED BY <4>1 DEF AtTags
    <3>5. CASE Leave(w)
      BY <1>1, <3>5, LeaveApart DEF AtTags
    <3> QED BY <1>4, <3>1, <3>2, <3>3, <3>4, <3>5, StepCases DEF CommitTags, GivesUp
  <2> QED BY <1>2, <2>1 DEF Lone
<1> QED BY <1>3, <1>4

(***************************************************************************)
(* Only a tag pass changes the tags.                                       *)
(***************************************************************************)
LEMMA TagRowsKept ==
    ASSUME RInv, TInv, NEW w \in Workers, Works(w), ~CommitTags(w), NEW l, NEW item
    PROVE  LET key == TagKey(l, item)
           IN /\ key \in DOMAIN rows' <=> key \in DOMAIN rows
              /\ key \in DOMAIN rows => rows'[key] = rows[key]
<1> DEFINE key == TagKey(l, item)
<1>1. CASE CommitPage(w)
  <2>1. /\ DOMAIN rows' = DOMAIN staged[w] \cup DOMAIN rows
        /\ \A k \in DOMAIN rows \ DOMAIN staged[w] : rows'[k] = rows[k]
    BY <1>1, PublishRows DEF CommitPage, RInv, Shape
  <2>2. key \notin DOMAIN staged[w]
    BY <1>1 DEF CommitPage, RInv, Session, RunOpen, TInv, OwnKind, TagKey
  <2> HIDE DEF key
  <2> QED BY <2>1, <2>2 DEF key
<1>2. CASE ~CommitPage(w)
  <2>1. rows' = rows
    BY <1>2, StepCases DEF Start, List, Goes, Archive, Parse, Skip, FindBuilder, FindProject,
                           FindTag, Flush, GivesUp, tables
  <2> QED BY <2>1
<1> QED BY <1>1, <1>2

LEMMA RowsCiteStep ==
    ASSUME RInv, TInv, NEW w \in Workers, Works(w), RowsCite, StagedCites(w)
    PROVE  RowsCite'
<1>1. TShape /\ DOMAIN rows \subseteq DOMAIN rows'
  BY StepApart DEF TInv
<1> SUFFICES ASSUME NEW l \in Listings, RegKey(l) \in DOMAIN rows'
             PROVE  Cites(rows'[RegKey(l)], DOMAIN rows')
  BY DEF RowsCite
<1>2. CASE CommitTags(w)
  <2>1. /\ DOMAIN rows' = DOMAIN staged[w] \cup DOMAIN rows
        /\ \A k \in DOMAIN staged[w] : rows'[k] = staged[w][k]
        /\ \A k \in DOMAIN rows \ DOMAIN staged[w] : rows'[k] = rows[k]
    BY <1>2, PublishRows DEF CommitTags, RInv, Shape
  <2>2. Cites(rows'[RegKey(l)], DOMAIN rows)
    BY <2>1 DEF RowsCite, StagedCites
  <2> QED BY <1>1, <2>2, CitesOn
<1>3. CASE ~CommitTags(w)
  <2>1. RegKey(l) \in DOMAIN rows /\ rows'[RegKey(l)] = rows[RegKey(l)]
    BY <1>3, TagRowsKept DEF RegKey
  <2>2. Cites(rows[RegKey(l)], DOMAIN rows)
    BY <2>1 DEF RowsCite
  <2> QED BY <1>1, <2>1, <2>2, CitesOn
<1> QED BY <1>2, <1>3

LEMMA OthersCite ==
    ASSUME RInv, TInv, NEW w \in Workers, Works(w), Lone,
           NEW v \in Workers, v # w, StagedCites(v), WantCites(v)
    PROVE  StagedCites(v)' /\ WantCites(v)'
<1>1. Apart(w) /\ DOMAIN rows \subseteq DOMAIN rows' /\ Pass(v)
  BY StepApart DEF TInv
<1>2. /\ pc'[v] = pc[v] /\ cur'[v] = cur[v] /\ view'[v] = view[v] /\ want'[v] = want[v]
      /\ staged'[v] = staged[v]
  BY <1>1 DEF Apart
<1>3. StagedCites(v)'
  BY <1>1, <1>2, CitesOn DEF StagedCites
<1>4. ASSUME AtTags(v), pc[v] = "flush"
      PROVE  /\ view[v] = Mine(v, want[v].key)'
             /\ \A l \in Listings :
                  want[v].key = RegKey(l) => Cites(want[v].row, DOMAIN rows')
  <2> DEFINE key == want[v].key
  <2>1. ~CommitTags(w)
    BY <1>4 DEF CommitTags, Lone, AtTags, RInv, Session, RunOpen
  <2>2. /\ key \in DOMAIN rows' <=> key \in DOMAIN rows
        /\ key \in DOMAIN rows => rows'[key] = rows[key]
    BY <1>1, <1>4, <2>1, TagRowsKept DEF Pass
  <2>3. Mine(v, key)' = Mine(v, key)
    BY <1>2, <2>2 DEF Mine, Fetched, Override
  <2>4. /\ view[v] = Mine(v, key)
        /\ \A l \in Listings : key = RegKey(l) => Cites(want[v].row, DOMAIN rows)
    BY <1>4 DEF WantCites
  <2> HIDE DEF key
  <2>5. \A l \in Listings : key = RegKey(l) => Cites(want[v].row, DOMAIN rows')
    BY <1>1, <2>4, CitesOn
  <2>6. view[v] = Mine(v, key)'
    BY <2>3, <2>4
  <2> QED BY <1>2, <2>5, <2>6 DEF key
<1>5. WantCites(v)'
  BY <1>2, <1>4 DEF WantCites, AtTags
<1> QED BY <1>3, <1>5

LEMMA FindTagCites ==
    ASSUME RInv, TInv, RefInv, NEW w \in Workers, FindTag(w), StagedCites(w)
    PROVE  StagedCites(w)' /\ WantCites(w)'
<1> DEFINE l == Head(todo[w])
           item == AllItems[pos[w]]
           key == TagKey(l, item)
           facts == snap[w][l]
<1>1. Shape /\ Pass(w) /\ Refer(w) /\ AtTags(w) /\ todo[w] # <<>>
  BY DEF RInv, TInv, RefInv, FindTag, Session, RunOpen, AtTags
<1>2. facts \in Facts
  <2>1. l \in DOMAIN snap[w]
    BY <1>1 DEF Pass
  <2> QED BY <1>1, <2>1 DEF Refer, SnapFacts
<1>3. /\ UNCHANGED <<rows, staged>>
      /\ view'[w] = Mine(w, key) /\ want'[w].key = key
      /\ item = "rera_registered" => want'[w].row = RegistryTag(w, facts.ids)
  BY <1>1 DEF FindTag, Seek, Shape, tables, TagKey
<1>4. Cites(RegistryTag(w, facts.ids), DOMAIN rows)
  BY <1>2, RegistryTagCites
<1>5. \A m \in Listings : key = RegKey(m) => item = "rera_registered"
  BY DEF RegKey, TagKey
<1> HIDE DEF key, item, facts
<1>6. Mine(w, key)' = Mine(w, key) /\ key' = key
  BY <1>3 DEF Mine, key, item, FindTag
<1>7. WantCites(w)'
  BY <1>3, <1>4, <1>5, <1>6 DEF WantCites
<1> QED BY <1>3, <1>7 DEF StagedCites

LEMMA FlushCites ==
    ASSUME RInv, TInv, NEW w \in Workers, Flush(w), RowsCite, StagedCites(w), WantCites(w)
    PROVE  StagedCites(w)' /\ WantCites(w)'
<1> DEFINE key == want[w].key
<1>1. Shape /\ TShape /\ Wanted(w)
  BY DEF RInv, TInv, Session
<1>2. /\ pc[w] = "flush" /\ UNCHANGED <<rows, cur>> /\ pc'[w] # "flush"
      /\ DOMAIN staged'[w] = {key} \cup DOMAIN staged[w]
      /\ staged'[w][key] = Flushed(w)
      /\ \A k \in DOMAIN staged[w] : k # key => staged'[w][k] = staged[w][k]
  <2>1. key[1] \in {"builder", "project", "tag"}
    BY <1>1, KeysDiffer DEF Wanted, Flush
  <2> QED BY <1>1, <2>1, FlushEffect DEF tables
<1>3. WantCites(w)'
  BY <1>2 DEF WantCites
<1>4. ASSUME NEW l \in Listings, key = RegKey(l)
      PROVE  Cites(Flushed(w), DOMAIN rows)
  <2>1. cur[w] = 0
    BY <1>1, <1>2, <1>4, KeysDiffer DEF Wanted, RegKey, TagKey, RInv, RefInv
  <2>2. AtTags(w) /\ view[w] = Mine(w, key) /\ Cites(want[w].row, DOMAIN rows)
    BY <1>2, <1>4, <2>1 DEF WantCites, AtTags
  <2>3. CASE view[w] = Null
    BY <2>2, <2>3 DEF Flushed
  <2>4. CASE view[w] # Null
    <3> DEFINE old == Mine(w, key)
               new == want[w].row
    <3>1. Cites(old, DOMAIN rows)
      <4>1. /\ key \in DOMAIN staged[w] \cup DOMAIN rows
            /\ old = IF key \in DOMAIN staged[w] THEN staged[w][key] ELSE rows[key]
        BY <2>2, <2>4 DEF Mine, Fetched, Override
      <4> HIDE DEF old, key
      <4> QED BY <1>4, <4>1 DEF RowsCite, StagedCites
    <3>2. Flushed(w) = [c \in DOMAIN old |-> IF new[c] # old[c] THEN new[c] ELSE old[c]]
      BY <2>2, <2>4 DEF Flushed, WriteColumns
    <3> HIDE DEF old
    <3>3. /\ {"status", "evidence"} \subseteq DOMAIN Flushed(w)
          /\ Flushed(w).status = new.status /\ Flushed(w).evidence = new.evidence
      BY <3>1, <3>2 DEF Cites
    <3> HIDE DEF new
    <3> QED BY <2>2, <3>3 DEF Cites, new
  <2> QED BY <2>3, <2>4
<1> HIDE DEF key
<1>5. StagedCites(w)'
  BY <1>2, <1>4 DEF StagedCites
<1> QED BY <1>3, <1>5

LEMMA OwnCites ==
    ASSUME RInv, TInv, RefInv, NEW w \in Workers, Works(w), RowsCite, StagedCites(w),
           WantCites(w)
    PROVE  StagedCites(w)' /\ WantCites(w)'
<1>1. Shape /\ TShape /\ RunOpen(w) /\ OwnKind(w) /\ DOMAIN rows \subseteq DOMAIN rows'
  BY StepApart DEF RInv, TInv, Session
<1>2. staged'[w] = staged[w] => StagedCites(w)'
  BY <1>1, CitesOn DEF StagedCites
<1>3. CASE Start(w) \/ List(w)
  <2>1. staged'[w] = staged[w] /\ pc'[w] # "flush"
    BY <1>1, <1>3 DEF Start, List, Go, Shape
  <2> QED BY <1>2, <2>1 DEF WantCites
<1>4. CASE Goes(w)
  <2>1. cur'[w] = cur[w] /\ cur[w] # 0 /\ staged' = staged
    BY <1>1, <1>4 DEF Goes, Archive, Parse, Skip, AtRecord, FindBuilder, FindProject, Seek,
                      RunOpen
  <2> QED BY <1>2, <2>1 DEF WantCites, AtTags
<1>5. CASE CommitPage(w)
  <2>1. pc'[w] = "close" /\ DOMAIN staged'[w] = {}
    BY <1>1, <1>5, PublishRows DEF CommitPage, Go, Shape
  <2> QED BY <2>1 DEF StagedCites, WantCites
<1>6. CASE Leave(w)
  <2>1. pc'[w] = "idle" /\ DOMAIN staged'[w] = {}
    BY <1>1, <1>6, LeaveApart
  <2> QED BY <2>1 DEF StagedCites, WantCites
<1> QED BY <1>3, <1>4, <1>5, <1>6, FindTagCites, FlushCites, StepCases DEF CommitTags, GivesUp

LEMMA CiteStep == RInv /\ TInv /\ RefInv /\ CiteInv /\ [Next]_vars => CiteInv'
<1> SUFFICES ASSUME RInv, TInv, RefInv, CiteInv, [Next]_vars, "tags" \notin overlapped'
             PROVE  Lone' /\ RowsCite' /\ \A v \in Workers : StagedCites(v)' /\ WantCites(v)'
  BY DEF CiteInv
<1>1. overlapped \subseteq overlapped'
  <2>1. ASSUME NEW w \in Workers, Works(w) PROVE overlapped \subseteq overlapped'
    BY <2>1, StepCases DEF Start, List, Begin, Goes, Archive, Parse, Skip, FindBuilder,
       FindProject, FindTag, Flush, CommitPage, CommitTags, GivesUp, history
  <2> QED BY <2>1 DEF Next, Works, Change, vars, history
<1>2. Lone /\ RowsCite /\ \A v \in Workers : StagedCites(v) /\ WantCites(v)
  BY <1>1 DEF CiteInv
<1>3. ASSUME NEW w \in Workers, Works(w)
      PROVE  Lone' /\ RowsCite' /\ \A v \in Workers : StagedCites(v)' /\ WantCites(v)'
  <2>1. Lone' /\ RowsCite'
    BY <1>2, <1>3, LoneStep, RowsCiteStep
  <2>2. ASSUME NEW v \in Workers PROVE StagedCites(v)' /\ WantCites(v)'
    <3>1. CASE v = w
      BY <1>2, <1>3, <3>1, OwnCites
    <3>2. CASE v # w
      BY <1>2, <1>3, <3>2, OthersCite
    <3> QED BY <3>1, <3>2
  <2> QED BY <2>1, <2>2
<1>4. CASE UNCHANGED <<tables, session>>
  BY <1>2, <1>4 DEF Lone, AtTags, RowsCite, StagedCites, WantCites, Mine, tables, session
<1> QED BY <1>3, <1>4 DEF Next, Works, Change, vars

(***************************************************************************)
(* "A verifiable cross-source fact": a registration tag agrees with the    *)
(* evidence it cites, and what it cites is in the registry, whatever runs  *)
(* are under way, as long as no two passes have overlapped.                *)
(***************************************************************************)
THEOREM TagsStayCited == Spec => []TagsCite
<1>1. Init => CiteInv
  <2> SUFFICES ASSUME Init PROVE CiteInv
    OBVIOUS
  <2>1. /\ DOMAIN rows = {}
        /\ \A w \in Workers : DOMAIN staged[w] = {} /\ pc[w] = "idle"
    BY DEF Init, Nothing
  <2> QED BY <2>1 DEF CiteInv, Lone, AtTags, RowsCite, StagedCites, WantCites
<1>2. CiteInv => TagsCite
  <2> SUFFICES ASSUME CiteInv, "tags" \notin overlapped, NEW l \in Listings,
                      "rera_registered" \in Tagged(l)
               PROVE  Agrees(rows[<<"tag", <<l, "rera_registered">>>>])
    BY DEF TagsCite, RegistrationAgrees
  <2> DEFINE tag == rows[<<"tag", <<l, "rera_registered">>>>]
  <2>1. Cites(tag, DOMAIN rows)
    BY DEF CiteInv, RowsCite, RegKey, TagKey, Tagged
  <2> HIDE DEF tag
  <2>2. Agrees(tag)
    BY <2>1 DEF Cites, Agrees, Projects, ProjectKey, BuilderKey
  <2> QED BY <2>2 DEF tag
<1>3. Spec => []CiteInv
  BY <1>1, CiteStep, RInvHolds, TInvHolds, RefInvHolds, PTL DEF Spec
<1> QED BY <1>2, <1>3, PTL

-------------------------------------------------------------------------------
(***************************************************************************)
(* The registry as a replay.                                               *)
(*                                                                         *)
(* The records replayed are ordered: every set of them has a latest one,   *)
(* which Latest finds.  A table replays records if its projects are theirs *)
(* and have the rows that replaying them gives.                            *)
(***************************************************************************)
Ordered(recs) ==
    \A T \in SUBSET DOMAIN recs : T # {} => \E p \in T : \A q \in T \ {p} : Before(q, p)

Replays(recs, table) ==
    /\ Ordered(recs)
    /\ \A reg \in Regs :
         LET key == ProjectKey(reg)
         IN /\ key \in DOMAIN table <=> Of(recs, reg) # {}
            /\ key \in DOMAIN table => table[key] = Replayed(recs, reg)

LEMMA LatestIn ==
    ASSUME NEW recs, Ordered(recs), NEW T \in SUBSET DOMAIN recs, T # {}
    PROVE  Latest(T) \in T
BY DEF Ordered, Latest

LEMMA SameReplay ==
    ASSUME NEW recs, NEW table, NEW other, Replays(recs, table),
           \A reg \in Regs : LET key == ProjectKey(reg)
                             IN /\ key \in DOMAIN other <=> key \in DOMAIN table
                                /\ key \in DOMAIN table => other[key] = table[key]
    PROVE  Replays(recs, other)
BY DEF Replays

(***************************************************************************)
(* One more record, later than all others.                                 *)
(***************************************************************************)
Extends(more, recs, p, rec) ==
    /\ DOMAIN more = DOMAIN recs \cup {p}
    /\ p \notin DOMAIN recs
    /\ more[p] = rec
    /\ \A q \in DOMAIN recs : more[q] = recs[q] /\ Before(q, p) /\ ~Before(p, q)

LEMMA LatestExtended ==
    ASSUME NEW recs, NEW more, NEW p, NEW rec, Extends(more, recs, p, rec),
           NEW T \in SUBSET DOMAIN recs
    PROVE  Latest(T \cup {p}) = p
<1>1. \A q \in (T \cup {p}) \ {p} : Before(q, p)
  BY DEF Extends
<1>2. \A x \in T \cup {p} : (\A q \in (T \cup {p}) \ {x} : Before(q, x)) => x = p
  BY DEF Extends
<1> QED BY <1>1, <1>2 DEF Latest

LEMMA OrderedExtended ==
    ASSUME NEW recs, NEW more, NEW p, NEW rec, Extends(more, recs, p, rec), Ordered(recs)
    PROVE  Ordered(more)
<1> SUFFICES ASSUME NEW T \in SUBSET DOMAIN more, T # {}
             PROVE  \E x \in T : \A q \in T \ {x} : Before(q, x)
  BY DEF Ordered
<1>1. CASE p \in T
  BY <1>1 DEF Extends
<1>2. CASE p \notin T
  <2>1. T \in SUBSET DOMAIN recs
    BY <1>2 DEF Extends
  <2> QED BY <2>1 DEF Ordered
<1> QED BY <1>1, <1>2

LEMMA LastGivenKept ==
    ASSUME NEW recs, NEW more, NEW p, NEW rec, Extends(more, recs, p, rec), Ordered(recs),
           NEW S \in SUBSET DOMAIN recs, NEW column
    PROVE  LastGiven(more, S, column) = LastGiven(recs, S, column)
<1> DEFINE given == {q \in S : recs[q][column] # Null}
<1>1. {q \in S : more[q][column] # Null} = given
  BY DEF Extends
<1>2. CASE given = {}
  BY <1>1, <1>2 DEF LastGiven
<1>3. CASE given # {}
  <2>1. Latest(given) \in DOMAIN recs
    BY <1>3, LatestIn
  <2>2. more[Latest(given)] = recs[Latest(given)]
    BY <2>1 DEF Extends
  <2> QED BY <1>1, <1>3, <2>2 DEF LastGiven
<1> QED BY <1>2, <1>3

LEMMA LastGivenExtended ==
    ASSUME NEW recs, NEW more, NEW p, NEW rec, Extends(more, recs, p, rec), Ordered(recs),
           NEW S \in SUBSET DOMAIN recs, NEW column
    PROVE  LastGiven(more, S \cup {p}, column) =
               IF rec[column] # Null THEN rec[column] ELSE LastGiven(recs, S, column)
<1>1. CASE rec[column] # Null
  <2> DEFINE given == {q \in S \cup {p} : more[q][column] # Null}
             old == {q \in S : more[q][column] # Null}
  <2>1. given = old \cup {p} /\ more[p] = rec
    BY <1>1 DEF Extends
  <2>2. Latest(given) = p
    <3>1. old \in SUBSET DOMAIN recs
      OBVIOUS
    <3> HIDE DEF given, old
    <3> QED BY <2>1, <3>1, LatestExtended
  <2> QED BY <1>1, <2>1, <2>2 DEF LastGiven
<1>2. CASE rec[column] = Null
  <2>1. {q \in S \cup {p} : more[q][column] # Null} = {q \in S : more[q][column] # Null}
    BY <1>2 DEF Extends
  <2>2. LastGiven(more, S \cup {p}, column) = LastGiven(more, S, column)
    BY <2>1 DEF LastGiven
  <2> QED BY <1>2, <2>2, LastGivenKept
<1> QED BY <1>1, <1>2

(***************************************************************************)
(* Upserting the record gives the table that replays one record more.      *)
(***************************************************************************)
LEMMA ReplayExtended ==
    ASSUME NEW recs, NEW more, NEW p, NEW rec, Extends(more, recs, p, rec),
           NEW table, NEW other, Replays(recs, table),
           \A reg \in Regs : ProjectKey(reg) \in DOMAIN table =>
               table[ProjectKey(reg)] # Null,
           \A reg \in Regs :
               LET key == ProjectKey(reg)
               IN IF rec.reg = reg
                  THEN /\ key \in DOMAIN other
                       /\ other[key] = Upserted(rec, Fetched(table, key))
                  ELSE /\ key \in DOMAIN other <=> key \in DOMAIN table
                       /\ key \in DOMAIN table => other[key] = table[key]
    PROVE  Replays(more, other)
<1>1. Ordered(recs) /\ Ordered(more)
  BY OrderedExtended DEF Replays
<1> SUFFICES ASSUME NEW reg \in Regs
             PROVE  LET key == ProjectKey(reg)
                    IN /\ key \in DOMAIN other <=> Of(more, reg) # {}
                       /\ key \in DOMAIN other => other[key] = Replayed(more, reg)
  BY <1>1 DEF Replays
<1> DEFINE key == ProjectKey(reg)
           S == Of(recs, reg)
<1>2. S \in SUBSET DOMAIN recs
  BY DEF Of
<1>3. /\ key \in DOMAIN table <=> S # {}
      /\ key \in DOMAIN table => table[key] = Replayed(recs, reg) /\ table[key] # Null
  BY DEF Replays
<1>4. CASE rec.reg # reg
  <2>1. Of(more, reg) = S
    BY <1>4 DEF Of, Extends
  <2>2. S # {} => Replayed(more, reg) = Replayed(recs, reg)
    <3> SUFFICES ASSUME S # {} PROVE Replayed(more, reg) = Replayed(recs, reg)
      OBVIOUS
    <3>1. more[Latest(S)] = recs[Latest(S)]
      BY <1>1, <1>2, LatestIn DEF Extends
    <3>2. /\ LastGiven(more, S, "promoter") = LastGiven(recs, S, "promoter")
          /\ LastGiven(more, S, "name") = LastGiven(recs, S, "name")
      BY <1>1, <1>2, LastGivenKept
    <3> QED BY <2>1, <3>1, <3>2 DEF Replayed
  <2>3. /\ key \in DOMAIN other <=> key \in DOMAIN table
        /\ key \in DOMAIN table => other[key] = table[key]
    BY <1>4
  <2> HIDE DEF key, S
  <2> QED BY <1>3, <2>1, <2>2, <2>3 DEF key
<1>5. CASE rec.reg = reg
  <2>1. Of(more, reg) = S \cup {p}
    BY <1>5 DEF Of, Extends
  <2>2. more[Latest(S \cup {p})] = rec
    BY <1>2, LatestExtended DEF Extends
  <2>3. /\ LastGiven(more, S \cup {p}, "promoter") =
             IF rec.promoter # Null THEN rec.promoter ELSE LastGiven(recs, S, "promoter")
        /\ LastGiven(more, S \cup {p}, "name") =
             IF rec.name # Null THEN rec.name ELSE LastGiven(recs, S, "name")
    <3>1. \A column : LastGiven(more, S \cup {p}, column) =
             IF rec[column] # Null THEN rec[column] ELSE LastGiven(recs, S, column)
      BY <1>1, <1>2, LastGivenExtended
    <3> QED BY <3>1
  <2>4. Upserted(rec, Fetched(table, key)) = Replayed(more, reg)
    <3>1. CASE S = {}
      <4>1. Fetched(table, key) = Null
        BY <1>3, <3>1 DEF Fetched
      <4>2. \A column : LastGiven(recs, S, column) = Null
        BY <3>1 DEF LastGiven
      <4> HIDE DEF key, S
      <4> QED BY <2>1, <2>2, <2>3, <4>1, <4>2 DEF Upserted, Replayed
    <3>2. CASE S # {}
      <4> DEFINE old == Replayed(recs, reg)
      <4>1. Fetched(table, key) = old /\ old # Null
        BY <1>3, <3>2 DEF Fetched
      <4>2. /\ old.builder = LastGiven(recs, S, "promoter")
            /\ old.name = LastGiven(recs, S, "name")
        BY DEF Replayed
      <4> HIDE DEF key, S, old
      <4> QED BY <2>1, <2>2, <2>3, <4>1, <4>2 DEF Upserted, Replayed, Or
    <3> QED BY <3>1, <3>2
  <2>5. key \in DOMAIN other /\ other[key] = Upserted(rec, Fetched(table, key))
    BY <1>5
  <2> HIDE DEF key, S
  <2> QED BY <2>1, <2>4, <2>5 DEF key
<1> QED BY <1>4, <1>5

-------------------------------------------------------------------------------
(***************************************************************************)
(* A run that is alone: the committed registry replays the archived pages  *)
(* of the committed runs, and the registry as the session sees it replays  *)
(* them and the records of its own page that are behind it.                *)
(***************************************************************************)
Table(w) == Override(staged[w], rows)

SeenBy(w) ==
    [p \in DOMAIN Archived \cup ({Len(stored) + 1} \X (1..pos[w] - 1)) |->
        IF p \in DOMAIN Archived THEN Archived[p] ELSE page[w][p[2]]]

StoredKept ==
    /\ stored \in Seq(Nat)
    /\ \A k \in 1..Len(stored) :
         /\ stored[k] \in 1..Len(runs)
         /\ stored[k] \in DOMAIN raw
         /\ raw[stored[k]] \in Seq(Record)
         /\ \A w \in Workers : cur[w] = stored[k] => pc[w] = "close"

Solo == \A v, w \in Workers : cur[v] # 0 /\ cur[w] # 0 => v = w

RunReplays(w) ==
    InRun(w) =>
        /\ pos[w] <= Len(page[w]) + 1
        /\ Replays(SeenBy(w), Table(w))
        /\ pc[w] = "flush" /\ want[w].key[1] = "project" =>
             /\ view[w] = Mine(w, want[w].key)
             /\ want[w].row = Upserted(Rec(w), Mine(w, want[w].key))

ReplayInv ==
    /\ StoredKept
    /\ "rera" \notin overlapped =>
         /\ Solo
         /\ Replays(Archived, rows)
         /\ \A w \in Workers : RunReplays(w)

(***************************************************************************)
(* The places of the archived records.                                     *)
(***************************************************************************)
LEMMA ArchivedPlaces ==
    ASSUME StoredKept
    PROVE  /\ Len(stored) \in Nat /\ DOMAIN stored = 1..Len(stored)
           /\ \A p : p \in DOMAIN Archived <=>
                \E k \in 1..Len(stored) : \E i \in DOMAIN raw[stored[k]] : p = <<k, i>>
           /\ \A k \in 1..Len(stored) : \A i \in DOMAIN raw[stored[k]] :
                i \in Nat \ {0} /\ Archived[<<k, i>>] = raw[stored[k]][i]
<1>1. Len(stored) \in Nat /\ DOMAIN stored = 1..Len(stored)
  BY DEF StoredKept
<1>2. DOMAIN Archived = UNION {{k} \X DOMAIN raw[stored[k]] : k \in DOMAIN stored}
  BY DEF Archived
<1>3. \A p : p \in DOMAIN Archived <=>
        \E k \in 1..Len(stored) : \E i \in DOMAIN raw[stored[k]] : p = <<k, i>>
  BY <1>1, <1>2
<1>4. ASSUME NEW k \in 1..Len(stored), NEW i \in DOMAIN raw[stored[k]]
      PROVE  i \in Nat \ {0} /\ Archived[<<k, i>>] = raw[stored[k]][i]
  <2>1. i \in Nat \ {0}
    BY DEF StoredKept
  <2>2. <<k, i>> \in DOMAIN Archived
    BY <1>3
  <2>3. \A p \in DOMAIN Archived : Archived[p] = raw[stored[p[1]]][p[2]]
    BY DEF Archived
  <2> QED BY <2>1, <2>2, <2>3
<1> QED BY <1>1, <1>3, <1>4

LEMMA ArchivedStays ==
    ASSUME stored' = stored, \A k \in DOMAIN stored : raw'[stored[k]] = raw[stored[k]]
    PROVE  Archived' = Archived
<1>1. UNION {{k} \X DOMAIN raw'[stored[k]] : k \in DOMAIN stored} =
          UNION {{k} \X DOMAIN raw[stored[k]] : k \in DOMAIN stored}
  OBVIOUS
<1>2. \A p \in UNION {{k} \X DOMAIN raw[stored[k]] : k \in DOMAIN stored} :
          raw'[stored[p[1]]][p[2]] = raw[stored[p[1]]][p[2]]
  OBVIOUS
<1> QED BY <1>1, <1>2 DEF Archived

(***************************************************************************)
(* With every record a session sees one record more, the latest; at the    *)
(* end of its page it sees what its commit archives.                       *)
(***************************************************************************)
LEMMA SeenNext ==
    ASSUME StoredKept, NEW w \in Workers, pos[w] \in Nat \ {0}, pos'[w] = pos[w] + 1,
           page'[w] = page[w], stored' = stored, Archived' = Archived
    PROVE  Extends(SeenBy(w)', SeenBy(w), <<Len(stored) + 1, pos[w]>>, Rec(w))
<1> DEFINE n == Len(stored) + 1
           p == <<n, pos[w]>>
           A == DOMAIN Archived
<1>1. n \in Nat \ {0} /\ \A q \in A : q[1] \in 1..n - 1
  BY ArchivedPlaces
<1>2. p \notin A
  BY <1>1
<1>3. /\ DOMAIN SeenBy(w) = A \cup ({n} \X (1..pos[w] - 1))
      /\ \A q \in DOMAIN SeenBy(w) :
           SeenBy(w)[q] = IF q \in A THEN Archived[q] ELSE page[w][q[2]]
  BY DEF SeenBy
<1>4. /\ DOMAIN SeenBy(w)' = A \cup ({n} \X (1..pos[w]))
      /\ \A q \in A \cup ({n} \X (1..pos[w])) :
           SeenBy(w)'[q] = IF q \in A THEN Archived[q] ELSE page[w][q[2]]
  <2>1. SeenBy(w)' = [q \in A \cup ({n} \X (1..pos[w] + 1 - 1)) |->
                        IF q \in A THEN Archived[q] ELSE page[w][q[2]]]
    BY DEF SeenBy
  <2>2. 1..pos[w] + 1 - 1 = 1..pos[w]
    OBVIOUS
  <2> HIDE DEF n, A
  <2> QED BY <2>1, <2>2
<1>5. 1..pos[w] = (1..pos[w] - 1) \cup {pos[w]}
  OBVIOUS
<1>6. DOMAIN SeenBy(w)' = DOMAIN SeenBy(w) \cup {p}
  BY <1>3, <1>4, <1>5
<1>7. p \notin DOMAIN SeenBy(w)
  BY <1>2, <1>3
<1>8. SeenBy(w)'[p] = Rec(w)
  BY <1>2, <1>4 DEF Rec
<1>9. ASSUME NEW q \in DOMAIN SeenBy(w)
      PROVE  SeenBy(w)'[q] = SeenBy(w)[q] /\ Before(q, p) /\ ~Before(p, q)
  <2>1. SeenBy(w)'[q] = SeenBy(w)[q]
    BY <1>3, <1>4, <1>5
  <2>2. \/ q[1] \in 1..n - 1
        \/ q[1] = n /\ q[2] \in 1..pos[w] - 1
    BY <1>1, <1>3
  <2>3. p[1] = n /\ p[2] = pos[w]
    OBVIOUS
  <2> HIDE DEF n, p
  <2> QED BY <1>1, <2>1, <2>2, <2>3 DEF Before
<1> HIDE DEF p
<1> QED BY <1>6, <1>7, <1>8, <1>9 DEF Extends, p

LEMMA SeenAtEnd ==
    ASSUME StoredKept, StoredKept', NEW w \in Workers, page[w] \in Seq(Record),
           pos[w] = Len(page[w]) + 1,
           stored' = Append(stored, cur[w]), raw' = raw, raw[cur[w]] = page[w]
    PROVE  Archived' = SeenBy(w)
<1> DEFINE n == Len(stored) + 1
           m == Len(page[w])
           places == {n} \X (1..m)
<1>1. n \in Nat \ {0} /\ m \in Nat /\ DOMAIN page[w] = 1..m /\ pos[w] - 1 = m
  BY ArchivedPlaces
<1>2. /\ Len(stored') = n /\ stored'[n] = cur[w]
      /\ \A k \in 1..n - 1 : stored'[k] = stored[k]
  BY DEF StoredKept
<1>3. /\ Archived' = [p \in UNION {{k} \X DOMAIN raw[stored'[k]] : k \in 1..n} |->
                          raw[stored'[p[1]]][p[2]]]
      /\ Archived = [p \in UNION {{k} \X DOMAIN raw[stored[k]] : k \in 1..n - 1} |->
                         raw[stored[p[1]]][p[2]]]
  <2>1. DOMAIN stored' = 1..n /\ DOMAIN stored = 1..n - 1
    BY <1>2, ArchivedPlaces DEF StoredKept
  <2> HIDE DEF n
  <2> QED BY <2>1 DEF Archived
<1> HIDE DEF n, m
<1>4. UNION {{k} \X DOMAIN raw[stored'[k]] : k \in 1..n} = DOMAIN Archived \cup places
  <2>1. 1..n = (1..n - 1) \cup {n}
    BY <1>1
  <2>2. {{k} \X DOMAIN raw[stored'[k]] : k \in 1..n} =
          {{k} \X DOMAIN raw[stored[k]] : k \in 1..n - 1} \cup {places}
    BY <1>1, <1>2, <2>1
  <2>3. DOMAIN Archived = UNION {{k} \X DOMAIN raw[stored[k]] : k \in 1..n - 1}
    BY <1>3
  <2> QED BY <2>2, <2>3
<1>5. ASSUME NEW p \in DOMAIN Archived \cup places
      PROVE  raw[stored'[p[1]]][p[2]] =
                 IF p \in DOMAIN Archived THEN Archived[p] ELSE page[w][p[2]]
  <2>1. p \in DOMAIN Archived => p[1] \in 1..n - 1 /\ Archived[p] = raw[stored[p[1]]][p[2]]
    BY <1>3
  <2> QED BY <1>2, <2>1
<1>6. SeenBy(w) = [p \in DOMAIN Archived \cup places |->
                      IF p \in DOMAIN Archived THEN Archived[p] ELSE page[w][p[2]]]
  BY <1>1 DEF SeenBy, n
<1> HIDE DEF places
<1> QED BY <1>3, <1>4, <1>5, <1>6

(***************************************************************************)
(* The archive of a committed run is final.                                *)
(***************************************************************************)
LEMMA RunsStay ==
    ASSUME RInv, RInv', NEW w \in Workers, Works(w)
    PROVE  Len(runs) \in Nat /\ Len(runs') \in Nat /\ Len(runs) <= Len(runs')
<1>1. runs \in Seq(RunRow) /\ runs' \in Seq(RunRow)
  BY DEF RInv, Shape
<1>2. ASSUME runs' = runs \/ \E row : runs' = [runs EXCEPT ![cur[w]] = row]
      PROVE  Len(runs) <= Len(runs')
  <2>1. DOMAIN runs' = DOMAIN runs
    BY <1>2
  <2> QED BY <1>1, <2>1
<1>3. CASE Start(w)
  BY <1>1, <1>3 DEF Start
<1>4. CASE ~Start(w)
  <2>1. runs' = runs \/ \E row : runs' = [runs EXCEPT ![cur[w]] = row]
    BY <1>4 DEF Works, Advance, List, Archive, ParseFails, Parse, Skip, FindBuilder,
       FindProject, CommitPage, CloseRun, FindTag, CommitTags, Flush, Collide,
       DeadlockVictim, FetchFails, Fail, Crash, Rollback, Close, tables
  <2> QED BY <1>2, <2>1
<1> QED BY <1>1, <1>3, <1>4

LEMMA StoredStep ==
    ASSUME RInv, RInv', TShape, StoredKept, NEW w \in Workers, Works(w)
    PROVE  /\ StoredKept'
           /\ ~CommitPage(w) => stored' = stored /\ Archived' = Archived
<1>1. /\ Shape /\ Session(w) /\ Apart(w)
      /\ Len(runs) \in Nat /\ Len(runs') \in Nat /\ Len(runs) <= Len(runs')
  BY StepApart, RunsStay DEF RInv
<1>2. Len(stored) \in Nat /\ DOMAIN stored = 1..Len(stored) /\ stored \in Seq(Nat)
  BY DEF StoredKept
<1>3. ASSUME stored' = stored,
             \A k \in 1..Len(stored) : /\ stored[k] \in DOMAIN raw'
                                       /\ raw'[stored[k]] = raw[stored[k]],
             \A k \in 1..Len(stored) : cur'[w] = stored[k] =>
                 cur[w] = stored[k] /\ pc'[w] = "close"
      PROVE  StoredKept' /\ stored' = stored /\ Archived' = Archived
  <2>1. Archived' = Archived
    BY <1>2, <1>3, ArchivedStays
  <2>2. ASSUME NEW k \in 1..Len(stored)
        PROVE  /\ stored[k] \in 1..Len(runs')
               /\ stored[k] \in DOMAIN raw'
               /\ raw'[stored[k]] \in Seq(Record)
               /\ \A v \in Workers : cur'[v] = stored[k] => pc'[v] = "close"
    <3>1. stored[k] \in 1..Len(runs')
      BY <1>1 DEF StoredKept
    <3>2. \A v \in Workers : v # w => (cur'[v] = stored[k] => pc'[v] = "close")
      BY <1>1 DEF StoredKept, Apart
    <3> QED BY <1>3, <3>1, <3>2 DEF StoredKept
  <2> QED BY <1>2, <1>3, <2>1, <2>2 DEF StoredKept
<1>4. CASE Start(w)
  <2>1. cur'[w] = Len(runs) + 1 /\ UNCHANGED <<stored, raw>>
    BY <1>1, <1>4 DEF Start, Shape
  <2>2. \A k \in 1..Len(stored) : stored[k] # Len(runs) + 1
    BY <1>1 DEF StoredKept
  <2> QED BY <1>3, <1>4, <2>1, <2>2 DEF StoredKept, Start, CommitPage
<1>5. CASE Archive(w)
  <2>1. /\ UNCHANGED <<stored, cur>> /\ pc[w] = "fetch"
        /\ \A r \in DOMAIN raw : r # cur[w] => r \in DOMAIN raw' /\ raw'[r] = raw[r]
    BY <1>1, <1>5 DEF Archive, Override, history
  <2>2. \A k \in 1..Len(stored) : stored[k] # cur[w]
    BY <2>1 DEF StoredKept
  <2> QED BY <1>3, <2>1, <2>2 DEF StoredKept
<1>6. CASE List(w) \/ Parse(w) \/ Skip(w) \/ FindBuilder(w) \/ FindProject(w)
           \/ FindTag(w) \/ Flush(w)
  <2>1. UNCHANGED <<stored, raw, cur>> /\ pc[w] # "close" /\ (cur[w] = 0 \/ pc[w] # "close")
    BY <1>6 DEF List, Parse, Skip, AtRecord, FindBuilder, FindProject, FindTag, Flush,
                tables, history
  <2>2. \A k \in 1..Len(stored) : stored[k] # cur[w]
    BY <2>1 DEF StoredKept
  <2> QED BY <1>3, <2>1, <2>2 DEF StoredKept
<1>7. CASE CommitPage(w)
  <2>1. /\ pc[w] = "record" /\ pc'[w] = "close" /\ UNCHANGED <<runs, raw, cur>>
        /\ stored' = Append(stored, cur[w])
    BY <1>1, <1>7 DEF CommitPage, Go, Shape
  <2>2. /\ cur[w] \in 1..Len(runs) /\ cur[w] \in DOMAIN raw /\ raw[cur[w]] \in Seq(Record)
    BY <1>1, <2>1 DEF Session, RunOpen, PageKept, InRun
  <2>3. \A v \in Workers : cur[v] = cur[w] => v = w
    BY <2>2 DEF RInv, Distinct
  <2>4. /\ Len(stored') = Len(stored) + 1 /\ stored'[Len(stored) + 1] = cur[w]
        /\ \A k \in 1..Len(stored) : stored'[k] = stored[k]
        /\ stored' \in Seq(Nat)
    BY <1>1, <1>2, <2>1, <2>2
  <2>5. ASSUME NEW k \in 1..Len(stored')
        PROVE  /\ stored'[k] \in 1..Len(runs)
               /\ stored'[k] \in DOMAIN raw
               /\ raw[stored'[k]] \in Seq(Record)
               /\ \A v \in Workers : cur'[v] = stored'[k] => pc'[v] = "close"
    <3>1. CASE k = Len(stored) + 1
      BY <2>1, <2>2, <2>3, <2>4, <3>1
    <3>2. CASE k \in 1..Len(stored)
      BY <1>1, <2>1, <2>4, <3>2 DEF StoredKept, Apart
    <3> QED BY <1>2, <2>4, <3>1, <3>2
  <2> QED BY <1>7, <2>1, <2>4, <2>5 DEF StoredKept
<1>8. CASE GivesUp(w)
  <2>1. cur'[w] = 0 /\ UNCHANGED <<stored, raw>>
    BY <1>1, <1>8, LeaveApart DEF GivesUp
  <2> QED BY <1>3, <2>1 DEF StoredKept
<1>9. CASE CommitTags(w)
  <2>1. cur'[w] = 0 /\ UNCHANGED <<stored, raw>>
    BY <1>1, <1>9, LeaveApart DEF CommitTags, history
  <2> QED BY <1>3, <2>1 DEF StoredKept
<1> QED BY <1>4, <1>5, <1>6, <1>7, <1>8, <1>9, StepCases DEF Goes

(***************************************************************************)
(* Only a run changes the projects, and while two runs have never          *)
(* overlapped it is the only one at work.                                  *)
(***************************************************************************)
LEMMA ProjectRowsKept ==
    ASSUME RInv, TInv, NEW w \in Workers, Works(w), ~CommitPage(w), NEW key,
           key[1] = "project"
    PROVE  /\ key \in DOMAIN rows' <=> key \in DOMAIN rows
           /\ key \in DOMAIN rows => rows'[key] = rows[key]
<1>1. CASE CommitTags(w)
  <2>1. /\ DOMAIN rows' = DOMAIN staged[w] \cup DOMAIN rows
        /\ \A k \in DOMAIN rows \ DOMAIN staged[w] : rows'[k] = rows[k]
    BY <1>1, PublishRows DEF CommitTags, RInv, Shape
  <2>2. key \notin DOMAIN staged[w]
    BY <1>1 DEF CommitTags, RInv, Session, RunOpen, TInv, OwnKind, AtTags, TagKey
  <2> QED BY <2>1, <2>2
<1>2. CASE ~CommitTags(w)
  <2>1. rows' = rows
    BY <1>2, StepCases DEF Start, List, Goes, Archive, Parse, Skip, FindBuilder, FindProject,
                           FindTag, Flush, GivesUp, tables
  <2> QED BY <2>1
<1> QED BY <1>1, <1>2

LEMMA SoloStep ==
    ASSUME RInv, TInv, NEW w \in Workers, Works(w), "rera" \notin overlapped', Solo
    PROVE  Solo'
<1>1. Shape /\ TShape /\ Apart(w) /\ \A v \in Workers : RunOpen(v)
  BY StepApart DEF RInv, TInv, Session
<1>2. CASE Start(w)
  <2>1. \A v \in Workers \ {w} : cur[v] = 0
    BY <1>1, <1>2 DEF Start, Begin, Job, RunOpen
  <2> QED BY <1>1, <2>1 DEF Solo, Apart
<1>3. CASE ~Start(w)
  <2>1. cur'[w] \in {cur[w], 0}
    <3>1. CASE Leave(w)
      BY <1>1, <3>1, LeaveApart
    <3>2. CASE ~Leave(w)
      BY <1>3, <3>2, StepCases DEF List, Goes, Archive, Parse, Skip, FindBuilder,
         FindProject, CommitPage, FindTag, Flush, CommitTags, GivesUp
    <3> QED BY <3>1, <3>2
  <2> QED BY <1>1, <2>1 DEF Solo, Apart
<1> QED BY <1>2, <1>3

LEMMA OthersReplay ==
    ASSUME RInv, TInv, NEW w \in Workers, Works(w), Solo,
           stored' = stored, Archived' = Archived,
           NEW v \in Workers, v # w, RunReplays(v)
    PROVE  RunReplays(v)'
<1>1. Apart(w) /\ Session(v)
  BY StepApart DEF RInv, TInv
<1>2. /\ pc'[v] = pc[v] /\ cur'[v] = cur[v] /\ page'[v] = page[v] /\ pos'[v] = pos[v]
      /\ view'[v] = view[v] /\ want'[v] = want[v] /\ staged'[v] = staged[v]
  BY <1>1 DEF Apart
<1> SUFFICES ASSUME InRun(v)
             PROVE  RunReplays(v)'
  BY <1>2 DEF RunReplays, InRun
<1>3. ~CommitPage(w)
  BY <1>1, <1>2 DEF CommitPage, Solo, InRun, Session, RunOpen, RInv
<1>4. SeenBy(v)' = SeenBy(v) /\ Rec(v)' = Rec(v)
  BY <1>2 DEF SeenBy, Rec
<1>5. ASSUME NEW key, key[1] = "project"
      PROVE  /\ key \in DOMAIN Table(v)' <=> key \in DOMAIN Table(v)
             /\ key \in DOMAIN Table(v) => Table(v)'[key] = Table(v)[key]
             /\ Mine(v, key)' = Mine(v, key)
  <2>1. /\ key \in DOMAIN rows' <=> key \in DOMAIN rows
        /\ key \in DOMAIN rows => rows'[key] = rows[key]
    BY <1>3, <1>5, ProjectRowsKept
  <2> QED BY <1>2, <2>1 DEF Table, Mine, Fetched, Override
<1>6. Replays(SeenBy(v), Table(v)')
  <2>1. Replays(SeenBy(v), Table(v))
    BY DEF RunReplays
  <2> QED BY <1>5, <2>1, SameReplay, KeysDiffer
<1>7. pc[v] = "flush" /\ want[v].key[1] = "project" =>
        /\ view[v] = Mine(v, want[v].key)'
        /\ want[v].row = Upserted(Rec(v), Mine(v, want[v].key)')
  <2> SUFFICES ASSUME pc[v] = "flush", want[v].key[1] = "project"
               PROVE  /\ view[v] = Mine(v, want[v].key)'
                      /\ want[v].row = Upserted(Rec(v), Mine(v, want[v].key)')
    OBVIOUS
  <2>1. Mine(v, want[v].key)' = Mine(v, want[v].key)
    <3> DEFINE key == want[v].key
    <3>1. key' = key /\ key[1] = "project"
      BY <1>2
    <3> HIDE DEF key
    <3>2. Mine(v, key)' = Mine(v, key)
      <4>1. /\ key \in DOMAIN rows' <=> key \in DOMAIN rows
            /\ key \in DOMAIN rows => rows'[key] = rows[key]
        BY <1>3, <3>1, ProjectRowsKept
      <4> QED BY <1>2, <3>1, <4>1 DEF Mine, Fetched, Override
    <3> QED BY <3>2 DEF key
  <2> QED BY <2>1 DEF RunReplays
<1> QED BY <1>2, <1>4, <1>6, <1>7 DEF RunReplays

(***************************************************************************)
(* The session's own records: skipping one that has no number, or flushing *)
(* the project of one that has, is the replay of one record more.          *)
(***************************************************************************)
LEMMA TableRows ==
    ASSUME RefInv, NEW w \in Workers
    PROVE  /\ \A reg \in Regs : ProjectKey(reg) \in DOMAIN Table(w) =>
                Table(w)[ProjectKey(reg)] \in ProjectRow /\ Table(w)[ProjectKey(reg)] # Null
           /\ \A key : Mine(w, key) = Fetched(Table(w), key)
<1>1. \A reg \in Regs : ProjectKey(reg) \in DOMAIN Table(w) =>
        Table(w)[ProjectKey(reg)] \in ProjectRow
  BY DEF RefInv, Refer, StagedRefers, RowsRefer, Refers, Table, Override
<1> QED BY <1>1, RegistryAssumption DEF Mine, Table

LEMMA ParseReplays ==
    ASSUME RInv, TInv, NEW w \in Workers, Parse(w), Archived' = Archived,
           Replays(Archived, rows)
    PROVE  RunReplays(w)'
<1>1. /\ pos'[w] = 1 /\ page[w] \in Seq(Record) /\ pc'[w] = "record"
      /\ UNCHANGED <<rows, page, staged>> /\ DOMAIN staged[w] = {}
  BY RegistryAssumption DEF RInv, Shape, Session, RunOpen, PageKept, TInv, OwnKind, Parse,
                            Unparsable, Go, tables
<1>2. SeenBy(w)' = Archived
  <2>1. {(Len(stored) + 1)'} \X (1..pos'[w] - 1) = {}
    BY <1>1
  <2>2. SeenBy(w)' = [p \in DOMAIN Archived |-> Archived[p]]
    BY <2>1 DEF SeenBy
  <2>3. Archived = [p \in DOMAIN Archived |-> Archived[p]]
    BY DEF Archived
  <2> QED BY <2>2, <2>3
<1>3. Replays(Archived, Table(w)')
  <2>1. \A key : /\ key \in DOMAIN Table(w)' <=> key \in DOMAIN rows
                 /\ key \in DOMAIN rows => Table(w)'[key] = rows[key]
    BY <1>1 DEF Table, Override
  <2> QED BY <2>1, SameReplay
<1>4. pos'[w] <= Len(page'[w]) + 1
  BY <1>1
<1> QED BY <1>1, <1>2, <1>3, <1>4 DEF RunReplays

LEMMA SkipReplays ==
    ASSUME RInv, RefInv, StoredKept, NEW w \in Workers, Skip(w),
           stored' = stored, Archived' = Archived, RunReplays(w)
    PROVE  RunReplays(w)'
<1> DEFINE p == <<Len(stored) + 1, pos[w]>>
<1>1. /\ Shape /\ pos[w] \in Nat \ {0} /\ pos[w] <= Len(page[w]) /\ Len(page[w]) \in Nat
      /\ pos'[w] = pos[w] + 1 /\ UNCHANGED <<rows, page, staged, pc>>
      /\ Rec(w).reg = Null /\ pc[w] = "record"
  BY DEF RInv, Shape, Session, AtPos, PageKept, InRun, Skip, AtRecord, tables
<1>2. Extends(SeenBy(w)', SeenBy(w), p, Rec(w))
  BY <1>1, SeenNext
<1>3. Replays(SeenBy(w), Table(w)) /\ Table(w)' = Table(w)
  BY <1>1 DEF RunReplays, InRun, Table
<1>4. \A reg \in Regs : ProjectKey(reg) \in DOMAIN Table(w) =>
        Table(w)[ProjectKey(reg)] # Null
  BY TableRows
<1>5. \A reg \in Regs : Rec(w).reg # reg
  BY <1>1, RegistryAssumption
<1> HIDE DEF p
<1>6. Replays(SeenBy(w)', Table(w))
  BY <1>2, <1>3, <1>4, <1>5, ReplayExtended
<1> QED BY <1>1, <1>3, <1>6 DEF RunReplays

LEMMA FindReplays ==
    ASSUME RInv, RefInv, NEW w \in Workers, FindBuilder(w) \/ FindProject(w),
           stored' = stored, Archived' = Archived, RunReplays(w)
    PROVE  RunReplays(w)'
<1>1. /\ Shape /\ pos[w] \in 1..Len(page[w]) /\ Len(page[w]) \in Nat /\ InRun(w)
      /\ UNCHANGED <<rows, page, pos, staged>>
  BY DEF RInv, Shape, Session, AtPos, PageKept, InRun, FindBuilder, AtRecord, FindProject,
         tables
<1>2. /\ SeenBy(w)' = SeenBy(w) /\ Table(w)' = Table(w) /\ Rec(w)' = Rec(w)
      /\ \A key : Mine(w, key)' = Mine(w, key)
  BY <1>1 DEF SeenBy, Table, Rec, Mine
<1>3. CASE FindBuilder(w)
  <2>1. pc'[w] = "flush" => want'[w].key[1] = "builder"
    BY <1>1, <1>3 DEF FindBuilder, Seek, Go, Shape
  <2> QED BY <1>1, <1>2, <2>1 DEF RunReplays
<1>4. CASE FindProject(w)
  <2> DEFINE key == ProjectKey(Rec(w).reg)
  <2>1. /\ view'[w] = Mine(w, key)
        /\ want'[w] = [key |-> key, row |-> Upserted(Rec(w), Mine(w, key))]
    BY <1>1, <1>4 DEF FindProject, Seek, Shape, ProjectKey
  <2> HIDE DEF key
  <2>2. /\ want'[w].key = key
        /\ want'[w].row = Upserted(Rec(w), Mine(w, key))
    BY <2>1
  <2>3. Mine(w, want[w].key)' = Mine(w, key)
    <3>1. Mine(w, want[w].key)' = Fetched(Override(staged'[w], rows'), want'[w].key)
      BY DEF Mine
    <3>2. Mine(w, key) = Fetched(Override(staged[w], rows), key)
      BY DEF Mine
    <3> QED BY <1>1, <2>2, <3>1, <3>2
  <2> QED BY <1>1, <1>2, <2>1, <2>2, <2>3 DEF RunReplays
<1> QED BY <1>3, <1>4

LEMMA FlushedProject ==
    ASSUME RInv, RefInv, NEW w \in Workers, pc[w] = "flush", InRun(w), RunReplays(w),
           want[w].key[1] = "project"
    PROVE  /\ Rec(w).reg \in Regs
           /\ want[w].key = ProjectKey(Rec(w).reg)
           /\ Flushed(w) = Upserted(Rec(w), Fetched(Table(w), want[w].key))
<1> DEFINE key == want[w].key
           new == want[w].row
           old == Mine(w, key)
<1>1. Rec(w) \in Record /\ Rec(w).reg # Null /\ key = ProjectKey(Rec(w).reg)
  <2>1. page[w] \in Seq(Record) /\ pos[w] \in 1..Len(page[w]) /\ Rec(w).reg # Null
    BY DEF RInv, Session, PageKept, AtPos
  <2>2. Rec(w) \in Record
    BY <2>1 DEF Rec
  <2> QED BY <2>1, <2>2 DEF RInv, Session, Wanted, InRun
<1>2. Rec(w).reg \in Regs
  BY <1>1 DEF Record
<1>3. view[w] = old /\ new = Upserted(Rec(w), old) /\ old = Fetched(Table(w), key)
  BY TableRows DEF RunReplays
<1>4. CASE old = Null
  BY <1>1, <1>2, <1>3, <1>4 DEF Flushed
<1>5. CASE old # Null
  <2>1. old \in ProjectRow
    BY <1>1, <1>2, <1>5, MineRefers DEF Refers
  <2>2. Flushed(w) = [c \in DOMAIN old |-> IF new[c] # old[c] THEN new[c] ELSE old[c]]
    BY <1>3, <1>5 DEF Flushed, WriteColumns
  <2>3. DOMAIN old = {"builder", "name", "raw"}
    BY <2>1 DEF ProjectRow
  <2>4. new = [c \in {"builder", "name", "raw"} |-> new[c]]
    <3> HIDE DEF old, key
    <3> QED BY <1>3 DEF Upserted
  <2>5. Flushed(w) = [c \in {"builder", "name", "raw"} |-> new[c]]
    <3> HIDE DEF old, new, key
    <3> QED BY <2>2, <2>3
  <2> QED BY <1>1, <1>2, <1>3, <2>4, <2>5
<1> QED BY <1>4, <1>5

LEMMA FlushReplays ==
    ASSUME RInv, TShape, RefInv, StoredKept, NEW w \in Workers, Flush(w),
           stored' = stored, Archived' = Archived, RunReplays(w)
    PROVE  RunReplays(w)'
<1> DEFINE key == want[w].key
           p == <<Len(stored) + 1, pos[w]>>
<1> SUFFICES ASSUME cur[w] # 0
             PROVE  RunReplays(w)'
  <2>1. cur[w] = 0 => pc'[w] = "tag" /\ cur'[w] = 0
    BY FlushEffect DEF RInv, Session, Wanted, Flush
  <2> QED BY <2>1 DEF RunReplays, InRun
<1>1. /\ pc[w] = "flush" /\ UNCHANGED <<rows, page>>
      /\ DOMAIN staged'[w] = {key} \cup DOMAIN staged[w]
      /\ staged'[w][key] = Flushed(w)
      /\ \A k \in DOMAIN staged[w] : k # key => staged'[w][k] = staged[w][k]
      /\ key[1] = "builder" => pc'[w] = "project" /\ pos'[w] = pos[w]
      /\ key[1] = "project" => pc'[w] = "record" /\ pos'[w] = pos[w] + 1
  BY FlushEffect DEF tables
<1>2. /\ InRun(w) /\ pos[w] \in 1..Len(page[w]) /\ Len(page[w]) \in Nat
      /\ key[1] \in {"builder", "project"}
  BY <1>1, KeysDiffer DEF RInv, Session, AtPos, PageKept, Wanted, InRun
<1>3. Replays(SeenBy(w), Table(w))
  BY <1>2 DEF RunReplays
<1> HIDE DEF key, p
<1>4. /\ DOMAIN Table(w)' = {key} \cup DOMAIN Table(w)
      /\ Table(w)'[key] = Flushed(w)
      /\ \A k \in DOMAIN Table(w) : k # key => Table(w)'[k] = Table(w)[k]
  BY <1>1 DEF Table, Override
<1>5. CASE key[1] = "builder"
  <2>1. \A reg : ProjectKey(reg) # key
    BY <1>5, KeysDiffer
  <2>2. Replays(SeenBy(w), Table(w)')
    BY <1>3, <1>4, <2>1, SameReplay
  <2>3. SeenBy(w)' = SeenBy(w)
    BY <1>1, <1>5 DEF SeenBy
  <2> QED BY <1>1, <1>2, <1>5, <2>2, <2>3 DEF RunReplays
<1>6. CASE key[1] = "project"
  <2>1. /\ Rec(w).reg \in Regs /\ key = ProjectKey(Rec(w).reg)
        /\ Flushed(w) = Upserted(Rec(w), Fetched(Table(w), key))
    BY <1>1, <1>2, <1>6, FlushedProject DEF key
  <2>2. Extends(SeenBy(w)', SeenBy(w), p, Rec(w))
    BY <1>1, <1>2, <1>6, SeenNext DEF p
  <2>3. \A reg \in Regs : ProjectKey(reg) \in DOMAIN Table(w) =>
          Table(w)[ProjectKey(reg)] # Null
    BY TableRows
  <2>4. \A reg \in Regs :
          LET k == ProjectKey(reg)
          IN IF Rec(w).reg = reg
             THEN /\ k \in DOMAIN Table(w)'
                  /\ Table(w)'[k] = Upserted(Rec(w), Fetched(Table(w), k))
             ELSE /\ k \in DOMAIN Table(w)' <=> k \in DOMAIN Table(w)
                  /\ k \in DOMAIN Table(w) => Table(w)'[k] = Table(w)[k]
    BY <1>4, <2>1, KeysDiffer
  <2>5. Replays(SeenBy(w)', Table(w)')
    BY <1>3, <2>2, <2>3, <2>4, ReplayExtended
  <2> QED BY <1>1, <1>2, <1>6, <2>5 DEF RunReplays
<1> QED BY <1>2, <1>5, <1>6

LEMMA OwnReplays ==
    ASSUME RInv, TInv, RefInv, StoredKept, NEW w \in Workers, Works(w), ~CommitPage(w),
           stored' = stored, Archived' = Archived, Replays(Archived, rows), RunReplays(w)
    PROVE  RunReplays(w)'
<1>1. Shape /\ TShape /\ RunOpen(w)
  BY DEF RInv, TInv, Session
<1>2. CASE Start(w) \/ List(w) \/ Archive(w)
  <2>1. pc'[w] \in {"fetch", "tag", "parse"}
    BY <1>1, <1>2 DEF Start, List, Archive, Go, Shape
  <2> QED BY <2>1 DEF RunReplays, InRun
<1>3. CASE FindTag(w)
  <2>1. cur'[w] = 0 /\ pc'[w] = "flush"
    BY <1>1, <1>3 DEF FindTag, Seek, Go, Shape, RunOpen
  <2> QED BY <2>1 DEF RunReplays, InRun
<1>4. CASE Leave(w)
  <2>1. pc'[w] = "idle"
    BY <1>1, <1>4, LeaveApart
  <2> QED BY <2>1 DEF RunReplays, InRun
<1> QED BY <1>1, <1>2, <1>3, <1>4, ParseReplays, SkipReplays, FindReplays, FlushReplays,
           StepCases DEF Goes, CommitTags, GivesUp

(***************************************************************************)
(* A commit archives what its session has seen.                            *)
(***************************************************************************)
LEMMA RowsReplay ==
    ASSUME RInv, TInv, StoredKept, StoredKept', NEW w \in Workers, Works(w),
           ~CommitPage(w) => Archived' = Archived,
           Replays(Archived, rows), RunReplays(w)
    PROVE  Replays(Archived, rows)'
<1>1. CASE CommitPage(w)
  <2>1. /\ InRun(w) /\ page[w] \in Seq(Record) /\ raw[cur[w]] = page[w] /\ raw' = raw
        /\ pos[w] \in Nat /\ pos[w] > Len(page[w]) /\ stored' = Append(stored, cur[w])
    BY <1>1 DEF CommitPage, RInv, Session, PageKept, AtPos, InRun
  <2>2. pos[w] = Len(page[w]) + 1 /\ Replays(SeenBy(w), Table(w))
    BY <2>1 DEF RunReplays
  <2>3. Archived' = SeenBy(w)
    BY <2>1, <2>2, SeenAtEnd
  <2>4. rows' = Table(w)
    BY <1>1 DEF CommitPage, Publish, Table
  <2> QED BY <2>2, <2>3, <2>4
<1>2. CASE ~CommitPage(w)
  <2>1. \A reg \in Regs : LET key == ProjectKey(reg)
                          IN /\ key \in DOMAIN rows' <=> key \in DOMAIN rows
                             /\ key \in DOMAIN rows => rows'[key] = rows[key]
    BY <1>2, ProjectRowsKept, KeysDiffer
  <2> QED BY <1>2, <2>1, SameReplay
<1> QED BY <1>1, <1>2

LEMMA CommitReplays ==
    ASSUME RInv, TInv, NEW w \in Workers, CommitPage(w), Solo, NEW v \in Workers
    PROVE  RunReplays(v)'
<1>1. Shape /\ TShape /\ Apart(w) /\ RunOpen(w) /\ RunOpen(v)
  BY StepApart DEF RInv, TInv, Session, Works, Advance
<1>2. CASE v = w
  BY <1>1, <1>2 DEF CommitPage, Go, Shape, RunReplays, InRun
<1>3. CASE v # w
  <2>1. cur'[v] = 0 /\ pc'[v] = pc[v] /\ pc[v] \notin {"record", "project"}
    BY <1>1, <1>3 DEF CommitPage, Solo, RunOpen, Apart
  <2> QED BY <2>1 DEF RunReplays, InRun
<1> QED BY <1>2, <1>3

LEMMA ReplayStep == RInv /\ RInv' /\ TInv /\ RefInv /\ ReplayInv /\ [Next]_vars => ReplayInv'
<1> SUFFICES ASSUME RInv, RInv', TInv, RefInv, ReplayInv, [Next]_vars PROVE ReplayInv'
  OBVIOUS
<1>1. ASSUME NEW w \in Workers, Works(w) PROVE ReplayInv'
  <2>1. StoredKept' /\ (~CommitPage(w) => stored' = stored /\ Archived' = Archived)
    BY <1>1, StoredStep DEF ReplayInv, TInv
  <2>2. overlapped \subseteq overlapped'
    BY <1>1, StepCases DEF Start, List, Begin, Goes, Archive, Parse, Skip, FindBuilder,
       FindProject, FindTag, Flush, CommitPage, CommitTags, GivesUp, history
  <2>3. ASSUME "rera" \notin overlapped'
        PROVE  Solo' /\ Replays(Archived, rows)' /\ \A v \in Workers : RunReplays(v)'
    <3>1. /\ StoredKept /\ Solo /\ Replays(Archived, rows)
          /\ \A v \in Workers : RunReplays(v)
      BY <2>2, <2>3 DEF ReplayInv
    <3>2. Solo'
      BY <1>1, <2>3, <3>1, SoloStep
    <3>3. Replays(Archived, rows)'
      BY <1>1, <2>1, <3>1, RowsReplay
    <3>4. ASSUME NEW v \in Workers PROVE RunReplays(v)'
      <4>1. CASE CommitPage(w)
        BY <3>1, <4>1, CommitReplays
      <4>2. CASE ~CommitPage(w) /\ v = w
        BY <1>1, <2>1, <3>1, <4>2, OwnReplays
      <4>3. CASE ~CommitPage(w) /\ v # w
        BY <1>1, <2>1, <3>1, <4>3, OthersReplay
      <4> QED BY <4>1, <4>2, <4>3
    <3> QED BY <3>2, <3>3, <3>4
  <2> QED BY <2>1, <2>3 DEF ReplayInv
<1>2. CASE UNCHANGED <<tables, session, stored, overlapped>>
  <2>1. Archived' = Archived
    BY <1>2 DEF Archived, tables
  <2>2. \A w \in Workers : /\ SeenBy(w)' = SeenBy(w) /\ Table(w)' = Table(w)
                           /\ Rec(w)' = Rec(w) /\ InRun(w)' = InRun(w)
                           /\ Mine(w, want[w].key)' = Mine(w, want[w].key)
    BY <1>2, <2>1 DEF SeenBy, Table, Rec, InRun, Mine, tables, session
  <2>3. StoredKept' /\ (Solo => Solo')
    BY <1>2 DEF ReplayInv, StoredKept, Solo, tables, session
  <2>4. \A w \in Workers : RunReplays(w) => RunReplays(w)'
    BY <1>2, <2>2 DEF RunReplays, tables, session
  <2> QED BY <1>2, <2>1, <2>3, <2>4 DEF ReplayInv, tables
<1> QED BY <1>1, <1>2 DEF Next, Works, Change, vars, history

(***************************************************************************)
(* As long as no two runs have overlapped, the registry is what replaying  *)
(* the archived pages of the committed runs gives: the last record of a    *)
(* number, with the last promoter and the last name given for it.          *)
(***************************************************************************)
THEOREM RegistryIsReplay == Spec => []RegistryReplays
<1>1. Init => ReplayInv
  <2> SUFFICES ASSUME Init PROVE ReplayInv
    OBVIOUS
  <2>1. /\ stored = <<>> /\ DOMAIN rows = {}
        /\ \A w \in Workers : cur[w] = 0 /\ pc[w] = "idle"
    BY DEF Init, Nothing
  <2>2. StoredKept
    BY <2>1 DEF StoredKept
  <2>3. DOMAIN Archived = {}
    BY <2>1, <2>2, ArchivedPlaces
  <2>4. Replays(Archived, rows)
    BY <2>1, <2>3 DEF Replays, Ordered, Of
  <2> QED BY <2>1, <2>2, <2>4 DEF ReplayInv, Solo, RunReplays, InRun
<1>2. ReplayInv => RegistryReplays
  BY DEF ReplayInv, Replays, RegistryReplays, ReplayHolds, Projects, RowFor, ProjectKey
<1>3. Spec => []ReplayInv
  BY <1>1, ReplayStep, RInvHolds, TInvHolds, RefInvHolds, PTL DEF Spec
<1> QED BY <1>2, <1>3, PTL
===============================================================================
