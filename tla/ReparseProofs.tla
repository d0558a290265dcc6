---------------------------- MODULE ReparseProofs -----------------------------
(***************************************************************************)
(* Theorems about Reparse, for any archive, any parsers and any bounds,    *)
(* and any interleaving of a run with a replay: the replay leaves the      *)
(* prices that the runs observed, and no later write takes back a posting  *)
(* date that it recovered; and when none of them overlapped, every geohash *)
(* is that of the position beside it, and a replay leaves what a fresh run *)
(* over the archive would.                                                 *)
(***************************************************************************)
EXTENDS Reparse, FiniteSetTheorems, WellFoundedInduction, TLAPS

Fields == {"title", "lat", "lon", "geo", "locality", "posted", "price", "parser"}

IsRows(table) == \A id \in DOMAIN table : DOMAIN table[id] = Fields

-------------------------------------------------------------------------------
(***************************************************************************)
(* The run: what it has staged are rows; the row it is about to write is   *)
(* one it read if there is one, and a new one if there is none.            *)
(***************************************************************************)
Held    == Override(run.staged, rows)
Writing == Reading(Head(run.todo)).id

RunShape ==
    /\ run = Idle \/ run.at \in {"read", "write"}
    /\ run # Idle => IsRows(run.staged)
    /\ run.at = "write" => /\ DOMAIN run.want = Fields
                           /\ Writing \in DOMAIN run.view <=> Writing \in DOMAIN Held
                           /\ Writing \in DOMAIN run.view =>
                                DOMAIN run.view[Writing] = Fields

(***************************************************************************)
(* The replay: it corrects the rows that it read, and never their price.   *)
(***************************************************************************)
ReplayShape ==
    /\ replay = Idle \/ replay.at \in {"select", "replay"}
    /\ replay # Idle => IsRows(replay.view) /\ DOMAIN replay.view \subseteq DOMAIN rows
    /\ replay.at = "replay" =>
         /\ DOMAIN replay = {"at", "view", "known", "want", "left", "read"}
         /\ IsRows(replay.want) /\ DOMAIN replay.want = DOMAIN replay.view
         /\ \A id \in DOMAIN replay.want :
               replay.want[id].price = replay.view[id].price

Shape == IsRows(rows) /\ DOMAIN observed = DOMAIN rows /\ RunShape /\ ReplayShape

(***************************************************************************)
(* A posting date is never taken back: not by what a session wants to      *)
(* write in the place of what it read, nor by what it has staged.          *)
(***************************************************************************)
Keeps(old, new) == old.posted # Null => new.posted # Null

DatesKept ==
    /\ last.dated \subseteq DOMAIN rows
    /\ \A id \in last.dated : rows[id].posted # Null
    /\ run # Idle => \A id \in DOMAIN run.staged \cap DOMAIN rows :
                        Keeps(rows[id], run.staged[id])
    /\ run.at = "write" /\ Writing \in DOMAIN run.view =>
         Keeps(run.view[Writing], run.want)
    /\ replay # Idle => \A id \in DOMAIN replay.view : Keeps(replay.view[id], rows[id])
    /\ replay.at = "replay" =>
         \A id \in DOMAIN replay.view : Keeps(replay.view[id], replay.want[id])

(***************************************************************************)
(* As long as a run and a replay never overlapped, what each has read is   *)
(* what is stored, and what it wants to write is whole.                    *)
(***************************************************************************)
AllWhole(table) == \A id \in DOMAIN table : Whole(table[id])

Undisturbed ==
    /\ run = Idle \/ replay = Idle
    /\ AllWhole(rows)
    /\ run # Idle => AllWhole(run.staged)
    /\ run.at = "write" => /\ Whole(run.want)
                           /\ Writing \in DOMAIN run.view => run.view[Writing] = Held[Writing]
    /\ replay # Idle => replay.view = rows
    /\ replay.at = "replay" => AllWhole(replay.want)

Inv == /\ Shape
       /\ PriceIsLastObserved
       /\ DatesKept
       /\ overlapped \in BOOLEAN
       /\ ~overlapped => Undisturbed

-------------------------------------------------------------------------------
LEMMA InitInv == Init => Inv
<1> SUFFICES ASSUME Init PROVE Inv
  OBVIOUS
<1>1. /\ DOMAIN rows = {} /\ DOMAIN observed = {} /\ last.dated = {} /\ overlapped = FALSE
      /\ run = Idle /\ replay = Idle /\ run.at = "idle" /\ replay.at = "idle"
  BY DEF Init, Empty, Idle
<1> QED BY <1>1 DEF Inv, Shape, RunShape, ReplayShape, IsRows, PriceIsLastObserved,
                    DatesKept, Undisturbed, AllWhole

LEMMA FrameKeeps ==
    ASSUME Inv, UNCHANGED <<rows, run, replay, observed, overlapped, last, parser>>
    PROVE  Inv'
BY DEF Inv, Shape, RunShape, ReplayShape, IsRows, PriceIsLastObserved, DatesKept, Keeps,
       Undisturbed, AllWhole, Whole, Encode, Held, Writing, Reading, Override

LEMMA DeployKeeps == ASSUME Inv, Deploy PROVE Inv'
<1>1. /\ run' = Idle /\ run'.at # "write" /\ replay' = Idle /\ replay'.at # "replay"
      /\ UNCHANGED <<rows, run, replay, observed, overlapped, last>>
  BY DEF Deploy, Idle
<1>2. Shape'
  BY <1>1 DEF Inv, Shape, RunShape, ReplayShape, IsRows
<1>3. PriceIsLastObserved' /\ DatesKept'
  BY <1>1 DEF Inv, PriceIsLastObserved, DatesKept, Keeps
<1>4. ~overlapped => Undisturbed'
  BY <1>1 DEF Inv, Undisturbed, AllWhole, Whole, Encode
<1> QED BY <1>1, <1>2, <1>3, <1>4 DEF Inv

(***************************************************************************)
(* The steps that end a session without writing.                           *)
(***************************************************************************)
LEMMA RunFailsKeeps == ASSUME Inv, RunFails PROVE Inv'
<1> USE DEF RunFails
<1>1. run' = Idle /\ UNCHANGED <<rows, replay, observed, overlapped, last, parser>>
  OBVIOUS
<1>2. run'.at # "write"
  BY DEF Idle
<1>3. Shape'
  BY <1>1, <1>2 DEF Inv, Shape, RunShape, ReplayShape, IsRows
<1>4. PriceIsLastObserved' /\ DatesKept'
  BY <1>1, <1>2 DEF Inv, PriceIsLastObserved, DatesKept, Keeps
<1>5. ~overlapped => Undisturbed'
  BY <1>1, <1>2 DEF Inv, Undisturbed, AllWhole, Whole, Encode
<1> QED BY <1>1, <1>3, <1>4, <1>5 DEF Inv

LEMMA RollbackKeeps == ASSUME Inv, RollbackReplay PROVE Inv'
<1>1. replay' = Idle /\ UNCHANGED <<rows, run, observed, overlapped, last, parser>>
  BY DEF RollbackReplay
<1>2. replay'.at # "replay"
  BY <1>1 DEF Idle
<1>3. Shape'
  BY <1>1, <1>2 DEF Inv, Shape, RunShape, ReplayShape, IsRows, Held, Writing, Reading, Override
<1>4. PriceIsLastObserved' /\ DatesKept'
  BY <1>1, <1>2 DEF Inv, PriceIsLastObserved, DatesKept, Keeps, Writing, Reading
<1>5. ~overlapped => Undisturbed'
  BY <1>1, <1>2 DEF Inv, Undisturbed, AllWhole, Whole, Encode, Held, Writing, Reading, Override
<1> QED BY <1>1, <1>3, <1>4, <1>5 DEF Inv

-------------------------------------------------------------------------------
(***************************************************************************)
(* The run.                                                                *)
(***************************************************************************)
LEMMA ArchiveKeeps == ASSUME Inv, Archive PROVE Inv'
<1>1. /\ run = Idle /\ run' # Idle /\ run'.at = "read" /\ run'.staged = Empty
      /\ UNCHANGED <<rows, replay, observed, last, parser>>
      /\ overlapped' = (overlapped \/ replay # Idle)
  BY DEF Archive, Idle
<1>2. DOMAIN run'.staged = {}
  BY <1>1 DEF Empty
<1>3. Shape'
  BY <1>1, <1>2 DEF Inv, Shape, RunShape, ReplayShape, IsRows
<1>4. PriceIsLastObserved' /\ DatesKept'
  BY <1>1, <1>2 DEF Inv, PriceIsLastObserved, DatesKept, Keeps
<1>5. ~overlapped' => Undisturbed'
  BY <1>1, <1>2 DEF Inv, Undisturbed, AllWhole, Whole, Encode
<1> QED BY <1>1, <1>3, <1>4, <1>5 DEF Inv

LEMMA PassOverKeeps == ASSUME Inv, PassOver PROVE Inv'
<1>1. /\ run # Idle /\ run.at = "read" /\ run' # Idle /\ run'.at = "read"
      /\ run'.staged = run.staged
      /\ UNCHANGED <<rows, replay, observed, overlapped, last, parser>>
  BY DEF PassOver, Inv, Shape, RunShape, Idle
<1>2. Shape'
  BY <1>1 DEF Inv, Shape, RunShape, ReplayShape, IsRows
<1>3. PriceIsLastObserved' /\ DatesKept'
  BY <1>1 DEF Inv, PriceIsLastObserved, DatesKept, Keeps
<1>4. ~overlapped => Undisturbed'
  BY <1>1 DEF Inv, Undisturbed, AllWhole, Whole, Encode
<1> QED BY <1>1, <1>2, <1>3, <1>4 DEF Inv

LEMMA ReadListingKeeps == ASSUME Inv, ReadListing PROVE Inv'
<1> DEFINE p    == Reading(Head(run.todo))
           old  == IF p.id \in DOMAIN run'.view THEN run'.view[p.id] ELSE NewRow
           want == Observed(old, p)
<1>1. /\ run # Idle /\ run.at = "read" /\ run' # Idle /\ run'.at = "write"
      /\ run'.todo = run.todo /\ run'.staged = run.staged /\ run'.want = want
      /\ run'.view = [id \in DOMAIN Held \cap {p.id} |-> Held[id]]
      /\ UNCHANGED <<rows, replay, observed, overlapped, last, parser>>
  BY DEF ReadListing, Held, Idle
<1>2. Held' = Held /\ Writing' = p.id /\ IsRows(Held)
  BY <1>1 DEF Held, Writing, Reading, Override, Inv, Shape, RunShape, IsRows
<1>3. /\ p.id \in DOMAIN run'.view <=> p.id \in DOMAIN Held
      /\ p.id \in DOMAIN Held => run'.view[p.id] = Held[p.id]
  BY <1>1
<1> HIDE DEF p
<1>4. /\ DOMAIN want = Fields /\ Whole(want)
      /\ Keeps(old, want)
  BY DEF Observed, Fields, Whole, Keeps, Or
<1> HIDE DEF want, old
<1>5. Shape'
  BY <1>1, <1>2, <1>3, <1>4 DEF Inv, Shape, RunShape, ReplayShape, IsRows
<1>6. DatesKept'
  BY <1>1, <1>2, <1>3, <1>4 DEF Inv, DatesKept, Keeps, old
<1>7. ~overlapped => Undisturbed'
  BY <1>1, <1>2, <1>3, <1>4 DEF Inv, Undisturbed, AllWhole, Whole, Encode
<1> QED BY <1>1, <1>5, <1>6, <1>7 DEF Inv, PriceIsLastObserved

LEMMA WriteListingKeeps == ASSUME Inv, WriteListing PROVE Inv'
<1> DEFINE id  == Writing
           row == IF id \in DOMAIN run.view
                  THEN WriteColumns(Held[id], run.view[id], run.want)
                  ELSE run.want
<1>1. /\ run # Idle /\ run.at = "write" /\ run' # Idle /\ run'.at = "read"
      /\ run'.staged = Override([i \in {id} |-> row], run.staged)
      /\ UNCHANGED <<rows, replay, observed, overlapped, last, parser>>
  BY DEF WriteListing, Held, Writing, Idle
<1>2. /\ id \in DOMAIN run.view <=> id \in DOMAIN Held
      /\ IsRows(Held) /\ DOMAIN run.want = Fields
  BY <1>1 DEF Inv, Shape, RunShape, IsRows, Held, Override
<1>3. DOMAIN row = Fields
  BY <1>2 DEF IsRows, WriteColumns
<1>4. id \in DOMAIN rows => Keeps(rows[id], row)
  <2> SUFFICES ASSUME id \in DOMAIN rows, rows[id].posted # Null PROVE row.posted # Null
    BY DEF Keeps
  <2>1. /\ id \in DOMAIN Held /\ Held[id].posted # Null
        /\ DOMAIN Held[id] = Fields
    BY <1>1, <1>2 DEF Held, Override, Inv, DatesKept, Keeps, IsRows
  <2>2. run.view[id].posted # Null => run.want.posted # Null
    BY <1>1, <1>2, <2>1 DEF Inv, DatesKept, Keeps
  <2> QED BY <1>2, <2>1, <2>2 DEF WriteColumns, Fields
<1>5. ~overlapped => Whole(row)
  <2> SUFFICES ASSUME ~overlapped PROVE Whole(row)
    OBVIOUS
  <2>1. Whole(run.want) /\ (id \in DOMAIN run.view => run.view[id] = Held[id])
    BY <1>1 DEF Inv, Undisturbed
  <2>2. CASE id \in DOMAIN run.view
    <3>1. DOMAIN Held[id] = Fields
      BY <1>2, <2>2 DEF IsRows
    <3> QED BY <2>1, <2>2, <3>1 DEF WriteColumns, Fields, Whole
  <2> QED BY <2>1, <2>2
<1> HIDE DEF row, id
<1>6. /\ DOMAIN run'.staged = {id} \cup DOMAIN run.staged
      /\ run'.staged[id] = row
      /\ \A i \in DOMAIN run.staged \ {id} : run'.staged[i] = run.staged[i]
  BY <1>1 DEF Override
<1>7. Shape'
  BY <1>1, <1>3, <1>6 DEF Inv, Shape, RunShape, ReplayShape, IsRows
<1>8. DatesKept'
  BY <1>1, <1>4, <1>6 DEF Inv, DatesKept, Keeps
<1>9. ~overlapped => Undisturbed'
  BY <1>1, <1>5, <1>6 DEF Inv, Undisturbed, AllWhole, Whole, Encode
<1> QED BY <1>1, <1>7, <1>8, <1>9 DEF Inv, PriceIsLastObserved

LEMMA CommitRunKeeps == ASSUME Inv, CommitRun PROVE Inv'
<1> DEFINE prices == [id \in DOMAIN run.staged |-> run.staged[id].price]
<1>1. /\ run # Idle /\ run' = Idle /\ run'.at = "idle"
      /\ rows' = Override(run.staged, rows) /\ observed' = Override(prices, observed)
      /\ UNCHANGED <<replay, overlapped, last, parser>>
  BY DEF CommitRun, Idle
<1>2. /\ DOMAIN rows' = DOMAIN run.staged \cup DOMAIN rows
      /\ DOMAIN observed' = DOMAIN run.staged \cup DOMAIN observed
      /\ \A id \in DOMAIN run.staged : /\ rows'[id] = run.staged[id]
                                       /\ observed'[id] = run.staged[id].price
      /\ \A id \in DOMAIN rows \ DOMAIN run.staged : rows'[id] = rows[id]
      /\ \A id \in DOMAIN observed \ DOMAIN run.staged : observed'[id] = observed[id]
  BY <1>1 DEF Override
<1> HIDE DEF prices
<1>3. Shape'
  BY <1>1, <1>2 DEF Inv, Shape, RunShape, ReplayShape, IsRows
<1>4. PriceIsLastObserved'
  BY <1>1, <1>2 DEF Inv, Shape, PriceIsLastObserved
<1>5. DatesKept'
  BY <1>1, <1>2 DEF Inv, Shape, ReplayShape, DatesKept, Keeps
<1>6. ~overlapped => Undisturbed'
  BY <1>1, <1>2 DEF Inv, Undisturbed, AllWhole, Whole, Encode
<1> QED BY <1>1, <1>3, <1>4, <1>5, <1>6 DEF Inv

-------------------------------------------------------------------------------
(***************************************************************************)
(* The replay.                                                             *)
(***************************************************************************)
LEMMA ReadRowsKeeps == ASSUME Inv, ReadRows PROVE Inv'
<1>1. /\ replay = Idle /\ replay' # Idle /\ replay'.at = "select" /\ replay'.view = rows
      /\ UNCHANGED <<rows, run, observed, last, parser>>
      /\ overlapped' = (overlapped \/ run # Idle)
  BY DEF ReadRows, Idle
<1>2. Shape'
  BY <1>1 DEF Inv, Shape, RunShape, ReplayShape, IsRows, Held, Writing, Reading, Override
<1>3. PriceIsLastObserved' /\ DatesKept'
  BY <1>1 DEF Inv, PriceIsLastObserved, DatesKept, Keeps, Writing, Reading
<1>4. ~overlapped' => Undisturbed'
  <2> SUFFICES ASSUME ~overlapped' PROVE Undisturbed'
    OBVIOUS
  <2>1. ~overlapped /\ run = Idle
    BY <1>1, Zenon
  <2>2. run' = Idle /\ run'.at = "idle" /\ AllWhole(rows)
    BY <1>1, <2>1 DEF Inv, Undisturbed, Idle
  <2> QED BY <2>2, <1>1, <2>1 DEF Undisturbed, AllWhole, Whole, Encode
<1> QED BY <1>1, <1>2, <1>3, <1>4 DEF Inv

LEMMA ReadArchiveKeeps == ASSUME Inv, ReadArchive PROVE Inv'
<1>1. /\ replay # Idle /\ replay' # Idle /\ replay'.at = "replay"
      /\ replay'.view = replay.view /\ replay'.want = replay.view
      /\ DOMAIN replay' = {"at", "view", "known", "want", "left", "read"}
      /\ UNCHANGED <<rows, run, observed, overlapped, last, parser>>
  BY DEF ReadArchive, Idle
<1>2. Shape'
  BY <1>1 DEF Inv, Shape, RunShape, ReplayShape, IsRows, Held, Writing, Reading, Override
<1>3. PriceIsLastObserved' /\ DatesKept'
  BY <1>1 DEF Inv, PriceIsLastObserved, DatesKept, Keeps, Writing, Reading
<1>4. ~overlapped => Undisturbed'
  BY <1>1 DEF Inv, Undisturbed, AllWhole, Whole, Encode, Held, Writing, Reading, Override
<1> QED BY <1>1, <1>2, <1>3, <1>4 DEF Inv

LEMMA CorrectedRow ==
    ASSUME NEW row, DOMAIN row = Fields, NEW p, NEW known
    PROVE  LET new == Corrected(row, p, known)
           IN /\ DOMAIN new = Fields /\ new.price = row.price /\ Keeps(row, new)
              /\ Whole(row) => Whole(new)
<1> DEFINE new == [row EXCEPT !.title = p.title, !.lat = p.lat, !.lon = p.lon,
                              !.posted = Or(p.posted, @),
                              !.locality = IF p.locality \in known THEN p.locality ELSE @]
           whole == [new EXCEPT !.geo = Encode(new.lat, new.lon), !.parser = parser]
<1>1. DOMAIN new = Fields /\ new.price = row.price /\ Keeps(row, new)
  BY DEF Fields, Keeps, Or
<1>2. Corrected(row, p, known) = IF new = row THEN row ELSE whole
  BY DEF Corrected
<1> HIDE DEF new
<1>3. /\ DOMAIN whole = Fields /\ whole.price = new.price /\ whole.posted = new.posted
      /\ Whole(whole)
  BY <1>1 DEF Fields, Whole
<1> HIDE DEF whole
<1> QED BY <1>1, <1>2, <1>3 DEF Keeps

LEMMA ReplayPayloadKeeps == ASSUME Inv, ReplayPayload PROVE Inv'
<1>0. PICK n \in replay.left :
         replay' = [replay EXCEPT !.want = Replayed(@, archive[n], replay.known),
                                  !.left = @ \ {n}]
  BY DEF ReplayPayload, Oldest
<1> DEFINE p    == Reading(archive[n].record)
           want == Replayed(replay.want, archive[n], replay.known)
<1>1. /\ replay # Idle /\ replay.at = "replay"
      /\ IsRows(replay.want) /\ DOMAIN replay.want = DOMAIN replay.view
      /\ DOMAIN replay = {"at", "view", "known", "want", "left", "read"}
  BY DEF ReplayPayload, Inv, Shape, ReplayShape, Idle
<1>2. /\ replay'.at = "replay" /\ replay'.view = replay.view /\ replay'.want = want
      /\ DOMAIN replay' = DOMAIN replay
      /\ UNCHANGED <<rows, run, observed, overlapped, last, parser>>
  BY <1>0, <1>1 DEF ReplayPayload
<1>3. replay' # Idle
  BY <1>2 DEF Idle
<1>4. /\ DOMAIN want = DOMAIN replay.want
      /\ \A id \in DOMAIN want :
            want[id] = replay.want[id] \/ want[id] = Corrected(replay.want[id], p, replay.known)
  BY DEF Replayed
<1> HIDE DEF want, p
<1>5. \A id \in DOMAIN want :
        /\ DOMAIN want[id] = Fields /\ want[id].price = replay.want[id].price
        /\ Keeps(replay.want[id], want[id])
        /\ Whole(replay.want[id]) => Whole(want[id])
  BY <1>1, <1>4, CorrectedRow DEF IsRows, Keeps
<1>6. Shape'
  BY <1>1, <1>2, <1>3, <1>4, <1>5
     DEF Inv, Shape, RunShape, ReplayShape, IsRows, Held, Writing, Reading, Override
<1>7. PriceIsLastObserved' /\ DatesKept'
  BY <1>1, <1>2, <1>3, <1>4, <1>5 DEF Inv, PriceIsLastObserved, DatesKept, Keeps, Writing, Reading
<1>8. ~overlapped => Undisturbed'
  BY <1>1, <1>2, <1>3, <1>4, <1>5
     DEF Inv, Undisturbed, AllWhole, Whole, Encode, Held, Writing, Reading, Override
<1> QED BY <1>2, <1>6, <1>7, <1>8 DEF Inv

(***************************************************************************)
(* The commit writes a row column by column over what is stored by then.   *)
(***************************************************************************)
LEMMA CommitReplayKeeps == ASSUME Inv, CommitReplay PROVE Inv'
<1> DEFINE view == replay.view
           want == replay.want
<1>1. /\ replay # Idle /\ replay.at = "replay" /\ replay' = Idle /\ replay'.at = "idle"
      /\ DOMAIN rows' = DOMAIN rows
      /\ UNCHANGED <<run, observed, overlapped, parser>>
      /\ last'.dated = last.dated \cup {id \in DOMAIN want : want[id].posted # Null}
  BY DEF CommitReplay, Idle
<1>2. /\ IsRows(rows) /\ IsRows(view) /\ IsRows(want)
      /\ DOMAIN want = DOMAIN view /\ DOMAIN view \subseteq DOMAIN rows
      /\ \A id \in DOMAIN want : want[id].price = view[id].price
  BY <1>1 DEF Inv, Shape, ReplayShape
<1>3. ASSUME NEW id \in Touched
      PROVE  /\ id \in DOMAIN view /\ DOMAIN rows'[id] = Fields
             /\ \A c \in Fields : rows'[id][c] = IF want[id][c] # view[id][c]
                                                 THEN want[id][c] ELSE rows[id][c]
  <2>1. id \in DOMAIN view /\ id \in DOMAIN rows /\ DOMAIN rows[id] = Fields
    BY <1>2 DEF Touched, IsRows
  <2>2. rows'[id] = WriteColumns(rows[id], view[id], want[id])
    BY <2>1 DEF CommitReplay
  <2> QED BY <2>1, <2>2 DEF WriteColumns
<1>4. \A id \in DOMAIN rows \ Touched : rows'[id] = rows[id]
  BY DEF CommitReplay
<1>5. \A id \in DOMAIN view \ Touched : want[id] = view[id]
  BY DEF Touched
<1>6. \A id \in Touched : ~HeldByRun(id)
  BY DEF CommitReplay
<1> HIDE DEF view, want
<1>7. \A id \in DOMAIN rows :
        /\ DOMAIN rows'[id] = Fields
        /\ rows'[id].price = rows[id].price
  BY <1>2, <1>3, <1>4 DEF IsRows, Fields
<1>8. /\ \A id \in DOMAIN view : Keeps(view[id], rows[id]) /\ Keeps(view[id], want[id])
      /\ last.dated \subseteq DOMAIN rows
      /\ \A id \in last.dated : rows[id].posted # Null
  BY <1>1 DEF Inv, DatesKept, view, want
<1>9. \A id \in DOMAIN rows : Keeps(rows[id], rows'[id])
  BY <1>3, <1>4, <1>8 DEF Keeps, Fields
<1>10. \A id \in DOMAIN view : Keeps(want[id], rows'[id])
  BY <1>2, <1>3, <1>4, <1>5, <1>8 DEF Keeps, Fields
<1>11. Shape'
  BY <1>1, <1>7 DEF Inv, Shape, RunShape, ReplayShape, IsRows, Held, Writing, Reading, Override
<1>12. PriceIsLastObserved'
  BY <1>1, <1>7 DEF Inv, PriceIsLastObserved
<1>13. DatesKept'
  <2>1. \A id \in last'.dated : id \in DOMAIN rows /\ rows'[id].posted # Null
    BY <1>1, <1>2, <1>8, <1>9, <1>10 DEF Keeps
  <2>2. run # Idle => \A id \in DOMAIN run.staged \cap DOMAIN rows :
                         Keeps(rows'[id], run.staged[id])
    BY <1>4, <1>6 DEF Inv, DatesKept, HeldByRun
  <2> QED BY <1>1, <2>1, <2>2 DEF Inv, DatesKept, Writing, Reading
<1>14. ~overlapped => Undisturbed'
  <2> SUFFICES ASSUME ~overlapped PROVE Undisturbed'
    OBVIOUS
  <2>1. view = rows /\ AllWhole(rows) /\ AllWhole(want) /\ run = Idle
    BY <1>1 DEF Inv, Undisturbed, view, want
  <2>2. ASSUME NEW id \in DOMAIN rows PROVE Whole(rows'[id])
    <3>1. CASE id \in Touched
      <4>1. \A c \in Fields : rows'[id][c] = want[id][c]
        BY <1>3, <2>1, <3>1
      <4> QED BY <1>2, <1>3, <2>1, <3>1, <4>1 DEF AllWhole, Whole, Fields
    <3>2. CASE id \notin Touched
      BY <1>4, <2>1, <3>2 DEF AllWhole
    <3> QED BY <3>1, <3>2
  <2>3. run.at # "write"
    BY <2>1 DEF Idle
  <2> QED BY <1>1, <2>1, <2>2, <2>3 DEF Undisturbed, AllWhole, Whole, Encode
<1> QED BY <1>1, <1>11, <1>12, <1>13, <1>14 DEF Inv

-------------------------------------------------------------------------------
LEMMA NextInv == ASSUME Inv, [Next]_vars PROVE Inv'
<1>1. CASE UNCHANGED vars
  BY <1>1, FrameKeeps DEF vars
<1> QED BY <1>1, DeployKeeps, ArchiveKeeps, PassOverKeeps, ReadListingKeeps, WriteListingKeeps, CommitRunKeeps,
           RunFailsKeeps, ReadRowsKeeps, ReadArchiveKeeps, ReplayPayloadKeeps,
           CommitReplayKeeps, RollbackKeeps DEF Next

LEMMA Invariance == Spec => []Inv
BY InitInv, NextInv, PTL DEF Spec

(***************************************************************************)
(* PriceIsLastObserved: reparse_source writes no price, and its UPDATE     *)
(* names no column that it left alone, so a run that moves the price       *)
(* between the replay's SELECT and its commit loses nothing.               *)
(***************************************************************************)
THEOREM ReplayKeepsPrices == Spec => []PriceIsLastObserved
BY Invariance, PTL DEF Inv

(***************************************************************************)
(* DatesStayRecovered: a run that read a row before a replay gave it a     *)
(* posting date, and writes it afterwards, leaves the date; and a replay   *)
(* never puts back a date that is missing.                                 *)
(***************************************************************************)
THEOREM DatesRecovered == Spec => []DatesStayRecovered
<1>1. Inv => DatesStayRecovered
  BY DEF Inv, DatesKept, DatesStayRecovered
<1> QED BY <1>1, Invariance, PTL

(***************************************************************************)
(* PositionIsWhole: as long as no run and replay have overlapped, what     *)
(* either commits is a row whose geohash it encoded from its position.     *)
(***************************************************************************)
THEOREM PositionsWhole == Spec => []PositionIsWhole
<1>1. Inv => PositionIsWhole
  BY DEF Inv, Undisturbed, AllWhole, PositionIsWhole
<1> QED BY <1>1, Invariance, PTL

-------------------------------------------------------------------------------
(***************************************************************************)
(* The replay against a fresh run.  A better parser is one that still      *)
(* dates what the one before it dated: a replay cannot take back a date.   *)
(***************************************************************************)
KeepsDates ==
    \A v \in Versions : v + 1 \in Versions =>
       \A r \in Records :
          LET p == Parsers[v][r]  q == Parsers[v + 1][r]
          IN p # Unusable /\ p.posted # Null =>
                q # Unusable /\ q.id = p.id /\ q.posted # Null

Payload == [at : Nat, record : Records]
Told(n) == Reading(archive[n].record)
Dates(n, id) == Tells(n, id) /\ Told(n).posted # Null

(***************************************************************************)
(* What the payloads D say of a listing: the position and the title are    *)
(* those of the latest that tells of it, the date that of the latest that  *)
(* dates it.  And a date that a row has is one that some payload gives.    *)
(***************************************************************************)
Says(row, id, D) ==
    \A n \in D :
       /\ Tells(n, id) /\ (\A m \in D : Tells(m, id) => archive[m].at <= archive[n].at) =>
             row.title = Told(n).title /\ row.lat = Told(n).lat /\ row.lon = Told(n).lon
       /\ Dates(n, id) /\ (\A m \in D : Dates(m, id) => archive[m].at <= archive[n].at) =>
             row.posted = Told(n).posted
Backed(row, id) == row.posted # Null => \E n \in DOMAIN archive : Dates(n, id)

(***************************************************************************)
(* The archive is in the order in which it arrived, and the last replay    *)
(* read it with no later parser than the one deployed.                     *)
(***************************************************************************)
Filed ==
    /\ runs \in Nat
    /\ archive \in Seq(Payload)
    /\ \A n \in DOMAIN archive : archive[n].at <= runs
    /\ \A m, n \in DOMAIN archive : m <= n => archive[m].at <= archive[n].at
    /\ parser \in Versions
    /\ last.parser \in Nat /\ last.parser <= parser

(***************************************************************************)
(* The run works off records that it archived, and dates its rows by them; *)
(* so are the rows that are stored, or that a replay has corrected.        *)
(***************************************************************************)
RunDated ==
    /\ run # Idle =>
         /\ "todo" \in DOMAIN run /\ run.todo \in Seq(Records)
         /\ \A k \in DOMAIN run.todo : \E n \in DOMAIN archive :
               archive[n].record = run.todo[k]
         /\ \A id \in DOMAIN run.staged : Backed(run.staged[id], id)
    /\ run.at = "write" =>
         /\ run.todo # <<>> /\ Reading(Head(run.todo)) # Unusable
         /\ Backed(run.want, Writing)
RowsDated ==
    /\ \A id \in DOMAIN rows : Backed(rows[id], id)
    /\ replay.at = "replay" => \A id \in DOMAIN replay.want : Backed(replay.want[id], id)

(***************************************************************************)
(* A replay of the whole archive: its rows are what the payloads behind it *)
(* say, and no payload ahead of it is older than those.                    *)
(***************************************************************************)
Behind == DOMAIN archive \ replay.left
Halfway ==
    replay.at = "replay" =>
      /\ replay.read = Len(archive)
      /\ replay.left \subseteq DOMAIN archive
      /\ \A m \in Behind, n \in replay.left : archive[m].at <= archive[n].at
      /\ ToldApart => \A id \in DOMAIN replay.want : Says(replay.want[id], id, Behind)

(***************************************************************************)
(* As long as the archive is as the last replay left it, so are the rows:  *)
(* a run that archived nothing since then writes nothing.                  *)
(***************************************************************************)
Settled ==
    /\ last.read \in Nat /\ last.read <= Len(archive)
    /\ last.read = Len(archive) =>
         /\ run # Idle => run.at = "read" /\ run.todo = <<>> /\ DOMAIN run.staged = {}
         /\ last.parser = parser /\ ToldApart =>
               \A id \in DOMAIN rows : Says(rows[id], id, DOMAIN archive)

AInv == /\ Inv
        /\ Filed
        /\ ~overlapped => RunDated /\ RowsDated /\ Halfway /\ Settled

-------------------------------------------------------------------------------
(***************************************************************************)
(* What a fresh run makes of a listing: Fresh is well defined, and has the *)
(* title and position of the last payload that tells of it, and the date   *)
(* of the last that dates it.                                              *)
(***************************************************************************)
LEMMA LeastNat ==
    ASSUME NEW T \in SUBSET Nat, T # {}
    PROVE  \E n \in T : \A m \in T : n <= m
<1> DEFINE U == {1..n : n \in T}
<1>1. U \subseteq FiniteSubsetsOf(Nat) /\ U # {}
  <2>1. ASSUME NEW n \in T
        PROVE  1..n \in FiniteSubsetsOf(Nat)
    BY FS_Interval DEF FiniteSubsetsOf
  <2> QED BY <2>1
<1>2. PICK x \in U : \A y \in U : ~(<<y, x>> \in StrictSubsetOrdering(Nat))
  <2> HIDE DEF U
  <2> QED BY <1>1, FS_StrictSubsetOrderingWellFounded, WFMin
<1>3. PICK n \in T : x = 1..n
  OBVIOUS
<1>4. ASSUME NEW m \in T, m < n
      PROVE  FALSE
  <2>1. 1..m \in U
    OBVIOUS
  <2>2. <<1..m, x>> \in StrictSubsetOrdering(Nat)
    <3>1. 1..m \subseteq 1..n /\ 1..m # 1..n
      <4>1. n \in 1..n /\ n \notin 1..m
        BY <1>4
      <4> QED BY <4>1, <1>4
    <3> QED BY <3>1, <1>3 DEF StrictSubsetOrdering
  <2> QED BY <1>2, <2>1, <2>2
<1> QED BY <1>4

StepOf(f, n, id) == IF n = 0 THEN NewRow
                    ELSE IF Tells(n, id) THEN Observed(f[n - 1], Told(n))
                         ELSE f[n - 1]

LEMMA RowsExist ==
    ASSUME NEW id, NEW L \in Nat
    PROVE  \E f : f = [n \in 0..L |-> StepOf(f, n, id)]
<1> DEFINE Good(N) == \E f : f = [n \in 0..N |-> StepOf(f, n, id)]
           T == {N \in Nat : ~Good(N)}
<1> SUFFICES ASSUME T # {} PROVE FALSE
  OBVIOUS
<1>1. PICK N \in T : \A M \in T : N <= M
  <2>1. T \in SUBSET Nat
    OBVIOUS
  <2> HIDE DEF T
  <2> QED BY <2>1, LeastNat
<1>2. N # 0
  <2> SUFFICES ASSUME N = 0 PROVE Good(0)
    BY <1>1
  <2> DEFINE f == [n \in {0} |-> NewRow]
  <2>1. 0..0 = {0}
    OBVIOUS
  <2>2. f = [n \in 0..0 |-> StepOf(f, n, id)]
    BY <2>1 DEF StepOf
  <2> QED BY <2>2
<1>3. PICK f : f = [n \in 0..(N - 1) |-> StepOf(f, n, id)]
  <2>1. N - 1 \in Nat /\ ~(N <= N - 1)
    BY <1>2
  <2>2. Good(N - 1)
    BY <1>1, <2>1
  <2> QED BY <2>2
<1> DEFINE g == [n \in 0..N |-> IF n = N THEN StepOf(f, N, id) ELSE f[n]]
<1>4. ASSUME NEW n \in 0..N
      PROVE  g[n] = StepOf(g, n, id)
  <2>1. n # 0 => n - 1 \in 0..(N - 1) /\ n - 1 \in 0..N /\ n - 1 # N
    OBVIOUS
  <2>2. n # 0 => g[n - 1] = f[n - 1]
    BY <2>1
  <2>3. StepOf(g, n, id) = StepOf(f, n, id)
    <3> HIDE DEF g
    <3> QED BY <2>2 DEF StepOf
  <2>4. CASE n = N
    BY <2>3, <2>4
  <2>5. CASE n # N
    <3>1. n \in 0..(N - 1)
      BY <2>5
    <3>2. f[n] = StepOf(f, n, id)
      BY <1>3, <3>1
    <3> QED BY <2>3, <2>5, <3>2
  <2> QED BY <2>4, <2>5
<1>5. g = [n \in 0..N |-> StepOf(g, n, id)]
  <2>1. g = [n \in 0..N |-> g[n]]
    OBVIOUS
  <2> HIDE DEF g
  <2> QED BY <1>4, <2>1
<1>6. Good(N)
  <2> HIDE DEF g
  <2> QED BY <1>5
<1> QED BY <1>1, <1>6

LEMMA FreshRow ==
    ASSUME NEW id, archive \in Seq(Payload)
    PROVE  \E f : /\ Fresh(id) = f[Len(archive)]
                  /\ \A n \in 0..Len(archive) : f[n] = StepOf(f, n, id)
<1> DEFINE row[n \in 0..Len(archive)] ==
               IF n = 0 THEN NewRow
               ELSE IF Tells(n, id) THEN Observed(row[n - 1], Reading(archive[n].record))
                    ELSE row[n - 1]
<1>1. Fresh(id) = row[Len(archive)]
  BY DEF Fresh
<1>2. \E f : f = [n \in 0..Len(archive) |-> StepOf(f, n, id)]
  <2>1. Len(archive) \in Nat
    OBVIOUS
  <2> QED BY <2>1, RowsExist
<1>3. row = [n \in 0..Len(archive) |-> StepOf(row, n, id)]
  BY <1>2 DEF StepOf, Told
<1> HIDE DEF row
<1>4. \A n \in 0..Len(archive) : row[n] = StepOf(row, n, id)
  BY <1>3
<1> QED BY <1>1, <1>4


Latest(m, n, id) == m \in 1..n /\ Tells(m, id) /\ \A k \in 1..n : Tells(k, id) => k <= m
LatestDate(m, n, id) == m \in 1..n /\ Dates(m, id) /\ \A k \in 1..n : Dates(k, id) => k <= m

Follows(row, n, id) ==
    /\ \A m : Latest(m, n, id) => /\ row.title = Told(m).title
                                  /\ row.lat = Told(m).lat /\ row.lon = Told(m).lon
                                  /\ row.geo = Encode(row.lat, row.lon)
    /\ \A m : LatestDate(m, n, id) => row.posted = Told(m).posted
    /\ (\A m \in 1..n : ~Dates(m, id)) => row.posted = Null

LEMMA FollowsStep ==
    ASSUME NEW id, NEW n \in Nat, n # 0, NEW f, Follows(f[n - 1], n - 1, id)
    PROVE  Follows(StepOf(f, n, id), n, id)
<1> DEFINE old == f[n - 1]
           new == StepOf(f, n, id)
<1>1. CASE Tells(n, id)
  <2>1. new = Observed(old, Told(n))
    BY <1>1 DEF StepOf
  <2>2. /\ new.title = Told(n).title /\ new.lat = Told(n).lat /\ new.lon = Told(n).lon
        /\ new.geo = Encode(new.lat, new.lon)
        /\ new.posted = Or(Told(n).posted, old.posted)
    BY <2>1 DEF Observed
  <2> HIDE DEF old, new
  <2>3. ASSUME NEW m, Latest(m, n, id) PROVE m = n
    BY <1>1, <2>3 DEF Latest
  <2>4. CASE Told(n).posted # Null
    <3>1. Dates(n, id) /\ new.posted = Told(n).posted
      BY <1>1, <2>2, <2>4 DEF Dates, Or
    <3>2. ASSUME NEW m, LatestDate(m, n, id) PROVE m = n
      BY <3>1, <3>2 DEF LatestDate
    <3>3. ~\A m \in 1..n : ~Dates(m, id)
      BY <3>1
    <3> QED BY <2>2, <2>3, <3>1, <3>2, <3>3 DEF Follows, new
  <2>5. CASE Told(n).posted = Null
    <3>1. ~Dates(n, id) /\ new.posted = old.posted
      BY <2>2, <2>5 DEF Dates, Or
    <3>2. ASSUME NEW m, LatestDate(m, n, id) PROVE LatestDate(m, n - 1, id)
      <4>1. m # n /\ m \in 1..(n - 1)
        BY <3>1, <3>2 DEF LatestDate
      <4> QED BY <3>2, <4>1 DEF LatestDate
    <3>3. 1..(n - 1) \subseteq 1..n
      OBVIOUS
    <3> QED BY <2>2, <2>3, <3>1, <3>2, <3>3 DEF Follows, new, old
  <2> QED BY <2>4, <2>5
<1>2. CASE ~Tells(n, id)
  <2>1. new = old
    BY <1>2 DEF StepOf
  <2>2. 1..(n - 1) \subseteq 1..n /\ \A m \in 1..n : m # n => m \in 1..(n - 1)
    OBVIOUS
  <2>3. ASSUME NEW m, Latest(m, n, id) PROVE Latest(m, n - 1, id)
    BY <1>2, <2>2, <2>3 DEF Latest
  <2>4. ASSUME NEW m, LatestDate(m, n, id) PROVE LatestDate(m, n - 1, id)
    BY <1>2, <2>2, <2>4 DEF LatestDate, Dates
  <2> QED BY <2>1, <2>2, <2>3, <2>4 DEF Follows
<1> QED BY <1>1, <1>2

LEMMA FreshFollows ==
    ASSUME NEW id, archive \in Seq(Payload)
    PROVE  Follows(Fresh(id), Len(archive), id)
<1>1. Len(archive) \in Nat
  OBVIOUS
<1>2. PICK f : /\ Fresh(id) = f[Len(archive)]
               /\ \A n \in 0..Len(archive) : f[n] = StepOf(f, n, id)
  BY FreshRow
<1> DEFINE T == {n \in 0..Len(archive) : ~Follows(f[n], n, id)}
<1> SUFFICES ASSUME T # {} PROVE FALSE
  BY <1>1, <1>2
<1>3. PICK n \in T : \A m \in T : n <= m
  <2>1. T \in SUBSET Nat
    BY <1>1
  <2> HIDE DEF T
  <2> QED BY <2>1, LeastNat
<1>4. CASE n = 0
  <2>1. f[n] = NewRow
    BY <1>1, <1>2, <1>4 DEF StepOf
  <2>2. 1..0 = {}
    OBVIOUS
  <2> QED BY <1>3, <1>4, <2>1, <2>2 DEF Follows, Latest, LatestDate, NewRow
<1>5. CASE n # 0
  <2>1. n \in Nat /\ n - 1 \in 0..Len(archive) /\ ~(n <= n - 1)
    BY <1>1, <1>5
  <2>2. Follows(f[n - 1], n - 1, id)
    BY <1>3, <2>1
  <2>3. Follows(StepOf(f, n, id), n, id)
    BY <1>5, <2>1, <2>2, FollowsStep
  <2>4. f[n] = StepOf(f, n, id)
    BY <1>2
  <2> QED BY <1>3, <2>3, <2>4
<1> QED BY <1>4, <1>5

LEMMA GreatestNat ==
    ASSUME NEW N \in Nat, NEW T \in SUBSET (1..N), T # {}
    PROVE  \E n \in T : \A m \in T : m <= n
<1> DEFINE U == {N - n : n \in T}
<1>1. U \in SUBSET Nat /\ U # {}
  <2>1. \A n \in T : N - n \in Nat
    <3> TAKE n \in T
    <3>1. n \in 1..N
      OBVIOUS
    <3> QED BY <3>1
  <2> QED BY <2>1
<1>2. PICK u \in U : \A v \in U : u <= v
  <2> HIDE DEF U
  <2> QED BY <1>1, LeastNat
<1>3. PICK n \in T : u = N - n
  OBVIOUS
<1>4. ASSUME NEW m \in T PROVE m <= n
  <2>1. N - n <= N - m
    BY <1>2, <1>3
  <2>2. m \in Int /\ n \in Int
    OBVIOUS
  <2> QED BY <2>1, <2>2
<1> QED BY <1>4

LEMMA SettledIsFresh ==
    ASSUME AInv PROVE LeavesFreshFields
<1> DEFINE N == Len(archive)
<1> SUFFICES ASSUME JustReplayed, NEW id \in DOMAIN rows, NEW n \in DOMAIN archive, Tells(n, id)
             PROVE  /\ rows[id].title = Fresh(id).title /\ rows[id].lat = Fresh(id).lat
                    /\ rows[id].lon = Fresh(id).lon /\ rows[id].geo = Fresh(id).geo
                    /\ rows[id].posted = Fresh(id).posted
  BY DEF LeavesFreshFields, Agree
<1>1. /\ Says(rows[id], id, DOMAIN archive)
      /\ Backed(rows[id], id)
      /\ Whole(rows[id])
  BY DEF AInv, Inv, JustReplayed, Settled, RowsDated, Undisturbed, AllWhole
<1>2. /\ N \in Nat /\ DOMAIN archive = 1..N
      /\ \A k, m \in 1..N : k <= m => archive[k].at <= archive[m].at
      /\ Follows(Fresh(id), N, id)
  BY FreshFollows DEF AInv, Filed
<1>3. PICK m : Latest(m, N, id)
  <2> DEFINE T == {k \in 1..N : Tells(k, id)}
  <2>1. T # {} /\ T \in SUBSET (1..N)
    BY <1>2
  <2>2. PICK m \in T : \A k \in T : k <= m
    <3> HIDE DEF T
    <3> QED BY <1>2, <2>1, GreatestNat
  <2> QED BY <2>2 DEF Latest
<1>4. /\ rows[id].title = Told(m).title
      /\ rows[id].lat = Told(m).lat /\ rows[id].lon = Told(m).lon
  BY <1>1, <1>2, <1>3 DEF Says, Latest
<1>5. /\ Fresh(id).title = Told(m).title
      /\ Fresh(id).lat = Told(m).lat /\ Fresh(id).lon = Told(m).lon
      /\ Fresh(id).geo = Encode(Fresh(id).lat, Fresh(id).lon)
  BY <1>2, <1>3 DEF Follows
<1>6. rows[id].geo = Fresh(id).geo
  BY <1>1, <1>4, <1>5 DEF Whole
<1>7. rows[id].posted = Fresh(id).posted
  <2>1. CASE \A k \in 1..N : ~Dates(k, id)
    BY <1>1, <1>2, <2>1 DEF Backed, Follows
  <2>2. CASE \E k \in 1..N : Dates(k, id)
    <3> DEFINE T == {k \in 1..N : Dates(k, id)}
    <3>1. T # {} /\ T \in SUBSET (1..N)
      BY <2>2
    <3>2. PICK d \in T : \A k \in T : k <= d
      <4> HIDE DEF T
      <4> QED BY <1>2, <3>1, GreatestNat
    <3>3. LatestDate(d, N, id)
      BY <3>2 DEF LatestDate
    <3>4. rows[id].posted = Told(d).posted
      BY <1>1, <1>2, <3>3 DEF Says, LatestDate
    <3> QED BY <1>2, <3>3, <3>4 DEF Follows
  <2> QED BY <2>1, <2>2
<1> QED BY <1>4, <1>5, <1>6, <1>7

-------------------------------------------------------------------------------
(***************************************************************************)
(* What a row becomes when a replay passes a payload.                      *)
(***************************************************************************)
LEMMA SaysNext ==
    ASSUME Filed, ToldApart, NEW D \in SUBSET DOMAIN archive, NEW n0 \in DOMAIN archive,
           \A d \in D : archive[d].at <= archive[n0].at,
           NEW id, NEW old, NEW new, Says(old, id, D),
           IF Tells(n0, id)
           THEN /\ new.title = Told(n0).title
                /\ new.lat = Told(n0).lat /\ new.lon = Told(n0).lon
                /\ new.posted = Or(Told(n0).posted, old.posted)
           ELSE new = old
    PROVE  Says(new, id, D \cup {n0})
<1>1. \A n \in DOMAIN archive : archive[n].at \in Nat /\ archive[n].record \in Records
  <2>1. \A n \in DOMAIN archive : archive[n] \in Payload
    BY DEF Filed
  <2> QED BY <2>1 DEF Payload
<1>2. Tells(n0, id) => id \in Ids
  <2>1. archive[n0].record \in Records /\ parser \in Versions
    BY <1>1 DEF Filed
  <2> QED BY <2>1, ReparseAssumption DEF Tells, Reading
<1>3. ASSUME NEW n \in D \cup {n0}, Tells(n0, id), Tells(n, id),
             archive[n0].at <= archive[n].at
      PROVE  n = n0
  <2>1. n \in DOMAIN archive /\ archive[n].at = archive[n0].at
    BY <1>1, <1>3
  <2> QED BY <1>2, <1>3, <2>1 DEF ToldApart
<1>4. CASE ~Tells(n0, id)
  BY <1>4 DEF Says, Dates
<1>5. CASE Tells(n0, id)
  <2>1. ASSUME NEW n \in D \cup {n0}, Tells(n, id),
               \A m \in D \cup {n0} : Tells(m, id) => archive[m].at <= archive[n].at
        PROVE  n = n0
    BY <1>3, <1>5, <2>1
  <2>2. ASSUME NEW n \in D \cup {n0}, Dates(n, id),
               \A m \in D \cup {n0} : Dates(m, id) => archive[m].at <= archive[n].at
        PROVE  new.posted = Told(n).posted
    <3>1. CASE Dates(n0, id)
      <4>1. n = n0
        BY <1>3, <2>2, <3>1 DEF Dates
      <4> QED BY <1>5, <3>1, <4>1 DEF Or, Dates
    <3>2. CASE ~Dates(n0, id)
      <4>1. new.posted = old.posted
        BY <1>5, <3>2 DEF Or, Dates
      <4>2. n \in D
        BY <2>2, <3>2
      <4> QED BY <2>2, <4>1, <4>2 DEF Says
    <3> QED BY <3>1, <3>2
  <2> QED BY <1>5, <2>1, <2>2 DEF Says
<1> QED BY <1>4, <1>5

LEMMA CorrectedColumns ==
    ASSUME NEW row, DOMAIN row = Fields, NEW p, NEW known
    PROVE  LET new == Corrected(row, p, known)
           IN /\ new.title = p.title /\ new.lat = p.lat /\ new.lon = p.lon
              /\ new.posted = Or(p.posted, row.posted)
<1> DEFINE new == [row EXCEPT !.title = p.title, !.lat = p.lat, !.lon = p.lon,
                              !.posted = Or(p.posted, @),
                              !.locality = IF p.locality \in known THEN p.locality ELSE @]
           whole == [new EXCEPT !.geo = Encode(new.lat, new.lon), !.parser = parser]
<1>1. /\ new.title = p.title /\ new.lat = p.lat /\ new.lon = p.lon
      /\ new.posted = Or(p.posted, row.posted) /\ DOMAIN new = Fields
  BY DEF Fields
<1>2. Corrected(row, p, known) = IF new = row THEN row ELSE whole
  BY DEF Corrected
<1> HIDE DEF new
<1>3. /\ whole.title = new.title /\ whole.lat = new.lat /\ whole.lon = new.lon
      /\ whole.posted = new.posted
  BY <1>1 DEF Fields
<1> HIDE DEF whole
<1> QED BY <1>1, <1>2, <1>3

-------------------------------------------------------------------------------
LEMMA InitAInv == Init => AInv
<1> SUFFICES ASSUME Init PROVE AInv
  OBVIOUS
<1>1. /\ DOMAIN rows = {} /\ archive = <<>> /\ parser = 1 /\ runs = 0
      /\ last.read = 0 /\ last.parser = 0
      /\ run = Idle /\ replay = Idle /\ run.at = "idle" /\ replay.at = "idle"
  BY DEF Init, Empty, Idle
<1>2. Filed
  BY <1>1, ReparseAssumption DEF Filed
<1>3. RunDated /\ RowsDated /\ Halfway /\ Settled
  BY <1>1 DEF RunDated, RowsDated, Halfway, Settled
<1> QED BY <1>2, <1>3, InitInv DEF AInv

(***************************************************************************)
(* A step that leaves the archive, the parser and the rows alone.          *)
(***************************************************************************)
Still == UNCHANGED <<rows, archive, parser, last, runs>>

StillIdle == last.read = Len(archive) /\ run' # Idle =>
                run'.at = "read" /\ run'.todo = <<>> /\ DOMAIN run'.staged = {}

LEMMA StillKeeps ==
    ASSUME Filed, Still
    PROVE  /\ Filed'
           /\ RowsDated /\ replay'.at # "replay" => RowsDated'
           /\ Settled /\ StillIdle => Settled'
<1>1. Filed'
  BY DEF Filed, Still
<1>2. RowsDated /\ replay'.at # "replay" => RowsDated'
  BY DEF RowsDated, Backed, Dates, Told, Tells, Reading, Still
<1>3. ToldApart' <=> ToldApart
  BY DEF ToldApart, Tells, Reading, Still
<1>4. ASSUME NEW id \in DOMAIN rows, Says(rows[id], id, DOMAIN archive)
      PROVE  Says(rows[id], id, DOMAIN archive)'
  BY <1>4 DEF Says, Dates, Told, Tells, Reading, Still
<1> QED BY <1>1, <1>2, <1>3, <1>4 DEF Settled, Still, StillIdle

LEMMA DeployDates == ASSUME KeepsDates, AInv, Deploy PROVE AInv'
<1>1. /\ parser + 1 \in Versions /\ parser' = parser + 1
      /\ run' = Idle /\ replay' = Idle /\ run'.at = "idle" /\ replay'.at = "idle"
      /\ UNCHANGED <<rows, archive, overlapped, last, runs>>
  BY DEF Deploy, Idle
<1>2. Filed /\ parser \in Nat
  BY ReparseAssumption DEF AInv, Filed
<1>3. Filed' /\ last'.parser # parser'
  BY <1>1, <1>2 DEF Filed
<1>4. ASSUME NEW n \in DOMAIN archive, NEW id, Dates(n, id)
      PROVE  Dates(n, id)'
  <2>1. archive[n].record \in Records
    <3>1. archive[n] \in Payload
      BY <1>2 DEF Filed
    <3> QED BY <3>1 DEF Payload
  <2> QED BY <1>1, <1>2, <1>4, <2>1 DEF KeepsDates, Filed, Dates, Told, Tells, Reading
<1>5. RowsDated => RowsDated'
  BY <1>1, <1>4 DEF RowsDated, Backed
<1>6. RunDated' /\ Halfway'
  BY <1>1 DEF RunDated, Halfway
<1>7. Settled => Settled'
  BY <1>1, <1>3 DEF Settled
<1> QED BY <1>1, <1>3, <1>5, <1>6, <1>7, DeployKeeps DEF AInv

LEMMA Joined ==
    ASSUME NEW S, NEW s \in Seq(S), NEW t \in Seq(S), NEW u, u = s \o t
    PROVE  /\ u \in Seq(S) /\ Len(u) = Len(s) + Len(t)
           /\ \A n \in 1..Len(s) : u[n] = s[n]
           /\ \A k \in 1..Len(t) : u[Len(s) + k] = t[k]
OBVIOUS

LEMMA ArchiveDates == ASSUME AInv, Archive PROVE AInv'
<1>1. PICK feed \in Feeds :
        /\ archive' = archive \o [k \in DOMAIN feed |-> [at |-> runs', record |-> feed[k]]]
        /\ run' = [at |-> "read", staged |-> Empty, todo |-> feed]
  BY DEF Archive
<1> DEFINE new == [k \in DOMAIN feed |-> [at |-> runs', record |-> feed[k]]]
<1>2. /\ runs' = runs + 1 /\ overlapped' = (overlapped \/ replay # Idle)
      /\ run'.at = "read" /\ DOMAIN run'.staged = {} /\ run'.todo = feed
      /\ "todo" \in DOMAIN run'
      /\ UNCHANGED <<rows, parser, replay, last>>
  BY <1>1 DEF Archive, Empty
<1>3. /\ Filed /\ runs \in Nat /\ runs' \in Nat /\ archive \in Seq(Payload)
      /\ feed \in Seq(Records)
  BY <1>1, <1>2, ReparseAssumption DEF AInv, Filed
<1>4. new \in Seq(Payload) /\ Len(new) = Len(feed)
      /\ \A k \in 1..Len(feed) : new[k].at = runs' /\ new[k].record = feed[k]
  <2>1. \A k \in 1..Len(feed) : [at |-> runs', record |-> feed[k]] \in Payload
    BY <1>3 DEF Payload
  <2> QED BY <1>3, <2>1
<1>5. /\ archive' \in Seq(Payload) /\ Len(archive') = Len(archive) + Len(feed)
      /\ Len(archive) \in Nat /\ Len(feed) \in Nat
      /\ DOMAIN archive = 1..Len(archive) /\ DOMAIN archive' = 1..Len(archive')
      /\ DOMAIN feed = 1..Len(feed)
      /\ \A n \in 1..Len(archive) : archive'[n] = archive[n]
      /\ \A k \in 1..Len(feed) : archive'[Len(archive) + k] = new[k]
  <2>1. archive' = archive \o new
    BY <1>1
  <2> HIDE DEF new
  <2>2. /\ archive' \in Seq(Payload) /\ Len(archive') = Len(archive) + Len(new)
        /\ \A n \in 1..Len(archive) : archive'[n] = archive[n]
        /\ \A k \in 1..Len(new) : archive'[Len(archive) + k] = new[k]
    <3>1. archive \in Seq(Payload) /\ new \in Seq(Payload)
      BY <1>3, <1>4
    <3> QED BY ONLY <2>1, <3>1, Joined
  <2>3. /\ Len(archive) \in Nat /\ Len(feed) \in Nat
        /\ DOMAIN archive = 1..Len(archive) /\ DOMAIN feed = 1..Len(feed)
        /\ DOMAIN archive' = 1..Len(archive')
    BY <1>3, <2>2
  <2> QED BY <1>4, <2>2, <2>3
<1> HIDE DEF new
<1>6. \A n \in 1..Len(archive') :
        /\ n \in 1..Len(archive) => archive'[n] = archive[n]
        /\ n \notin 1..Len(archive) => /\ archive'[n].at = runs'
                                       /\ n > Len(archive)
  <2> TAKE n \in 1..Len(archive')
  <2>1. CASE n \in 1..Len(archive)
    BY <1>5, <2>1
  <2>2. CASE n \notin 1..Len(archive)
    <3>1. PICK k \in 1..Len(feed) : n = Len(archive) + k
      <4>1. n - Len(archive) \in 1..Len(feed) /\ n = Len(archive) + (n - Len(archive))
        BY <1>5, <2>2
      <4> QED BY <4>1
    <3>2. archive'[n] = new[k] /\ n > Len(archive)
      BY <1>5, <3>1
    <3> QED BY <1>4, <2>2, <3>2
  <2> QED BY <2>1, <2>2
<1>7. \A n \in 1..Len(archive) : archive[n].at \in Nat /\ archive[n].at <= runs
  <2>1. \A n \in 1..Len(archive) : archive[n] \in Payload
    BY <1>3
  <2> QED BY <1>3, <1>5, <2>1 DEF Filed, Payload
<1>8. Filed'
  <2>1. \A n \in DOMAIN archive' : archive'[n].at <= runs'
    BY <1>2, <1>3, <1>5, <1>6, <1>7
  <2>2. \A m, n \in DOMAIN archive' : m <= n => archive'[m].at <= archive'[n].at
    <3> TAKE m, n \in DOMAIN archive'
    <3> SUFFICES ASSUME m <= n PROVE archive'[m].at <= archive'[n].at
      OBVIOUS
    <3>1. CASE n \in 1..Len(archive)
      <4>1. m \in 1..Len(archive)
        BY <1>5, <3>1
      <4> QED BY <1>3, <1>5, <3>1, <4>1 DEF Filed
    <3>2. CASE n \notin 1..Len(archive)
      BY <1>5, <1>6, <2>1, <3>2
    <3> QED BY <3>1, <3>2
  <2> QED BY <1>2, <1>3, <1>5, <2>1, <2>2 DEF Filed
<1>9. ASSUME ~overlapped'
      PROVE  RunDated' /\ RowsDated' /\ Halfway' /\ Settled'
  <2>1. ~overlapped /\ replay = Idle /\ replay'.at # "replay"
    <3>1. ~overlapped /\ replay = Idle
      BY <1>2, <1>9, Zenon
    <3> QED BY <1>2, <3>1 DEF Idle
  <2>2. RunDated'
    <3>1. \A k \in DOMAIN feed : \E n \in DOMAIN archive' : archive'[n].record = feed[k]
      <4> TAKE k \in DOMAIN feed
      <4>1. Len(archive) + k \in DOMAIN archive'
        BY <1>5
      <4> QED BY <1>4, <1>5, <4>1
    <3> QED BY <1>2, <1>3, <3>1 DEF RunDated
  <2>3. RowsDated'
    <3>1. ASSUME NEW n \in DOMAIN archive, NEW id, Dates(n, id)
          PROVE  n \in DOMAIN archive' /\ Dates(n, id)'
      BY <1>2, <1>5, <3>1 DEF Dates, Told, Tells, Reading
    <3> QED BY <1>2, <2>1, <3>1 DEF AInv, RowsDated, Backed
  <2>4. Settled'
    <3>1. Settled /\ last.read \in Nat /\ last.read <= Len(archive)
      BY <2>1 DEF AInv, Settled
    <3>2. last.read <= Len(archive')
      BY <1>5, <3>1
    <3> SUFFICES ASSUME last.read = Len(archive') PROVE Settled'
      BY <1>2, <3>1, <3>2 DEF Settled
    <3>3. Len(feed) = 0 /\ last.read = Len(archive)
      <4>1. last.read \in Nat /\ last.read <= Len(archive)
        BY <3>1
      <4>2. Len(archive') = Len(archive) + Len(feed) /\ Len(archive) \in Nat /\ Len(feed) \in Nat
        BY <1>5
      <4> QED BY <4>1, <4>2
    <3>4. feed = <<>> /\ archive' = archive
      BY <1>3, <1>5, <3>3
    <3>5. ToldApart' <=> ToldApart
      BY <1>2, <3>4 DEF ToldApart, Tells, Reading
    <3>6. ASSUME NEW id \in DOMAIN rows, Says(rows[id], id, DOMAIN archive)
          PROVE  Says(rows[id], id, DOMAIN archive)'
      BY <1>2, <3>4, <3>6 DEF Says, Dates, Told, Tells, Reading
    <3> QED BY <1>2, <2>1, <3>1, <3>2, <3>3, <3>4, <3>5, <3>6 DEF Settled
  <2> QED BY <2>1, <1>2, <2>2, <2>3, <2>4 DEF Halfway
<1> QED BY <1>8, <1>9, ArchiveKeeps DEF AInv

(***************************************************************************)
(* The run, which has no replay beside it.                                 *)
(***************************************************************************)
LEMMA Taken ==
    ASSUME NEW S, NEW s \in Seq(S), s # <<>>
    PROVE  /\ 1 \in DOMAIN s /\ Head(s) = s[1] /\ Head(s) \in S
           /\ Tail(s) \in Seq(S)
           /\ \A k \in DOMAIN Tail(s) : k + 1 \in DOMAIN s /\ Tail(s)[k] = s[k + 1]
           /\ \A k \in DOMAIN s : k # 1 => k - 1 \in DOMAIN Tail(s)
OBVIOUS

LEMMA AloneRun ==
    ASSUME AInv, ~overlapped, run # Idle
    PROVE  /\ replay = Idle /\ replay.at # "replay"
           /\ Filed /\ RunDated /\ RowsDated /\ Settled
<1>1. replay = Idle
  BY DEF AInv, Inv, Undisturbed
<1> QED BY <1>1 DEF AInv, Idle

LEMMA PassOverDates == ASSUME AInv, PassOver PROVE AInv'
<1>1. /\ run # Idle /\ run.at = "read" /\ run.todo # <<>>
      /\ UNCHANGED <<replay, overlapped>> /\ Still
  BY DEF PassOver, Idle, Still
<1>2. Filed' /\ Inv'
  BY <1>1, StillKeeps, PassOverKeeps DEF AInv
<1>3. ASSUME ~overlapped PROVE RunDated' /\ RowsDated' /\ Halfway' /\ Settled'
  <2>1. /\ replay.at # "replay" /\ RunDated /\ RowsDated /\ Settled
    BY <1>1, <1>3, AloneRun
  <2>2. RowsDated' /\ Halfway' /\ Settled'
    BY <1>1, <1>2, <2>1, StillKeeps DEF Halfway, Settled, AInv, StillIdle
  <2>3. /\ "todo" \in DOMAIN run' /\ run'.todo = Tail(run.todo) /\ run'.at = "read"
        /\ run'.staged = run.staged
    BY <1>1, <2>1 DEF PassOver, RunDated
  <2>4. /\ run'.todo \in Seq(Records)
        /\ \A k \in DOMAIN run'.todo : \E n \in DOMAIN archive : archive[n].record = run'.todo[k]
    <3>1. /\ run.todo \in Seq(Records)
          /\ \A k \in DOMAIN run.todo : \E n \in DOMAIN archive : archive[n].record = run.todo[k]
      BY <1>1, <2>1 DEF RunDated
    <3> QED BY <1>1, <2>3, <3>1, Taken
  <2>5. \A id \in DOMAIN run.staged : Backed(run.staged[id], id)
    BY <1>1, <2>1 DEF RunDated
  <2>6. RunDated'
    BY <1>1, <2>3, <2>4, <2>5 DEF RunDated, Backed, Dates, Told, Tells, Reading, Still
  <2> QED BY <2>2, <2>6
<1> QED BY <1>1, <1>2, <1>3 DEF AInv

LEMMA ReadListingDates == ASSUME AInv, ReadListing PROVE AInv'
<1> DEFINE p    == Reading(Head(run.todo))
           old  == IF p.id \in DOMAIN run'.view THEN run'.view[p.id] ELSE NewRow
           want == Observed(old, p)
<1>1. /\ run # Idle /\ run.at = "read" /\ run.todo # <<>> /\ p # Unusable
      /\ run'.at = "write" /\ "todo" \in DOMAIN run' /\ run'.todo = run.todo
      /\ run'.staged = run.staged /\ run'.want = want
      /\ run'.view = [id \in DOMAIN Held \cap {p.id} |-> Held[id]]
      /\ UNCHANGED <<replay, overlapped>> /\ Still
  BY DEF ReadListing, Held, Idle, Still
<1>2. Filed' /\ Inv'
  BY <1>1, StillKeeps, ReadListingKeeps DEF AInv
<1>3. ASSUME ~overlapped PROVE RunDated' /\ RowsDated' /\ Halfway' /\ Settled'
  <2>1. /\ replay.at # "replay" /\ RunDated /\ RowsDated /\ Settled
    BY <1>1, <1>3, AloneRun
  <2>2. RowsDated' /\ Halfway' /\ Settled'
    BY <1>1, <1>2, <2>1, StillKeeps DEF Halfway, Settled, AInv, StillIdle
  <2>3. /\ run.todo \in Seq(Records)
        /\ \A k \in DOMAIN run.todo : \E n \in DOMAIN archive : archive[n].record = run.todo[k]
        /\ \A id \in DOMAIN run.staged : Backed(run.staged[id], id)
    BY <1>1, <2>1 DEF RunDated
  <2>4. want.posted = Or(p.posted, old.posted)
    BY DEF Observed
  <2>5. Backed(old, p.id)
    <3>1. CASE p.id \in DOMAIN run'.view
      <4>1. p.id \in DOMAIN Held /\ old = Held[p.id]
        BY <1>1, <3>1
      <4>2. \A id \in DOMAIN rows : Backed(rows[id], id)
        BY <2>1 DEF RowsDated
      <4> HIDE DEF old, p
      <4> QED BY <2>3, <4>1, <4>2 DEF Held, Override
    <3>2. CASE p.id \notin DOMAIN run'.view
      BY <3>2 DEF Backed, NewRow
    <3> QED BY <3>1, <3>2
  <2>6. PICK n \in DOMAIN archive : archive[n].record = Head(run.todo)
    BY <1>1, <2>3, Taken
  <2>7. Backed(want, p.id)
    <3>1. CASE p.posted # Null
      <4>1. Dates(n, p.id)
        BY <1>1, <2>6, <3>1 DEF Dates, Told, Tells
      <4> QED BY <4>1 DEF Backed
    <3>2. CASE p.posted = Null
      BY <2>4, <2>5, <3>2 DEF Backed, Or
    <3> QED BY <3>1, <3>2
  <2>8. run'.todo # <<>> /\ Reading(Head(run.todo))' = p /\ p # Unusable /\ Writing' = p.id
    BY <1>1 DEF Reading, Writing, Still
  <2> HIDE DEF want, old, p
  <2>9. RunDated'
    BY <1>1, <2>3, <2>7, <2>8 DEF RunDated, Backed, Dates, Told, Tells, Reading, Still
  <2> QED BY <2>2, <2>9
<1> QED BY <1>1, <1>2, <1>3 DEF AInv

LEMMA WriteListingDates == ASSUME AInv, WriteListing PROVE AInv'
<1> DEFINE id  == Writing
           row == IF id \in DOMAIN run.view
                  THEN WriteColumns(Held[id], run.view[id], run.want)
                  ELSE run.want
<1>1. /\ run # Idle /\ run.at = "write" /\ run'.at = "read"
      /\ "todo" \in DOMAIN run' /\ run'.todo = Tail(run.todo)
      /\ run'.staged = Override([i \in {id} |-> row], run.staged)
      /\ UNCHANGED <<replay, overlapped>> /\ Still
  BY DEF WriteListing, Held, Writing, Idle, Still
<1>2. Filed' /\ Inv'
  BY <1>1, StillKeeps, WriteListingKeeps DEF AInv
<1>3. ASSUME ~overlapped PROVE RunDated' /\ RowsDated' /\ Halfway' /\ Settled'
  <2>1. /\ replay.at # "replay" /\ RunDated /\ RowsDated /\ Settled
    BY <1>1, <1>3, AloneRun
  <2>2. RowsDated' /\ Halfway' /\ Settled'
    BY <1>1, <1>2, <2>1, StillKeeps DEF Halfway, Settled, AInv, StillIdle
  <2>3. /\ run.todo \in Seq(Records) /\ run.todo # <<>>
        /\ \A k \in DOMAIN run.todo : \E n \in DOMAIN archive : archive[n].record = run.todo[k]
        /\ \A i \in DOMAIN run.staged : Backed(run.staged[i], i)
        /\ Backed(run.want, id)
    BY <1>1, <2>1 DEF RunDated
  <2>4. row.posted = run.want.posted
    <3>1. /\ id \in DOMAIN run.view => /\ id \in DOMAIN Held /\ run.view[id] = Held[id]
                                       /\ DOMAIN run.view[id] = Fields
      BY <1>1, <1>3 DEF AInv, Inv, Undisturbed, Shape, RunShape
    <3> QED BY <3>1 DEF WriteColumns, Fields
  <2>5. Backed(row, id)
    BY <2>3, <2>4 DEF Backed
  <2> HIDE DEF row, id
  <2>6. \A i \in DOMAIN run'.staged : Backed(run'.staged[i], i)
    BY <1>1, <2>3, <2>5 DEF Override
  <2>7. /\ run'.todo \in Seq(Records)
        /\ \A k \in DOMAIN run'.todo : \E n \in DOMAIN archive : archive[n].record = run'.todo[k]
    BY <1>1, <2>3, Taken
  <2>8. RunDated'
    BY <1>1, <2>6, <2>7 DEF RunDated, Backed, Dates, Told, Tells, Reading, Still
  <2> QED BY <2>2, <2>8
<1> QED BY <1>1, <1>2, <1>3 DEF AInv

LEMMA CommitRunDates == ASSUME AInv, CommitRun PROVE AInv'
<1>1. /\ run # Idle /\ run' = Idle /\ run'.at = "idle"
      /\ rows' = Override(run.staged, rows)
      /\ UNCHANGED <<replay, overlapped, archive, parser, last, runs>>
  BY DEF CommitRun, Idle
<1>2. Filed' /\ Inv'
  BY <1>1, CommitRunKeeps DEF AInv, Filed
<1>3. ASSUME ~overlapped PROVE RunDated' /\ RowsDated' /\ Halfway' /\ Settled'
  <2>1. /\ replay.at # "replay" /\ RunDated /\ RowsDated /\ Settled
    BY <1>1, <1>3, AloneRun
  <2>2. RunDated' /\ Halfway'
    BY <1>1, <2>1 DEF RunDated, Halfway
  <2>3. \A id \in DOMAIN rows' : Backed(rows'[id], id)
    BY <1>1, <2>1 DEF RunDated, RowsDated, Override
  <2>4. RowsDated'
    BY <1>1, <2>1, <2>3 DEF RowsDated, Backed, Dates, Told, Tells, Reading
  <2>5. Settled'
    <3> SUFFICES ASSUME last.read = Len(archive) PROVE Settled'
      BY <1>1, <2>1 DEF Settled
    <3>1. DOMAIN run.staged = {}
      BY <1>1, <2>1 DEF Settled
    <3>2. DOMAIN rows' = DOMAIN rows /\ \A id \in DOMAIN rows : rows'[id] = rows[id]
      BY <1>1, <3>1 DEF Override
    <3>3. ToldApart' <=> ToldApart
      BY <1>1 DEF ToldApart, Tells, Reading
    <3>4. ASSUME NEW id \in DOMAIN rows, Says(rows[id], id, DOMAIN archive)
          PROVE  Says(rows[id], id, DOMAIN archive)'
      BY <1>1, <3>2, <3>4 DEF Says, Dates, Told, Tells, Reading
    <3> QED BY <1>1, <2>1, <3>2, <3>3, <3>4 DEF Settled
  <2> QED BY <2>2, <2>4, <2>5
<1> QED BY <1>1, <1>2, <1>3 DEF AInv

LEMMA RunFailsDates == ASSUME AInv, RunFails PROVE AInv'
<1>1. /\ run # Idle /\ run' = Idle /\ run'.at = "idle" /\ UNCHANGED <<replay, overlapped>>
      /\ Still
  BY DEF RunFails, Idle, Still
<1>2. Filed' /\ Inv'
  BY <1>1, StillKeeps, RunFailsKeeps DEF AInv
<1>3. ASSUME ~overlapped PROVE RunDated' /\ RowsDated' /\ Halfway' /\ Settled'
  <2>1. /\ replay.at # "replay" /\ RunDated /\ RowsDated /\ Settled
    BY <1>1, <1>3, AloneRun
  <2>2. RowsDated' /\ Halfway' /\ Settled'
    BY <1>1, <2>1, StillKeeps DEF Halfway, AInv, StillIdle
  <2> QED BY <1>1, <2>2 DEF RunDated
<1> QED BY <1>1, <1>2, <1>3 DEF AInv

(***************************************************************************)
(* The replay, which has no run beside it.                                 *)
(***************************************************************************)
LEMMA AloneReplay ==
    ASSUME AInv, ~overlapped, replay # Idle
    PROVE  /\ run = Idle /\ run.at = "idle"
           /\ Filed /\ RowsDated /\ Halfway /\ Settled
<1>1. run = Idle
  BY DEF AInv, Inv, Undisturbed
<1> QED BY <1>1 DEF AInv, Idle

LEMMA ReadRowsDates == ASSUME AInv, ReadRows PROVE AInv'
<1>1. /\ replay'.at = "select" /\ UNCHANGED run /\ Still
      /\ overlapped' = (overlapped \/ run # Idle)
  BY DEF ReadRows, Still
<1>2. Filed' /\ Inv'
  BY <1>1, StillKeeps, ReadRowsKeeps DEF AInv
<1>3. ASSUME ~overlapped' PROVE RunDated' /\ RowsDated' /\ Halfway' /\ Settled'
  <2>1. ~overlapped /\ run = Idle
    BY <1>1, <1>3, Zenon
  <2>2. run' = Idle /\ run'.at = "idle" /\ RowsDated /\ Settled
    BY <1>1, <2>1 DEF AInv, Idle
  <2>3. RowsDated' /\ Settled'
    BY <1>1, <2>2, StillKeeps DEF AInv, StillIdle
  <2> QED BY <1>1, <2>2, <2>3 DEF RunDated, Halfway
<1> QED BY <1>2, <1>3 DEF AInv

LEMMA RollbackDates == ASSUME AInv, RollbackReplay PROVE AInv'
<1>1. /\ replay # Idle /\ replay'.at = "idle" /\ UNCHANGED <<run, overlapped>> /\ Still
  BY DEF RollbackReplay, Still, Idle
<1>2. Filed' /\ Inv'
  BY <1>1, StillKeeps, RollbackKeeps DEF AInv
<1>3. ASSUME ~overlapped PROVE RunDated' /\ RowsDated' /\ Halfway' /\ Settled'
  <2>1. run = Idle /\ run.at = "idle" /\ RowsDated /\ Settled
    BY <1>1, <1>3, AloneReplay
  <2>2. RowsDated' /\ Settled'
    BY <1>1, <2>1, StillKeeps DEF AInv, StillIdle
  <2> QED BY <1>1, <2>1, <2>2 DEF RunDated, Halfway
<1> QED BY <1>1, <1>2, <1>3 DEF AInv

LEMMA ReadArchiveDates == ASSUME AInv, ReadArchive PROVE AInv'
<1>1. /\ replay # Idle /\ replay'.at = "replay" /\ UNCHANGED <<run, overlapped>> /\ Still
      /\ replay'.want = replay.view /\ replay'.read = Len(archive)
      /\ replay'.left = DOMAIN archive
  BY DEF ReadArchive, Still, Idle
<1>2. Filed' /\ Inv'
  BY <1>1, StillKeeps, ReadArchiveKeeps DEF AInv
<1>3. ASSUME ~overlapped PROVE RunDated' /\ RowsDated' /\ Halfway' /\ Settled'
  <2>1. run = Idle /\ run.at = "idle" /\ Filed /\ RowsDated /\ Settled
    BY <1>1, <1>3, AloneReplay
  <2>2. replay.view = rows
    BY <1>1, <1>3 DEF AInv, Inv, Undisturbed
  <2>3. RowsDated'
    BY <1>1, <2>1, <2>2 DEF RowsDated, Backed, Dates, Told, Tells, Reading, Still
  <2>4. Settled'
    BY <1>1, <2>1, StillKeeps DEF AInv, StillIdle
  <2>5. Behind' = {}
    BY <1>1 DEF Behind, Still
  <2>6. Halfway'
    BY <1>1, <2>5 DEF Halfway, Says, Still
  <2> QED BY <1>1, <2>1, <2>3, <2>4, <2>6 DEF RunDated
<1> QED BY <1>1, <1>2, <1>3 DEF AInv

LEMMA ReplayPayloadDates == ASSUME AInv, ReplayPayload PROVE AInv'
<1>0. PICK n0 \in Oldest(replay.left) :
         replay' = [replay EXCEPT !.want = Replayed(@, archive[n0], replay.known),
                                  !.left = @ \ {n0}]
  BY DEF ReplayPayload
<1> DEFINE p    == Reading(archive[n0].record)
           want == Replayed(replay.want, archive[n0], replay.known)
<1>1. /\ replay # Idle /\ replay.at = "replay"
      /\ UNCHANGED <<run, overlapped>> /\ Still
      /\ DOMAIN replay = {"at", "view", "known", "want", "left", "read"}
      /\ IsRows(replay.want)
  BY DEF ReplayPayload, Still, Idle, AInv, Inv, Shape, ReplayShape
<1>2. /\ replay'.at = "replay" /\ replay'.want = want /\ replay'.left = replay.left \ {n0}
      /\ replay'.read = replay.read
  BY <1>0, <1>1
<1>3. Filed' /\ Inv'
  BY <1>1, StillKeeps, ReplayPayloadKeeps DEF AInv
<1>4. ASSUME ~overlapped PROVE RunDated' /\ RowsDated' /\ Halfway' /\ Settled'
  <2>1. run = Idle /\ run.at = "idle" /\ Filed /\ RowsDated /\ Halfway /\ Settled
    BY <1>1, <1>4, AloneReplay
  <2>2. Settled'
    BY <1>1, <2>1, StillKeeps DEF AInv, StillIdle
  <2>3. /\ replay.read = Len(archive) /\ replay.left \subseteq DOMAIN archive
        /\ \A m \in Behind, n \in replay.left : archive[m].at <= archive[n].at
    BY <1>1, <2>1 DEF Halfway
  <2>4. /\ n0 \in replay.left /\ n0 \in DOMAIN archive
        /\ \A n \in replay.left : archive[n0].at <= archive[n].at
    BY <2>3 DEF Oldest
  <2>5. Told(n0) = p /\ \A id : Tells(n0, id) <=> p # Unusable /\ p.id = id
    BY DEF Told, Tells
  <2>6. /\ DOMAIN want = DOMAIN replay.want
        /\ \A id \in DOMAIN want :
              want[id] = IF Tells(n0, id) THEN Corrected(replay.want[id], p, replay.known)
                         ELSE replay.want[id]
    <3> HIDE DEF p
    <3> QED BY <2>5 DEF Replayed, p
  <2> HIDE DEF want, p
  <2>7. ASSUME NEW id \in DOMAIN want
        PROVE  IF Tells(n0, id)
               THEN /\ want[id].title = Told(n0).title
                    /\ want[id].lat = Told(n0).lat /\ want[id].lon = Told(n0).lon
                    /\ want[id].posted = Or(Told(n0).posted, replay.want[id].posted)
               ELSE want[id] = replay.want[id]
    BY <1>1, <2>5, <2>6, CorrectedColumns DEF IsRows
  <2>8. RowsDated'
    <3>1. ASSUME NEW id \in DOMAIN want PROVE Backed(want[id], id)
      <4>1. Backed(replay.want[id], id)
        BY <1>1, <2>1, <2>6 DEF RowsDated
      <4>2. CASE Dates(n0, id)
        BY <2>4, <4>2 DEF Backed
      <4>3. CASE ~Dates(n0, id)
        <5>1. want[id].posted = replay.want[id].posted
          BY <2>7, <4>3 DEF Dates, Or
        <5> QED BY <4>1, <5>1 DEF Backed
      <4> QED BY <4>2, <4>3
    <3> QED BY <1>1, <1>2, <2>1, <3>1 DEF RowsDated, Backed, Dates, Told, Tells, Reading, Still
  <2>9. Behind' = Behind \cup {n0} /\ Behind \in SUBSET DOMAIN archive
    BY <1>1, <1>2, <2>4 DEF Behind, Still
  <2>10. ToldApart' <=> ToldApart
    BY <1>1 DEF ToldApart, Tells, Reading, Still
  <2>11. ASSUME ToldApart, NEW id \in DOMAIN want
         PROVE  Says(want[id], id, Behind')
    <3>1. Says(replay.want[id], id, Behind)
      BY <1>1, <2>1, <2>6, <2>11 DEF Halfway
    <3>2. \A d \in Behind : archive[d].at <= archive[n0].at
      BY <2>3, <2>4
    <3>3. Says(want[id], id, Behind \cup {n0})
      BY <2>1, <2>4, <2>7, <2>9, <2>11, <3>1, <3>2, SaysNext
    <3> QED BY <2>9, <3>3
  <2>12. ToldApart' => \A id \in DOMAIN replay'.want : Says(replay.want[id], id, Behind)'
    BY <1>1, <1>2, <2>10, <2>11 DEF Says, Dates, Told, Tells, Reading, Still
  <2>13. \A m \in Behind', n \in replay'.left : archive[m].at <= archive[n].at
    BY <1>2, <2>3, <2>4, <2>9
  <2>14. Halfway'
    BY <1>1, <1>2, <2>3, <2>12, <2>13 DEF Halfway, Still
  <2> QED BY <1>1, <2>1, <2>2, <2>8, <2>14 DEF RunDated
<1> QED BY <1>1, <1>3, <1>4 DEF AInv

LEMMA CommitReplayDates == ASSUME AInv, CommitReplay PROVE AInv'
<1> DEFINE view == replay.view
           want == replay.want
<1>1. /\ replay # Idle /\ replay.at = "replay" /\ replay' = Idle /\ replay'.at = "idle"
      /\ replay.left = {} /\ DOMAIN rows' = DOMAIN rows
      /\ last'.read = replay.read /\ last'.parser = parser
      /\ UNCHANGED <<archive, parser, run, overlapped, runs>>
      /\ \A id \in DOMAIN rows :
            rows'[id] = IF id \in Touched THEN WriteColumns(rows[id], view[id], want[id])
                        ELSE rows[id]
  BY DEF CommitReplay, Idle
<1>2. Inv'
  BY CommitReplayKeeps DEF AInv
<1>3. ASSUME ~overlapped
      PROVE  RunDated' /\ RowsDated' /\ Halfway' /\ Settled'
  <2>1. run = Idle /\ run.at = "idle" /\ Filed /\ RowsDated /\ Halfway /\ Settled
    BY <1>1, <1>3, AloneReplay
  <2>2. /\ view = rows /\ DOMAIN want = DOMAIN rows /\ IsRows(rows)
    BY <1>1, <1>3 DEF AInv, Inv, Undisturbed, Shape, ReplayShape
  <2>3. \A id \in DOMAIN rows :
           /\ rows'[id].title = want[id].title /\ rows'[id].lat = want[id].lat
           /\ rows'[id].lon = want[id].lon /\ rows'[id].posted = want[id].posted
    <3> TAKE id \in DOMAIN rows
    <3>1. DOMAIN rows[id] = Fields
      BY <2>2 DEF IsRows
    <3>2. CASE id \in Touched
      BY <1>1, <2>2, <3>1, <3>2 DEF WriteColumns, Fields
    <3>3. CASE id \notin Touched
      BY <1>1, <2>2, <3>3 DEF Touched
    <3> QED BY <3>2, <3>3
  <2> HIDE DEF view, want
  <2>4. replay.read = Len(archive) /\ Len(archive) \in Nat
    BY <1>1, <2>1 DEF Halfway, Filed
  <2>5. RowsDated'
    <3>1. \A id \in DOMAIN rows : Backed(want[id], id)
      BY <1>1, <2>1, <2>2 DEF RowsDated, want
    <3> QED BY <1>1, <2>3, <3>1 DEF RowsDated, Backed, Dates, Told, Tells, Reading
  <2>6. Settled'
    <3>1. ASSUME ToldApart, NEW id \in DOMAIN rows
          PROVE  Says(want[id], id, DOMAIN archive)
      BY <1>1, <2>1, <2>2, <3>1 DEF Halfway, Behind, want
    <3>2. ToldApart' <=> ToldApart
      BY <1>1 DEF ToldApart, Tells, Reading
    <3>3. ASSUME ToldApart, NEW id \in DOMAIN rows
          PROVE  Says(rows[id], id, DOMAIN archive)'
      BY <1>1, <2>3, <3>1, <3>3 DEF Says, Dates, Told, Tells, Reading
    <3> QED BY <1>1, <2>1, <2>4, <3>2, <3>3 DEF Settled
  <2> QED BY <1>1, <2>1, <2>5, <2>6 DEF RunDated, Halfway
<1>4. Filed'
  BY <1>1, ReparseAssumption DEF AInv, Filed
<1> QED BY <1>1, <1>2, <1>3, <1>4 DEF AInv

-------------------------------------------------------------------------------
LEMMA NextAInv == ASSUME KeepsDates, AInv, [Next]_vars PROVE AInv'
<1>1. CASE UNCHANGED vars
  <2>1. Still /\ UNCHANGED <<run, replay, overlapped>>
    BY <1>1 DEF vars, Still
  <2>2. Filed' /\ Inv'
    BY <1>1, <2>1, StillKeeps, FrameKeeps DEF AInv, vars
  <2>3. RunDated /\ RowsDated => RunDated' /\ RowsDated'
    BY <2>1 DEF RunDated, RowsDated, Backed, Dates, Told, Tells, Reading, Writing, Still
  <2>4. Halfway => Halfway'
    BY <2>1 DEF Halfway, Behind, ToldApart, Says, Dates, Told, Tells, Reading, Still
  <2>5. Settled => Settled'
    BY <2>1 DEF Settled, ToldApart, Says, Dates, Told, Tells, Reading, Still
  <2> QED BY <2>1, <2>2, <2>3, <2>4, <2>5 DEF AInv
<1> QED BY <1>1, DeployDates, ArchiveDates, PassOverDates, ReadListingDates,
           WriteListingDates, CommitRunDates, RunFailsDates, ReadRowsDates,
           ReadArchiveDates, ReplayPayloadDates, CommitReplayDates, RollbackDates DEF Next

(***************************************************************************)
(* LeavesFreshFields: when no run and replay overlapped and no feed told   *)
(* of a listing twice, reparse_source leaves in every listing the title,   *)
(* the position, the geohash and the posting date that a run over the      *)
(* whole archive would give it; provided that no later parser loses a date *)
(* that an earlier one read, since a replay never clears one.              *)
(***************************************************************************)
THEOREM ReplayIsFreshRun ==
    ASSUME KeepsDates
    PROVE  Spec => []LeavesFreshFields
<1>1. Init => AInv
  BY InitAInv
<1>2. AInv /\ [Next]_vars => AInv'
  BY NextAInv
<1>3. AInv => LeavesFreshFields
  BY SettledIsFresh
<1> QED BY <1>1, <1>2, <1>3, PTL DEF Spec
===============================================================================
