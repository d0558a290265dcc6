----------------------------- MODULE DigestProofs -----------------------------
(***************************************************************************)
(* Theorems about Digest, for any sessions, listings, days and faults:     *)
(* sent_at is set only for a day whose email was accepted, and the guard   *)
(* that reads it leaves one email a day to sessions that do not overlap.   *)
(***************************************************************************)
EXTENDS Digest, TLAPS

Building  == {"pick", "flush", "deliver"}
Delivered == {"sent", "unsent"}

LinkMaps == UNION {[S -> Int] : S \in SUBSET Ids}
Row      == [opps : SUBSET Ids, links : LinkMaps, sent : BOOLEAN]
Mail     == [day : Days, links : LinkMaps, forced : BOOLEAN]

(***************************************************************************)
(* The part of TypeOK that the arguments need.  Where a link leads to does *)
(* not matter here.                                                        *)
(***************************************************************************)
Shape ==
    /\ day \in Days
    /\ report \in [Days -> Row \cup {Null}]
    /\ mails \in Seq(Mail)
    /\ pc \in [Workers -> Places]
    /\ date \in [Workers -> Days]
    /\ opps \in [Workers -> SUBSET Ids]
    /\ force \in [Workers -> BOOLEAN]
    /\ view \in [Workers -> Row \cup {Null}]
    /\ links \in [Workers -> LinkMaps]
    /\ overlapped \in BOOLEAN
    /\ faults \in Seq(FaultKinds)

(***************************************************************************)
(* A session past save_report has its row in the table, and one whose      *)
(* delivery succeeded has its email accepted.                              *)
(***************************************************************************)
RowThere == \A w \in Workers : pc[w] \in Building \cup Delivered => report[date[w]] # Null
SentMailed == \A w \in Workers : pc[w] = "sent" => Mailed(date[w])

SentInv == Shape /\ RowThere /\ SentMailed /\ SentMeansMailed

-------------------------------------------------------------------------------
(***************************************************************************)
(* What a session stores is a row, and so not the absence of one.          *)
(***************************************************************************)
LEMMA RowNotNull == \A row \in Row : row # Null
BY NullAssumption DEF Row, LinkMaps

LEMMA NoneIsLinkMap == None \in LinkMaps
<1>1. None \in [{} -> Int]
  BY DEF None
<1> QED BY <1>1 DEF LinkMaps

LEMMA EndSessionShape ==
    ASSUME Shape, NEW w \in Workers, EndSession(w)
    PROVE  /\ pc' \in [Workers -> Places]
           /\ date' \in [Workers -> Days]
           /\ opps' \in [Workers -> SUBSET Ids]
           /\ force' \in [Workers -> BOOLEAN]
           /\ view' \in [Workers -> Row \cup {Null}]
           /\ links' \in [Workers -> LinkMaps]
<1>1. 1 \in Days
  BY DigestAssumption DEF Days
<1> QED BY <1>1, NoneIsLinkMap DEF Shape, EndSession, GoTo, Places

LEMMA SavedIsRow == ASSUME Shape, NEW w \in Workers PROVE Saved(w) \in Row
<1>1. opps[w] \in SUBSET Ids
  BY DEF Shape
<1>2. (report[date[w]] # Null /\ report[date[w]].sent) \in BOOLEAN
  OBVIOUS
<1> QED BY <1>1, <1>2, NoneIsLinkMap DEF Saved, Row

LEMMA ContentIsRow ==
    ASSUME Shape, NEW w \in Workers, NEW sent \in BOOLEAN PROVE Content(w, sent) \in Row
<1>1. opps[w] \in SUBSET Ids /\ links[w] \in LinkMaps
  BY DEF Shape
<1>2. (sent \/ report[date[w]].sent) \in BOOLEAN
  OBVIOUS
<1> QED BY <1>1, <1>2 DEF Content, Row

LEMMA MailDays == Shape => \A m \in 1..Len(mails) : mails[m].day \in Days
<1> SUFFICES ASSUME Shape, NEW m \in 1..Len(mails) PROVE mails[m].day \in Days
  OBVIOUS
<1>1. mails[m] \in Mail
  BY DEF Shape
<1> QED BY <1>1 DEF Mail

LEMMA AcceptedMail ==
    ASSUME Shape, NEW w \in Workers, Accepted(w)
    PROVE  /\ mails' \in Seq(Mail)
           /\ Len(mails) \in Nat
           /\ Len(mails') = Len(mails) + 1
           /\ mails'[Len(mails) + 1].day = date[w]
           /\ mails'[Len(mails) + 1].forced = force[w]
           /\ \A k \in 1..Len(mails) : mails'[k] = mails[k]
<1> DEFINE m == [day |-> date[w], links |-> links[w], forced |-> force[w]]
<1>1. m \in Mail
  BY DEF Shape, Mail
<1>2. mails \in Seq(Mail) /\ mails' = Append(mails, m)
  BY DEF Shape, Accepted
<1>3. m.day = date[w] /\ m.forced = force[w]
  OBVIOUS
<1> HIDE DEF m
<1> QED BY <1>1, <1>2, <1>3

(***************************************************************************)
(* A day that was mailed stays mailed.                                     *)
(***************************************************************************)
LEMMA MailedStays ==
    ASSUME Shape, NEW w \in Workers, Accepted(w), NEW d, Mailed(d)
    PROVE  Mailed(d)'
<1>1. PICK k \in 1..Len(mails) : mails[k].day = d
  BY DEF Mailed
<1>2. k \in 1..Len(mails') /\ mails'[k] = mails[k]
  BY AcceptedMail
<1> QED BY <1>1, <1>2 DEF Mailed

LEMMA NowMailed ==
    ASSUME Shape, NEW w \in Workers, Accepted(w), NEW d, d = date[w] PROVE Mailed(d)'
<1>1. /\ Len(mails) + 1 \in 1..Len(mails')
      /\ mails'[Len(mails) + 1].day = date[w]
  BY AcceptedMail
<1> QED BY <1>1 DEF Mailed

(***************************************************************************)
(* The links a session picks lead somewhere.                               *)
(***************************************************************************)
LEMMA PickedLinks ==
    ASSUME Shape, NEW w \in Workers, PickLinks(w)
    PROVE  links' \in [Workers -> LinkMaps]
<1> DEFINE found == {r \in RecsOf(date[w]) : recs[r].listing \in opps[w]}
           S == {recs[r].listing : r \in found}
           f == [i \in S |-> CHOOSE r \in found : recs[r].listing = i]
<1>1. S \in SUBSET Ids
  BY DEF Shape
<1>2. ASSUME NEW i \in S PROVE f[i] \in Int
  <2>1. PICK r \in found : recs[r].listing = i
    OBVIOUS
  <2>2. (CHOOSE q \in found : recs[q].listing = i) \in found
    <3> HIDE DEF found
    <3> QED BY <2>1
  <2>3. f[i] \in found
    <3> HIDE DEF found
    <3> QED BY <2>2
  <2>4. found \subseteq 1..Len(recs)
    BY DEF RecsOf
  <2>5. f[i] \in 1..Len(recs)
    <3> HIDE DEF found, f
    <3> QED BY <2>3, <2>4
  <2> HIDE DEF f
  <2> QED BY <2>5
<1>3. f \in [S -> Int]
  BY <1>2
<1>4. f \in LinkMaps
  <2> HIDE DEF f, S
  <2> QED BY <1>1, <1>3 DEF LinkMaps
<1>5. links' = [links EXCEPT ![w] = f]
  BY DEF PickLinks
<1> HIDE DEF f
<1> QED BY <1>4, <1>5 DEF Shape

-------------------------------------------------------------------------------
(***************************************************************************)
(* Every step keeps the shape.                                             *)
(***************************************************************************)
LEMMA BuildShape ==
    ASSUME Shape, NEW w \in Workers, NEW forced \in BOOLEAN, Build(w, forced)
    PROVE  Shape'
<1>1. PICK o \in SUBSET Ids : opps' = [opps EXCEPT ![w] = o]
  BY DEF Build
<1>2. overlapped' \in BOOLEAN
  BY DEF Build
<1>3. view' \in [Workers -> Row \cup {Null}]
  BY DEF Build, Shape
<1> QED BY <1>1, <1>2, <1>3 DEF Build, Shape, GoTo, Places, tables

LEMMA FaultShape ==
    ASSUME Shape, NEW kind, Fault(kind)
    PROVE  /\ faults' \in Seq(FaultKinds)
           /\ Len(faults') = Len(faults) + 1
           /\ faults'[Len(faults) + 1] = kind
           /\ \A k \in 1..Len(faults) : faults'[k] = faults[k]
BY DEF Shape, Fault

LEMMA ShapeStep == ASSUME Shape, [Next]_vars PROVE Shape'
<1> USE DEF tables, session, history
<1>1. CASE UNCHANGED vars
  BY <1>1 DEF vars, Shape
<1>2. CASE NewDay
  BY <1>2, DigestAssumption DEF NewDay, Shape, Days
<1>3. ASSUME NEW w \in Workers, Daily(w) PROVE Shape'
  BY <1>3, BuildShape DEF Daily
<1>4. ASSUME NEW w \in Workers, Rerun(w) PROVE Shape'
  BY <1>4, BuildShape, DigestAssumption DEF Rerun
<1>5. ASSUME NEW w \in Workers, SaveReport(w) PROVE Shape'
  <2>1. report' \in [Days -> Row \cup {Null}]
    BY <1>5, SavedIsRow DEF SaveReport, Shape
  <2>2. CASE AlreadySent(w)
    BY <1>5, <2>1, <2>2, EndSessionShape DEF SaveReport, Shape
  <2>3. CASE ~AlreadySent(w)
    BY <1>5, <2>1, <2>3 DEF SaveReport, Shape, GoTo, Places
  <2> QED BY <2>2, <2>3
<1>6. ASSUME NEW w \in Workers, SaveCollides(w) PROVE Shape'
  BY <1>6, EndSessionShape DEF SaveCollides, Shape
<1>7. ASSUME NEW w \in Workers, PickLinks(w) PROVE Shape'
  <2>1. links' \in [Workers -> LinkMaps]
    BY <1>7, PickedLinks
  <2> QED BY <1>7, <2>1 DEF PickLinks, Shape, GoTo, Places
<1>8. ASSUME NEW w \in Workers, FlushLinks(w) PROVE Shape'
  BY <1>8 DEF FlushLinks, Shape, GoTo, Places
<1>9. ASSUME NEW w \in Workers, Deliver(w) PROVE Shape'
  <2>1. mails' \in Seq(Mail)
    BY <1>9, AcceptedMail DEF Deliver
  <2> QED BY <1>9, <2>1 DEF Deliver, Shape, GoTo, Places
<1>10. ASSUME NEW w \in Workers, DeliveryFails(w) PROVE Shape'
  <2>1. mails' \in Seq(Mail)
    BY <1>10, AcceptedMail DEF DeliveryFails, Shape
  <2>2. faults' \in Seq(FaultKinds)
    BY <1>10, FaultShape DEF DeliveryFails
  <2> QED BY <1>10, <2>1, <2>2 DEF DeliveryFails, Shape, GoTo, Places
<1>11. ASSUME NEW w \in Workers, Commit(w) PROVE Shape'
  <2>1. Content(w, pc[w] = "sent") \in Row
    BY ContentIsRow
  <2>2. report' \in [Days -> Row \cup {Null}]
    BY <1>11, <2>1 DEF Commit, Shape
  <2> QED BY <1>11, <2>2, EndSessionShape DEF Commit, Shape
<1>12. ASSUME NEW w \in Workers, Crash(w) PROVE Shape'
  BY <1>12, EndSessionShape, FaultShape DEF Crash, Shape
<1>13. ASSUME NEW m \in 1..Len(mails), NEW i \in Ids, Vote(m, i) PROVE Shape'
  BY <1>13 DEF Vote, Shape
<1> QED
  BY <1>1, <1>2, <1>3, <1>4, <1>5, <1>6, <1>7, <1>8, <1>9, <1>10, <1>11, <1>12, <1>13
  DEF Next, Advance

-------------------------------------------------------------------------------
(***************************************************************************)
(* A step that leaves the report table and the emails alone, and whose     *)
(* session ends or stays on its side of save_report and of the delivery.   *)
(***************************************************************************)
StaysOrEnds(w) ==
    /\ UNCHANGED <<report, mails>>
    /\ \A v \in Workers \ {w} : pc'[v] = pc[v] /\ date'[v] = date[v]
    /\ \/ pc'[w] \in {"idle", "save"}
       \/ /\ pc[w] \in Building
          /\ pc'[w] \in Building
          /\ date'[w] = date[w]

LEMMA StaysOrEndsKeeps ==
    ASSUME SentInv, NEW w \in Workers, StaysOrEnds(w)
    PROVE  RowThere' /\ SentMailed' /\ SentMeansMailed'
<1>1. \A d : Mailed(d)' <=> Mailed(d)
  BY DEF StaysOrEnds, Mailed
<1>2. ASSUME NEW v \in Workers, pc'[v] \in Building \cup Delivered
      PROVE  /\ date'[v] = date[v]
             /\ pc[v] \in Building \cup Delivered
             /\ pc'[v] = "sent" => pc[v] = "sent"
  BY <1>2 DEF StaysOrEnds, Building, Delivered
<1>3. RowThere'
  BY <1>2 DEF RowThere, SentInv, StaysOrEnds
<1>4. SentMailed'
  BY <1>1, <1>2 DEF SentMailed, SentInv, Delivered
<1>5. SentMeansMailed'
  BY <1>1 DEF SentMeansMailed, SentInv, StaysOrEnds
<1> QED BY <1>3, <1>4, <1>5

(***************************************************************************)
(* save_report keeps sent_at as the table has it.                          *)
(***************************************************************************)
LEMMA SaveKeepsSent ==
    ASSUME SentInv, NEW w \in Workers, SaveReport(w)
    PROVE  RowThere' /\ SentMailed' /\ SentMeansMailed'
<1>1. \A d : Mailed(d)' <=> Mailed(d)
  BY DEF SaveReport, Mailed
<1>2. Saved(w) # Null /\ date[w] \in Days
  BY SavedIsRow, RowNotNull DEF SentInv, Shape
<1>3. report' = [report EXCEPT ![date[w]] = Saved(w)]
  BY DEF SaveReport
<1>4. \A d \in Days : report'[d] = IF d = date[w] THEN Saved(w) ELSE report[d]
  BY <1>3 DEF SentInv, Shape
<1>5. \A v \in Workers \ {w} : pc'[v] = pc[v] /\ date'[v] = date[v]
  BY DEF SaveReport, EndSession, GoTo, SentInv, Shape
<1>6. pc'[w] = "idle" \/ (pc'[w] = "pick" /\ date'[w] = date[w])
  BY DEF SaveReport, EndSession, GoTo, SentInv, Shape
<1>7. RowThere'
  <2> SUFFICES ASSUME NEW v \in Workers, pc'[v] \in Building \cup Delivered
               PROVE  report'[date'[v]] # Null
    BY DEF RowThere
  <2>1. CASE v = w
    BY <2>1, <1>2, <1>4, <1>6 DEF Building, Delivered
  <2>2. CASE v # w
    <3>1. date[v] \in Days /\ report[date[v]] # Null /\ date'[v] = date[v]
      BY <2>2, <1>5 DEF SentInv, Shape, RowThere
    <3> QED BY <3>1, <1>2, <1>4
  <2> QED BY <2>1, <2>2
<1>8. SentMailed'
  BY <1>1, <1>5, <1>6 DEF SentMailed, SentInv
<1>9. SentMeansMailed'
  <2> SUFFICES ASSUME NEW d \in Days, report'[d] # Null, report'[d].sent PROVE Mailed(d)
    BY <1>1 DEF SentMeansMailed
  <2>1. CASE d = date[w]
    <3>1. report[d] # Null /\ report[d].sent
      <4>1. Saved(w).sent = (report[d] # Null /\ report[d].sent)
        BY <2>1 DEF Saved
      <4>2. report'[d] = Saved(w)
        BY <2>1, <1>4
      <4> QED BY <4>1, <4>2
    <3> QED BY <3>1 DEF SentInv, SentMeansMailed
  <2>2. CASE d # date[w]
    BY <2>2, <1>4 DEF SentInv, SentMeansMailed
  <2> QED BY <2>1, <2>2
<1> QED BY <1>7, <1>8, <1>9

(***************************************************************************)
(* An accepted email is on record before its session can set sent_at.      *)
(***************************************************************************)
LEMMA AcceptedKeeps ==
    ASSUME SentInv, NEW w \in Workers, Accepted(w), pc[w] = "deliver",
           NEW place \in Delivered, GoTo(w, place), UNCHANGED <<report, date>>
    PROVE  RowThere' /\ SentMailed' /\ SentMeansMailed'
<1> USE DEF SentInv
<1>1. \A v \in Workers : pc'[v] = IF v = w THEN place ELSE pc[v]
  BY DEF GoTo, Shape
<1>2. \A d \in Days : Mailed(d) => Mailed(d)'
  BY MailedStays
<1>3. \A v \in Workers : date'[v] = date[v] /\ date[v] \in Days
  BY DEF Shape
<1>4. Mailed(date[w])'
  BY NowMailed, <1>3 DEF Mailed
<1>5. RowThere'
  BY <1>1, <1>3 DEF RowThere, Building, Delivered
<1>6. SentMailed'
  <2> SUFFICES ASSUME NEW v \in Workers, pc'[v] = "sent" PROVE Mailed(date[v])'
    BY DEF SentMailed
  <2>1. CASE v = w
    BY <2>1, <1>4
  <2>2. CASE v # w
    <3>1. Mailed(date[v])
      BY <2>2, <1>1 DEF SentMailed
    <3>2. PICK d \in Days : d = date[v]
      BY <1>3
    <3>3. Mailed(d)'
      BY <3>1, <3>2, <1>2
    <3> QED BY <3>2, <3>3, <1>3 DEF Mailed
  <2> QED BY <2>1, <2>2
<1>7. SentMeansMailed'
  BY <1>2 DEF SentMeansMailed
<1> QED BY <1>5, <1>6, <1>7

(***************************************************************************)
(* The last commit sets sent_at only after a delivery that succeeded.      *)
(***************************************************************************)
LEMMA CommitKeeps ==
    ASSUME SentInv, NEW w \in Workers, Commit(w)
    PROVE  RowThere' /\ SentMailed' /\ SentMeansMailed'
<1> USE DEF SentInv
<1> DEFINE row == Content(w, pc[w] = "sent")
<1>1. \A d : Mailed(d)' <=> Mailed(d)
  BY DEF Commit, Mailed
<1>2. row # Null /\ date[w] \in Days
  BY ContentIsRow, RowNotNull DEF Shape
<1>3. report' = [report EXCEPT ![date[w]] = row]
  BY DEF Commit
<1>4. \A d \in Days : report'[d] = IF d = date[w] THEN row ELSE report[d]
  <2> HIDE DEF row
  <2> QED BY <1>3 DEF Shape
<1>5. /\ \A v \in Workers \ {w} : pc'[v] = pc[v] /\ date'[v] = date[v]
      /\ pc'[w] = "idle"
  BY DEF Commit, EndSession, GoTo, Shape
<1>6. RowThere'
  <2> HIDE DEF row
  <2> QED BY <1>2, <1>4, <1>5 DEF RowThere, Building, Delivered, Shape
<1>7. SentMailed'
  BY <1>1, <1>5 DEF SentMailed
<1>8. SentMeansMailed'
  <2> SUFFICES ASSUME NEW d \in Days, report'[d] # Null, report'[d].sent PROVE Mailed(d)
    BY <1>1 DEF SentMeansMailed
  <2>1. CASE d = date[w]
    <3>1. pc[w] = "sent" \/ report[d].sent
      <4>1. row.sent = ((pc[w] = "sent") \/ report[d].sent)
        BY <2>1 DEF Content
      <4>2. report'[d] = row
        BY <2>1, <1>4
      <4> HIDE DEF row
      <4> QED BY <4>1, <4>2
    <3>2. report[d] # Null
      BY <2>1 DEF Commit, RowThere, Delivered
    <3> QED BY <3>1, <3>2, <2>1 DEF SentMailed, SentMeansMailed
  <2>2. CASE d # date[w]
    <3> HIDE DEF row
    <3> QED BY <2>2, <1>4 DEF SentMeansMailed
  <2> QED BY <2>1, <2>2
<1> QED BY <1>6, <1>7, <1>8

LEMMA SentInit == Init => SentInv
<1> SUFFICES ASSUME Init PROVE SentInv
  OBVIOUS
<1>1. 1 \in Days
  BY DigestAssumption DEF Days
<1>2. Shape
  <2>1. report \in [Days -> Row \cup {Null}] /\ view \in [Workers -> Row \cup {Null}]
    BY DEF Init
  <2>2. mails \in Seq(Mail) /\ faults \in Seq(FaultKinds)
    BY DEF Init
  <2>3. links \in [Workers -> LinkMaps]
    BY NoneIsLinkMap DEF Init
  <2>4. /\ pc \in [Workers -> Places]
        /\ date \in [Workers -> Days]
        /\ opps \in [Workers -> SUBSET Ids]
        /\ force \in [Workers -> BOOLEAN]
    BY <1>1 DEF Init, Places
  <2> QED BY <1>1, <2>1, <2>2, <2>3, <2>4 DEF Init, Shape
<1>3. RowThere /\ SentMailed /\ SentMeansMailed
  BY DEF Init, RowThere, SentMailed, SentMeansMailed, Building, Delivered
<1> QED BY <1>2, <1>3 DEF SentInv

LEMMA SentStep == ASSUME SentInv, [Next]_vars PROVE SentInv'
<1> USE DEF tables, session, history
<1> SUFFICES RowThere' /\ SentMailed' /\ SentMeansMailed'
  BY ShapeStep DEF SentInv
<1>1. CASE report' = report /\ mails' = mails /\ pc' = pc /\ date' = date
  BY <1>1 DEF SentInv, RowThere, SentMailed, SentMeansMailed, Mailed
<1>2. ASSUME NEW w \in Workers, NEW forced, Build(w, forced)
      PROVE  RowThere' /\ SentMailed' /\ SentMeansMailed'
  <2>1. StaysOrEnds(w)
    BY <1>2 DEF Build, StaysOrEnds, GoTo, SentInv, Shape
  <2> QED BY <2>1, StaysOrEndsKeeps
<1>3. ASSUME NEW w \in Workers, SaveReport(w)
      PROVE  RowThere' /\ SentMailed' /\ SentMeansMailed'
  BY <1>3, SaveKeepsSent
<1>4. ASSUME NEW w \in Workers, SaveCollides(w) \/ Crash(w)
      PROVE  RowThere' /\ SentMailed' /\ SentMeansMailed'
  <2>1. StaysOrEnds(w)
    BY <1>4 DEF SaveCollides, Crash, EndSession, StaysOrEnds, GoTo, SentInv, Shape
  <2> QED BY <2>1, StaysOrEndsKeeps
<1>5. ASSUME NEW w \in Workers, PickLinks(w) \/ FlushLinks(w)
      PROVE  RowThere' /\ SentMailed' /\ SentMeansMailed'
  <2>1. StaysOrEnds(w)
    BY <1>5 DEF PickLinks, FlushLinks, StaysOrEnds, Building, GoTo, SentInv, Shape
  <2> QED BY <2>1, StaysOrEndsKeeps
<1>6. ASSUME NEW w \in Workers, Deliver(w)
      PROVE  RowThere' /\ SentMailed' /\ SentMeansMailed'
  BY <1>6, AcceptedKeeps DEF Deliver, Delivered
<1>7. ASSUME NEW w \in Workers, DeliveryFails(w)
      PROVE  RowThere' /\ SentMailed' /\ SentMeansMailed'
  <2>1. CASE Accepted(w)
    BY <1>7, <2>1, AcceptedKeeps DEF DeliveryFails, Delivered
  <2>2. CASE UNCHANGED mails
    BY <1>7, <2>2 DEF DeliveryFails, GoTo, SentInv, Shape, RowThere, SentMailed,
                      SentMeansMailed, Mailed, Building, Delivered
  <2> QED BY <1>7, <2>1, <2>2 DEF DeliveryFails
<1>8. ASSUME NEW w \in Workers, Commit(w)
      PROVE  RowThere' /\ SentMailed' /\ SentMeansMailed'
  BY <1>8, CommitKeeps
<1>9. NewDay \/ (\E m \in 1..Len(mails) : \E i \in Ids : Vote(m, i)) \/ UNCHANGED vars
        => report' = report /\ mails' = mails /\ pc' = pc /\ date' = date
  BY DEF NewDay, Vote, vars
<1> QED
  BY <1>1, <1>2, <1>3, <1>4, <1>5, <1>6, <1>7, <1>8, <1>9 DEF Next, Advance, Daily, Rerun

(***************************************************************************)
(* sent_at marks a day only once its email was accepted: whatever fails,   *)
(* dies or overlaps between the delivery and the commit that records it.   *)
(***************************************************************************)
THEOREM SentIsMailed == Spec => []SentMeansMailed
<1>1. SentInv /\ [Next]_vars => SentInv'
  BY SentStep
<1>2. SentInv => SentMeansMailed
  BY DEF SentInv
<1> QED BY SentInit, <1>1, <1>2, PTL DEF Spec

-------------------------------------------------------------------------------
(***************************************************************************)
(* While sessions have not overlapped and no reply was lost and none died, *)
(* one session at most is at work; it has the row as the table has it when *)
(* it saves, it goes on only if the day is unsent or --force is given, and *)
(* an accepted email has marked its day, or its session is about to.       *)
(***************************************************************************)
Quiet == ~overlapped /\ RepliesArrive

Solo      == \A v, w \in Workers : pc[v] # "idle" /\ pc[w] # "idle" => v = w
FreshView == \A w \in Workers : pc[w] = "save" => view[w] = report[date[w]]
Unsent    == \A w \in Workers : pc[w] \in Building => force[w] \/ ~report[date[w]].sent
MarkedDay(d) == /\ report[d] # Null
                /\ report[d].sent \/ \E w \in Workers : pc[w] = "sent" /\ date[w] = d
Marked    == \A m \in 1..Len(mails) : MarkedDay(mails[m].day)
OneMail   == \A m, n \in 1..Len(mails) :
                m < n /\ mails[m].day = mails[n].day => mails[n].forced

Calm   == Solo /\ FreshView /\ Unsent /\ Marked /\ OneMail
OneInv == SentInv /\ (Quiet => Calm)

LEMMA QuietBefore == ASSUME Shape, [Next]_vars, Quiet' PROVE Quiet
<1> USE DEF tables, session, history
<1>1. overlapped => overlapped'
  BY DEF Shape, Next, vars, NewDay, Daily, Rerun, Build, Advance, SaveReport, SaveCollides,
         PickLinks, FlushLinks, Deliver, DeliveryFails, Commit, Crash, Vote
<1>2. \/ faults' = faults
      \/ \E kind \in FaultKinds : Fault(kind)
  BY DEF Next, vars, NewDay, Daily, Rerun, Build, Advance, SaveReport, SaveCollides,
         PickLinks, FlushLinks, Deliver, DeliveryFails, Commit, Crash, Vote, Fault
<1>3. RepliesArrive
  <2>1. CASE faults' = faults
    BY <2>1 DEF Quiet, RepliesArrive
  <2>2. ASSUME NEW kind \in FaultKinds, Fault(kind) PROVE RepliesArrive
    <3>1. /\ Len(faults) \in Nat
          /\ Len(faults') = Len(faults) + 1
          /\ \A k \in 1..Len(faults) : faults'[k] = faults[k]
      BY <2>2, FaultShape DEF Shape
    <3> QED BY <3>1 DEF Quiet, RepliesArrive
  <2> QED BY <1>2, <2>1, <2>2
<1> QED BY <1>1, <1>3 DEF Quiet

(***************************************************************************)
(* A lost reply and a death are not quiet.                                 *)
(***************************************************************************)
LEMMA FaultsAreOutages ==
    ASSUME Shape, NEW kind, Fault(kind), Quiet' PROVE kind = "outage"
<1>1. /\ Len(faults) + 1 \in 1..Len(faults')
      /\ faults'[Len(faults) + 1] = kind
  BY FaultShape DEF Shape
<1> QED BY <1>1 DEF Quiet, RepliesArrive

(***************************************************************************)
(* A session that begins alone.                                            *)
(***************************************************************************)
LEMMA BuildCalm ==
    ASSUME SentInv, Calm, NEW w \in Workers, NEW forced \in BOOLEAN, Build(w, forced),
           ~overlapped'
    PROVE  Calm'
<1> USE DEF SentInv, Shape, Calm, tables
<1>1. \A v \in Workers : pc[v] = "idle"
  BY DEF Build
<1>2. \A v \in Workers : pc'[v] = IF v = w THEN "save" ELSE "idle"
  BY <1>1 DEF Build, GoTo
<1>3. view'[w] = report'[date'[w]]
  BY DEF Build
<1>4. Marked'
  BY <1>1 DEF Build, Marked, MarkedDay
<1> QED BY <1>2, <1>3, <1>4 DEF Solo, FreshView, Unsent, OneMail, Building, Build

(***************************************************************************)
(* A session alone that ends with its report saved or not, or goes on with *)
(* it; what it stores leaves sent_at as it was.                            *)
(***************************************************************************)
LEMMA SaveCalm ==
    ASSUME SentInv, Calm, NEW w \in Workers, SaveReport(w)
    PROVE  Calm'
<1> USE DEF SentInv, Shape, Calm
<1>1. \A v \in Workers : v # w => pc[v] = "idle"
  BY DEF Solo, SaveReport
<1>2. \A v \in Workers : v # w => pc'[v] = "idle"
  BY <1>1 DEF SaveReport, EndSession, GoTo
<1>3. Saved(w) # Null /\ date[w] \in Days
  BY SavedIsRow, RowNotNull
<1>4. \A d \in Days : report'[d] = IF d = date[w] THEN Saved(w) ELSE report[d]
  BY DEF SaveReport
<1>5. Saved(w).sent = (report[date[w]] # Null /\ report[date[w]].sent)
  BY DEF Saved
<1>6. pc'[w] = "idle" \/ (pc'[w] = "pick" /\ ~AlreadySent(w) /\ UNCHANGED <<date, force>>)
  BY DEF SaveReport, EndSession, GoTo
<1>7. Unsent'
  <2> SUFFICES ASSUME pc'[w] = "pick" PROVE force[w] \/ ~Saved(w).sent
    BY <1>2, <1>3, <1>4, <1>6 DEF Unsent, Building
  <2>1. view[w] = report[date[w]]
    BY DEF FreshView, SaveReport
  <2>2. ~(view[w] # Null /\ view[w].sent /\ ~force[w])
    BY <1>6 DEF AlreadySent
  <2> QED BY <2>1, <2>2, <1>5
<1>8. Marked'
  <2>1. ASSUME NEW d \in Days, MarkedDay(d) PROVE MarkedDay(d)'
    <3>1. report[d] # Null /\ report[d].sent
      BY <2>1, <1>1 DEF MarkedDay, SaveReport
    <3>2. report'[d] # Null /\ report'[d].sent
      BY <3>1, <1>3, <1>4, <1>5
    <3> QED BY <3>2 DEF MarkedDay
  <2>2. \A m \in 1..Len(mails) : mails[m].day \in Days
    BY MailDays
  <2> QED BY <2>1, <2>2 DEF Marked, SaveReport
<1>9. Solo' /\ FreshView' /\ OneMail'
  BY <1>2, <1>6 DEF Solo, FreshView, OneMail, SaveReport
<1> QED BY <1>7, <1>8, <1>9

(***************************************************************************)
(* A session that ends before the delivery, or goes on towards it.         *)
(***************************************************************************)
LEMMA MovesCalm ==
    ASSUME SentInv, Calm, NEW w \in Workers,
           SaveCollides(w) \/ PickLinks(w) \/ FlushLinks(w)
    PROVE  Calm'
<1> USE DEF SentInv, Shape, Calm, tables
<1>1. UNCHANGED <<report, mails>>
  BY DEF SaveCollides, PickLinks, FlushLinks
<1>2. \A v \in Workers : v # w => pc'[v] = "idle" /\ pc[v] = "idle"
  BY DEF Solo, SaveCollides, PickLinks, FlushLinks, EndSession, GoTo
<1>3. \/ pc'[w] = "idle"
      \/ /\ pc[w] \in Building /\ pc'[w] \in Building
         /\ date'[w] = date[w] /\ force'[w] = force[w]
  BY DEF SaveCollides, PickLinks, FlushLinks, EndSession, GoTo, Building
<1>4. pc[w] # "sent"
  BY DEF SaveCollides, PickLinks, FlushLinks
<1>5. Marked'
  <2>1. \A d : MarkedDay(d) => MarkedDay(d)'
    BY <1>1, <1>2, <1>4 DEF MarkedDay
  <2> QED BY <1>1, <2>1 DEF Marked
<1> QED BY <1>1, <1>2, <1>3, <1>5 DEF Solo, FreshView, Unsent, OneMail, Building

(***************************************************************************)
(* An email goes out for a day that has none, or because --force asks.     *)
(***************************************************************************)
LEMMA DeliverCalm ==
    ASSUME SentInv, Calm, NEW w \in Workers, Deliver(w)
    PROVE  Calm'
<1> USE DEF SentInv, Shape, Calm, tables
<1>1. \A v \in Workers : v # w => pc[v] = "idle"
  BY DEF Solo, Deliver
<1>2. \A v \in Workers : pc'[v] = IF v = w THEN "sent" ELSE "idle"
  BY <1>1 DEF Deliver, GoTo
<1>3. UNCHANGED <<report, date>>
  BY DEF Deliver
<1>4. /\ Len(mails) \in Nat
      /\ Len(mails') = Len(mails) + 1
      /\ mails'[Len(mails) + 1].day = date[w]
      /\ mails'[Len(mails) + 1].forced = force[w]
      /\ \A k \in 1..Len(mails) : mails'[k] = mails[k]
  BY AcceptedMail DEF Deliver
<1>5. report[date[w]] # Null
  BY DEF RowThere, Deliver, Building
<1>6. ASSUME NEW m \in 1..Len(mails), mails[m].day = date[w] PROVE force[w]
  <2>1. report[date[w]].sent
    BY <1>6, <1>1 DEF Marked, MarkedDay, Deliver
  <2> QED BY <2>1 DEF Unsent, Deliver, Building
<1>7. OneMail'
  <2> SUFFICES ASSUME NEW m \in 1..Len(mails'), NEW n \in 1..Len(mails'), m < n,
                      mails'[m].day = mails'[n].day
               PROVE  mails'[n].forced
    BY DEF OneMail
  <2>1. CASE n \in 1..Len(mails)
    BY <2>1, <1>4 DEF OneMail
  <2>2. CASE n = Len(mails) + 1
    <3>1. m \in 1..Len(mails)
      BY <2>2, <1>4
    <3>2. mails[m].day = date[w]
      BY <3>1, <2>2, <1>4
    <3> QED BY <3>1, <3>2, <1>6, <2>2, <1>4
  <2> QED BY <2>1, <2>2, <1>4
<1>8. Marked'
  <2> SUFFICES ASSUME NEW m \in 1..Len(mails') PROVE MarkedDay(mails[m].day)'
    BY DEF Marked
  <2>1. CASE m = Len(mails) + 1
    BY <2>1, <1>2, <1>3, <1>4, <1>5 DEF MarkedDay
  <2>2. CASE m \in 1..Len(mails)
    <3>1. MarkedDay(mails[m].day) /\ mails'[m] = mails[m]
      BY <2>2, <1>4 DEF Marked
    <3>2. report[mails[m].day] # Null /\ report[mails[m].day].sent
      BY <3>1, <1>1 DEF MarkedDay, Deliver
    <3> QED BY <3>1, <3>2, <1>3 DEF MarkedDay
  <2> QED BY <2>1, <2>2, <1>4
<1>9. Solo' /\ FreshView' /\ Unsent'
  BY <1>2 DEF Solo, FreshView, Unsent, Building
<1> QED BY <1>7, <1>8, <1>9

(***************************************************************************)
(* An outage changes nothing, and a lost reply is not quiet.               *)
(***************************************************************************)
LEMMA OutageCalm ==
    ASSUME SentInv, Calm, NEW w \in Workers, DeliveryFails(w), Quiet'
    PROVE  Calm'
<1> USE DEF SentInv, Shape, Calm, tables
<1>1. UNCHANGED mails
  BY FaultsAreOutages DEF DeliveryFails
<1>2. UNCHANGED <<report, date, view, force>>
  BY DEF DeliveryFails
<1>3. \A v \in Workers : v # w => pc'[v] = "idle" /\ pc[v] = "idle"
  BY DEF Solo, DeliveryFails, GoTo
<1>4. pc[w] = "deliver" /\ pc'[w] = "unsent"
  BY DEF DeliveryFails, GoTo
<1>5. Marked'
  BY <1>1, <1>2, <1>3, <1>4 DEF Marked, MarkedDay
<1> QED BY <1>1, <1>2, <1>3, <1>4, <1>5 DEF Solo, FreshView, Unsent, OneMail, Building

(***************************************************************************)
(* The last commit marks the day that was mailed, and unmarks none.        *)
(***************************************************************************)
LEMMA CommitCalm ==
    ASSUME SentInv, Calm, NEW w \in Workers, Commit(w)
    PROVE  Calm'
<1> USE DEF SentInv, Shape, Calm
<1> DEFINE row == Content(w, pc[w] = "sent")
<1>1. \A v \in Workers : v # w => pc[v] = "idle"
  BY DEF Solo, Commit
<1>2. \A v \in Workers : pc'[v] = "idle"
  BY <1>1 DEF Commit, EndSession, GoTo
<1>3. row # Null /\ date[w] \in Days
  BY ContentIsRow, RowNotNull
<1>4. row.sent = (pc[w] = "sent" \/ report[date[w]].sent)
  BY DEF Content
<1>5. \A d \in Days : report'[d] = IF d = date[w] THEN row ELSE report[d]
  <2>1. report' = [report EXCEPT ![date[w]] = row]
    BY DEF Commit
  <2> HIDE DEF row
  <2> QED BY <2>1
<1>6. ASSUME NEW d \in Days, MarkedDay(d) PROVE MarkedDay(d)'
  <2> HIDE DEF row
  <2>1. CASE d = date[w]
    <3>1. pc[w] = "sent" \/ report[d].sent
      BY <1>6, <1>1 DEF MarkedDay
    <3>2. row.sent
      BY <3>1, <2>1, <1>4
    <3> QED BY <3>2, <2>1, <1>3, <1>5 DEF MarkedDay
  <2>2. CASE d # date[w]
    <3>1. report[d] # Null /\ report[d].sent
      BY <1>6, <1>1, <2>2 DEF MarkedDay
    <3> QED BY <3>1, <2>2, <1>5 DEF MarkedDay
  <2> QED BY <2>1, <2>2
<1>7. Marked'
  <2> HIDE DEF row
  <2> QED BY <1>6, MailDays DEF Marked, Commit
<1> QED BY <1>2, <1>7 DEF Solo, FreshView, Unsent, OneMail, Building, Commit

LEMMA OneInit == Init => OneInv
<1> SUFFICES ASSUME Init PROVE OneInv
  OBVIOUS
<1>1. Len(mails) = 0
  BY DEF Init
<1>2. Calm
  BY <1>1 DEF Init, Calm, Solo, FreshView, Unsent, Marked, OneMail, Building
<1> QED BY <1>2, SentInit DEF OneInv

LEMMA OneStep == ASSUME OneInv, [Next]_vars PROVE OneInv'
<1> USE DEF OneInv
<1>1. SentInv'
  BY SentStep
<1> SUFFICES ASSUME Quiet' PROVE Calm'
  BY <1>1
<1>2. SentInv /\ Shape /\ Calm
  BY QuietBefore DEF SentInv
<1>3. CASE UNCHANGED <<report, mails, pc, date, force, view>>
  BY <1>2, <1>3 DEF Calm, Solo, FreshView, Unsent, Marked, MarkedDay, OneMail
<1>4. ASSUME NEW w \in Workers, Daily(w) \/ Rerun(w) PROVE Calm'
  <2>1. PICK forced \in BOOLEAN : Build(w, forced)
    BY <1>4, DigestAssumption DEF Daily, Rerun
  <2> QED BY <1>2, <2>1, BuildCalm DEF Quiet
<1>5. ASSUME NEW w \in Workers, Advance(w) PROVE Calm'
  BY <1>2, <1>5, SaveCalm, MovesCalm, DeliverCalm, CommitCalm DEF Advance
<1>6. ASSUME NEW w \in Workers, DeliveryFails(w) PROVE Calm'
  BY <1>2, <1>6, OutageCalm
<1>7. ASSUME NEW w \in Workers, Crash(w) PROVE Calm'
  BY <1>2, <1>7, FaultsAreOutages DEF Crash
<1>8. NewDay \/ (\E m \in 1..Len(mails) : \E i \in Ids : Vote(m, i)) \/ UNCHANGED vars
        => UNCHANGED <<report, mails, pc, date, force, view>>
  BY DEF NewDay, Vote, vars, tables, session
<1> QED BY <1>3, <1>4, <1>5, <1>6, <1>7, <1>8 DEF Next

(***************************************************************************)
(* The guard on sent_at keeps its promise for any number of days and       *)
(* reruns: without --force there is one email a day, as long as sessions   *)
(* do not overlap, no reply is lost and none dies.                         *)
(***************************************************************************)
THEOREM OneMailADay == Spec => []OneMailPerDay
<1>1. OneInv /\ [Next]_vars => OneInv'
  BY OneStep
<1>2. OneInv => OneMailPerDay
  BY DEF OneInv, Calm, OneMail, OneMailPerDay, Quiet
<1> QED BY OneInit, <1>1, <1>2, PTL DEF Spec
===============================================================================
