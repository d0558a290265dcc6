-------------------------------- MODULE Digest --------------------------------
(***************************************************************************)
(* The daily briefing: send_digest (report.py), run by the 07:15 job and   *)
(* by hand, and the feedback links of the emails it sends (main.py).       *)
(*                                                                         *)
(* What the report says is abstracted to its opportunities: the listings   *)
(* it recommends.  Delivery is configured, and so is the feedback secret.  *)
(* A session holds the lock of the report's row from its second flush to   *)
(* the commit that follows the delivery.                                   *)
(*                                                                         *)
(* A definition named Faulty... is not used: it is the definition that     *)
(* follows it with a plausible bug, with which a property below fails.     *)
(***************************************************************************)
EXTENDS Integers, Sequences, FiniteSets

CONSTANTS
    Ids,         \* listings
    Null,        \* SQL NULL, and no row
    Workers,     \* sessions that may send the digest
    FaultKinds,  \* subset of {"outage", "lost_reply", "crash"}
    Forcing,     \* what --force may be, a subset of BOOLEAN
    MaxDay, MaxReruns, MaxFaults  \* bounds of the model

ASSUME DigestAssumption == /\ MaxDay \in Nat \ {0}
                           /\ MaxReruns \in Nat
                           /\ MaxFaults \in Nat
                           /\ Forcing \subseteq BOOLEAN

ASSUME NullAssumption ==
    Null \notin [opps : SUBSET Ids, links : UNION {[S -> Int] : S \in SUBSET Ids},
                 sent : BOOLEAN]

VARIABLES
    day,      \* today, an Asia/Kolkata date
    fired,    \* the days on which the scheduler has started its job
    report,   \* report_runs: report[d], Null if there is none
    recs,     \* recommendations, in order of id; Null once deleted
    mails,    \* the emails Resend accepted
    pc,       \* where each session is in send_digest
    date,     \* its report_date
    opps,     \* the opportunities of its digest
    force,    \* its --force
    view,     \* the report row it read at the start of save_report
    links,    \* the recommendation each of its opportunities links to
    overlapped,  \* whether two sessions have ever been at work at once
    reruns,      \* manual runs so far, for the bound
    faults       \* the faults so far, in order

tables  == <<report, recs>>
session == <<pc, date, opps, force, view, links>>
history == <<overlapped, reruns, faults>>
vars    == <<day, fired, tables, mails, session, history>>

Days   == 1..MaxDay
Places == {"idle", "save", "pick", "flush", "deliver", "sent", "unsent"}
None   == [x \in {} |-> 0]

Init ==
    /\ day = 1
    /\ fired = {}
    /\ report = [d \in Days |-> Null]
    /\ recs = <<>>
    /\ mails = <<>>
    /\ pc = [w \in Workers |-> "idle"]
    /\ date = [w \in Workers |-> 1]
    /\ opps = [w \in Workers |-> {}]
    /\ force = [w \in Workers |-> FALSE]
    /\ view = [w \in Workers |-> Null]
    /\ links = [w \in Workers |-> None]
    /\ overlapped = FALSE
    /\ reruns = 0
    /\ faults = <<>>

GoTo(w, place) == pc' = [pc EXCEPT ![w] = place]

EndSession(w) ==
    /\ GoTo(w, "idle")
    /\ date' = [date EXCEPT ![w] = 1]
    /\ opps' = [opps EXCEPT ![w] = {}]
    /\ force' = [force EXCEPT ![w] = FALSE]
    /\ view' = [view EXCEPT ![w] = Null]
    /\ links' = [links EXCEPT ![w] = None]

LockedByOther(w) ==
    \E v \in Workers \ {w} : /\ pc[v] \in {"deliver", "sent", "unsent"}
                             /\ date[v] = date[w]

Fault(kind) == /\ kind \in FaultKinds
               /\ Len(faults) < MaxFaults
               /\ faults' = Append(faults, kind)

NewDay ==
    /\ day < MaxDay
    /\ day' = day + 1
    /\ UNCHANGED <<fired, tables, mails, session, history>>

-------------------------------------------------------------------------------
(***************************************************************************)
(* build_report, then the SELECT of save_report.  Which listings are worth *)
(* reading is the scorer's business: any set of them, the empty one on a   *)
(* quiet day.                                                              *)
(***************************************************************************)
Build(w, forced) ==
    /\ pc[w] = "idle"
    /\ date' = [date EXCEPT ![w] = day]
    /\ \E o \in SUBSET Ids : opps' = [opps EXCEPT ![w] = o]
    /\ force' = [force EXCEPT ![w] = forced]
    /\ view' = [view EXCEPT ![w] = report[day]]
    /\ GoTo(w, "save")
    /\ overlapped' = (overlapped \/ \E v \in Workers : pc[v] # "idle")
    /\ UNCHANGED <<day, tables, mails, links, faults>>

Daily(w) ==
    /\ day \notin fired
    /\ fired' = fired \cup {day}
    /\ Build(w, FALSE)
    /\ UNCHANGED reruns

Rerun(w) ==
    /\ reruns < MaxReruns
    /\ reruns' = reruns + 1
    /\ \E f \in Forcing : Build(w, f)
    /\ UNCHANGED fired

(***************************************************************************)
(* The transaction of save_report: insert or update the report's row, and  *)
(* replace its recommendations.  No opportunity carries a score_id, so no  *)
(* recommendation gets one.  The content is stored without links.          *)
(***************************************************************************)
ListingsOf(S) ==
    CHOOSE f \in [1..Cardinality(S) -> S] : \A i \in S : \E k \in DOMAIN f : f[k] = i

NewRec(d, i) == [day |-> d, listing |-> i, score |-> Null, feedback |-> Null]

Rewritten(d, o) ==
    [r \in 1..Len(recs) |-> IF recs[r] # Null /\ recs[r].day = d THEN Null ELSE recs[r]]
      \o [k \in 1..Cardinality(o) |-> NewRec(d, ListingsOf(o)[k])]

Saved(w) ==
    [opps |-> opps[w], links |-> None,
     sent |-> report[date[w]] # Null /\ report[date[w]].sent]

(***************************************************************************)
(* After its commit the session looks at sent_at, in the row it read.      *)
(***************************************************************************)
FaultyAlreadySent(w) == FALSE
AlreadySent(w) == view[w] # Null /\ view[w].sent /\ ~force[w]

SaveReport(w) ==
    /\ pc[w] = "save"
    /\ ~LockedByOther(w)
    /\ view[w] = Null => report[date[w]] = Null
    /\ report' = [report EXCEPT ![date[w]] = Saved(w)]
    /\ recs' = Rewritten(date[w], opps[w])
    /\ IF AlreadySent(w)
       THEN EndSession(w)
       ELSE GoTo(w, "pick") /\ UNCHANGED <<date, opps, force, view, links>>
    /\ UNCHANGED <<day, fired, mails, history>>

(***************************************************************************)
(* UNIQUE(report_date): another session has inserted the row meanwhile.    *)
(***************************************************************************)
SaveCollides(w) ==
    /\ pc[w] = "save"
    /\ view[w] = Null /\ report[date[w]] # Null
    /\ EndSession(w)
    /\ UNCHANGED <<day, fired, tables, mails, history>>

-------------------------------------------------------------------------------
(***************************************************************************)
(* The feedback links, then the flush that makes them part of the content. *)
(***************************************************************************)
RecsOf(d) == {r \in 1..Len(recs) : recs[r] # Null /\ recs[r].day = d}

PickLinks(w) ==
    /\ pc[w] = "pick"
    /\ LET found == {r \in RecsOf(date[w]) : recs[r].listing \in opps[w]}
       IN links' = [links EXCEPT ![w] =
            [i \in {recs[r].listing : r \in found} |->
               CHOOSE r \in found : recs[r].listing = i]]
    /\ GoTo(w, "flush")
    /\ UNCHANGED <<day, fired, tables, mails, date, opps, force, view, history>>

FaultyFlushLinks(w) ==
    /\ pc[w] = "flush"
    /\ ~LockedByOther(w)
    /\ IF opps[w] = {} THEN EndSession(w)
       ELSE GoTo(w, "deliver") /\ UNCHANGED <<date, opps, force, view, links>>
    /\ UNCHANGED <<day, fired, tables, mails, history>>
FlushLinks(w) ==
    /\ pc[w] = "flush"
    /\ ~LockedByOther(w)
    /\ GoTo(w, "deliver")
    /\ UNCHANGED <<day, fired, tables, mails, date, opps, force, view, links, history>>

(***************************************************************************)
(* The POST to Resend.  It fails, or succeeds, or succeeds and its reply   *)
(* is lost, which the code takes for a failure.                            *)
(***************************************************************************)
Accepted(w) == mails' = Append(mails, [day |-> date[w], links |-> links[w],
                                     forced |-> force[w]])

Deliver(w) ==
    /\ pc[w] = "deliver"
    /\ Accepted(w)
    /\ GoTo(w, "sent")
    /\ UNCHANGED <<day, fired, tables, date, opps, force, view, links, history>>

DeliveryFails(w) ==
    /\ pc[w] = "deliver"
    /\ \/ Fault("outage") /\ UNCHANGED mails
       \/ Fault("lost_reply") /\ Accepted(w)
    /\ GoTo(w, "unsent")
    /\ UNCHANGED <<day, fired, tables, date, opps, force, view, links, overlapped, reruns>>

(***************************************************************************)
(* The last commit, after a delivery or after a failed one.                *)
(***************************************************************************)
FaultyContent(w, sent) == [opps |-> opps[w], links |-> links[w], sent |-> TRUE]
Content(w, sent) ==
    [opps |-> opps[w], links |-> links[w],
     sent |-> sent \/ report[date[w]].sent]

Commit(w) ==
    /\ pc[w] \in {"sent", "unsent"}
    /\ report' = [report EXCEPT ![date[w]] = Content(w, pc[w] = "sent")]
    /\ EndSession(w)
    /\ UNCHANGED <<day, fired, recs, mails, history>>

Crash(w) ==
    /\ pc[w] # "idle"
    /\ Fault("crash")
    /\ EndSession(w)
    /\ UNCHANGED <<day, fired, tables, mails, overlapped, reruns>>

(***************************************************************************)
(* record_feedback: a click on a link of an email.  A recommendation that  *)
(* is gone answers 404 and changes nothing.                                *)
(***************************************************************************)
Vote(m, i) ==
    /\ i \in DOMAIN mails[m].links
    /\ LET r == mails[m].links[i]
       IN /\ recs[r] # Null
          /\ \E v \in {-1, 1} : recs' = [recs EXCEPT ![r].feedback = v]
    /\ UNCHANGED <<day, fired, report, mails, session, history>>

-------------------------------------------------------------------------------
Advance(w) ==
    \/ SaveReport(w) \/ SaveCollides(w) \/ PickLinks(w) \/ FlushLinks(w)
    \/ Deliver(w) \/ Commit(w)

Next ==
    \/ NewDay
    \/ \E w \in Workers : \/ Daily(w) \/ Rerun(w) \/ Advance(w)
                          \/ DeliveryFails(w) \/ Crash(w)
    \/ \E m \in 1..Len(mails) : \E i \in Ids : Vote(m, i)

Spec == Init /\ [][Next]_vars

(***************************************************************************)
(* The scheduler starts the job of a day it lives through, and a session   *)
(* goes on.  The day may pass first: then the job of that day is lost.     *)
(***************************************************************************)
FairSpec == /\ Spec
            /\ \A w \in Workers : WF_vars(Advance(w))
            /\ WF_vars(\E w \in Workers : Daily(w))

-------------------------------------------------------------------------------
(***************************************************************************)
(* Rows, links and sessions are well formed.                               *)
(***************************************************************************)
LinksOK(f) == DOMAIN f \subseteq Ids /\ \A i \in DOMAIN f : f[i] \in 1..Len(recs)
ReportOK(row) == /\ DOMAIN row = {"opps", "links", "sent"}
                 /\ row.opps \subseteq Ids
                 /\ LinksOK(row.links)
                 /\ row.sent \in BOOLEAN
Rec == [day : Days, listing : Ids, score : {Null}, feedback : {Null, -1, 1}]

TypeOK ==
    /\ day \in Days
    /\ fired \subseteq 1..day
    /\ \A d \in Days : report[d] # Null => ReportOK(report[d])
    /\ recs \in Seq(Rec \cup {Null})
    /\ \A m \in 1..Len(mails) : /\ mails[m].day \in Days
                                /\ LinksOK(mails[m].links)
                                /\ mails[m].forced \in BOOLEAN
    /\ pc \in [Workers -> Places]
    /\ date \in [Workers -> 1..day]
    /\ opps \in [Workers -> SUBSET Ids]
    /\ force \in [Workers -> BOOLEAN]
    /\ \A w \in Workers : /\ view[w] # Null => ReportOK(view[w])
                          /\ LinksOK(links[w])
    /\ overlapped \in BOOLEAN
    /\ reruns \in 0..MaxReruns
    /\ faults \in Seq(FaultKinds) /\ Len(faults) <= MaxFaults

Mailed(d) == \E m \in 1..Len(mails) : mails[m].day = d

(***************************************************************************)
(* sent_at is "null until the digest is actually delivered": a failed or   *)
(* interrupted delivery never marks the day as sent.                       *)
(***************************************************************************)
SentMeansMailed == \A d \in Days : report[d] # Null /\ report[d].sent => Mailed(d)

(***************************************************************************)
(* "A container restart inside the send window would otherwise re-send":   *)
(* the sent_at guard leaves one email a day, unless --force asks for more, *)
(* as long as sessions do not overlap, no reply is lost and none dies.     *)
(***************************************************************************)
RepliesArrive == \A k \in 1..Len(faults) : faults[k] = "outage"

OneMailPerDay ==
    ~overlapped /\ RepliesArrive =>
        \A m, n \in 1..Len(mails) :
            m < n /\ mails[m].day = mails[n].day => mails[n].forced

(***************************************************************************)
(* "The only route by which weights ever get tuned from evidence": a link  *)
(* that was emailed can be clicked.                                        *)
(***************************************************************************)
MailLinksResolve ==
    \A m \in 1..Len(mails) : \A i \in DOMAIN mails[m].links :
        recs[mails[m].links[i]] # Null

(***************************************************************************)
(* "A recommendation already emailed still points at the number that was   *)
(* actually sent": it names its score.                                     *)
(***************************************************************************)
CitesItsScore == \A r \in 1..Len(recs) : recs[r] # Null => recs[r].score # Null

(***************************************************************************)
(* Quiet days still send: whatever the digest says, a day whose job was    *)
(* started gets its email, also when sessions overlap, unless the delivery *)
(* fails or a session dies.                                                *)
(***************************************************************************)
EveryDayMailed == \A d \in Days : d \in fired ~> (Mailed(d) \/ faults # <<>>)
===============================================================================
