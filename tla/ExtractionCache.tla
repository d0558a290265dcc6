---------------------------- MODULE ExtractionCache ----------------------------
(***************************************************************************)
(* What the table listing_motivation promises its readers, one entry per   *)
(* listing: an entry names the text it is about; it is opened for a text   *)
(* it was not about before, it closes as read (an answer for that very     *)
(* text) or unread (no answer), and an open entry cannot be opened again,  *)
(* because its request is already being paid for.                          *)
(***************************************************************************)
CONSTANTS Ids, Texts, Null
VARIABLE entry

Closed == {"read", "unread"}
Entry  == [text : Texts, state : {"open"} \cup Closed]

Init == entry = [i \in Ids |-> Null]

Open(i) == /\ entry[i] # Null => entry[i].state \in Closed
           /\ entry'[i] \in [text : Texts, state : {"open"}]
           /\ entry[i] # Null => entry'[i].text # entry[i].text

Close(i) == /\ entry[i] # Null
            /\ entry[i].state = "open"
            /\ entry'[i] \in [text : {entry[i].text}, state : Closed]

Next == /\ entry' \in [Ids -> Entry \cup {Null}]
        /\ \A i \in Ids : entry'[i] = entry[i] \/ Open(i) \/ Close(i)

Spec == Init /\ [][Next]_entry
===============================================================================
