------------------------------- MODULE Columns -------------------------------
(***************************************************************************)
(* How a session writes back a row it read (SQLAlchemy's unit of work).    *)
(* The UPDATE names only the columns whose new value differs from the      *)
(* value the session read; every other column keeps what the database      *)
(* holds by the time the statement gets the row lock.  FaultyWriteColumns  *)
(* is not used: it is the same with a plausible bug.                       *)
(***************************************************************************)
FaultyWriteColumns(stored, read, new) == new
WriteColumns(stored, read, new) ==
    [c \in DOMAIN stored |-> IF new[c] # read[c] THEN new[c] ELSE stored[c]]
===============================================================================
