----------------------------- MODULE MCDailyJobs -----------------------------
(***************************************************************************)
(* The registry source and one portal: one source can be dead, disabled or *)
(* late while the other collects.                                          *)
(***************************************************************************)
EXTENDS DailyJobs
CONSTANTS rera, magicbricks
OnePortal == <<magicbricks>>
AllPortals == {magicbricks}
===============================================================================
