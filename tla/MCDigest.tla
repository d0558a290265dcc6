------------------------------ MODULE MCDigest ------------------------------
(***************************************************************************)
(* One listing, recommended or not, lets a rerun keep, drop or add it; two *)
(* sessions and two days let one day's rerun meet the other day's report.  *)
(***************************************************************************)
EXTENDS Digest
CONSTANTS l1
===============================================================================
