---------------------------- MODULE MCIntradayJobs ----------------------------
(***************************************************************************)
(* A page and three jobs over a store of two: the page can run three times *)
(* and the runs of others make the store evict.  Two trading days and two  *)
(* misses in a row are enough for a progress that moves and a count that   *)
(* resets.                                                                 *)
(***************************************************************************)
EXTENDS IntradayJobs

CONSTANT p1
=============================================================================
