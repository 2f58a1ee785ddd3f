--------------------------- MODULE MCAppDataStore ---------------------------
(***************************************************************************)
(* One document of any kind and two requests at a time.  Four writes (a    *)
(* stamp each) are enough for one client to lock and unlock, or to write   *)
(* and archive, between any two statements of the other; every race        *)
(* is between one writer and the rest.  Clients are interchangeable.       *)
(***************************************************************************)
EXTENDS AppDataStore, TLC

Symmetry == Permutations(Clients)
=============================================================================
