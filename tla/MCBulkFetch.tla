------------------------------ MODULE MCBulkFetch ------------------------------
(***************************************************************************)
(* Two groups that may share a key, and two chunks that each fall back to  *)
(* a group, one of which shares a key with them, over a gate of two.  The  *)
(* cache holds two rows: one result fills it, and one is over it alone.    *)
(***************************************************************************)
EXTENDS BulkFetch

CONSTANTS g1, g2, g3, g4, c1, c2, narrow, full, other

MCMembers == [c \in {c1, c2} |-> IF c = c1 THEN {g3} ELSE {g4}]
MCKeysOf == [g \in {g1, g2, g3, g4} |->
  CASE g = g1 -> {narrow, full} [] g = g2 -> {full} [] g = g3 -> {narrow} [] g = g4 -> {other}]
MCRowsOf == [k \in {narrow, full, other} |->
  CASE k = narrow -> 1 [] k = full -> 2 [] k = other -> 4]
=============================================================================
