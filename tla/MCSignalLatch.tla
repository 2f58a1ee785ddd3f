---------------------------- MODULE MCSignalLatch ----------------------------
(***************************************************************************)
(* Small signals for SignalLatch.                                          *)
(*   Rearm:  two entries on one input; e1 needs two fires of r1 to re-arm, *)
(*           e2 is unbound; x1 closes e1 and needs one fire of r1; x2      *)
(*           closes both and is unbound.                                   *)
(*   Chain:  one gated entry with a two-stage chain, one unbound exit and  *)
(*           one exit bound to a reset block that is not usable.           *)
(***************************************************************************)
EXTENDS SignalLatch

Two == {"e1", "e2"}
Rearm ==
  [entries |-> Two, exitId |-> <<"x1", "x2">>, targets |-> <<{"e1"}, Two>>,
   resets |-> {"r1"}, boundTo |-> [id \in {"e1", "x1"} |-> "r1"],
   count |-> [id \in {"e1", "x1"} |-> IF id = "e1" THEN 2 ELSE 1],
   windows |-> [e \in {} |-> <<>>], inputs |-> {"i"}, inputOf |-> [e \in Two |-> "i"],
   weight |-> [e \in Two |-> IF e = "e1" THEN 100 ELSE -40], bars |-> 4]

Chain ==
  [entries |-> {"c"}, exitId |-> <<"x1", "x2">>, targets |-> <<{"c"}, {"c"}>>,
   resets |-> {}, boundTo |-> [id \in {"x2"} |-> "off"], count |-> [id \in {"x2"} |-> 1],
   windows |-> [e \in {"c"} |-> <<2>>], inputs |-> {"i"}, inputOf |-> [e \in {"c"} |-> "i"],
   weight |-> [e \in {"c"} |-> 100], bars |-> 5]

MCSignals == {Rearm, Chain}
=============================================================================
