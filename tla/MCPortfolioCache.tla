-------------------------- MODULE MCPortfolioCache --------------------------
(* Instances of PortfolioCache for TLC. *)
EXTENDS PortfolioCache, TLC

B(shape, leg, body) == [shape |-> shape, leg |-> leg, body |-> body]

(* A plain portfolio on v1; under a default of v2 one whose leg is unset,  *)
(* and a composed one that computes another whose leg is v1, which has the *)
(* dump of that one. Entries of two releases compete for the two rows of   *)
(* the cache.                                                              *)
MCPortfolios ==
  {B("plain", None, "v1"), B("plain", None, "v2"), B("composed", "v1", "v2")}

ClientSymmetry == Permutations(Clients)
=============================================================================
