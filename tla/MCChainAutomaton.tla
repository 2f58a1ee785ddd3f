--------------------------- MODULE MCChainAutomaton ---------------------------
(***************************************************************************)
(* Two, three and four stages with windows of one to three bars: a window  *)
(* is missed, just made and made with a bar to spare, and a head matches   *)
(* again at every stage of a chain in flight.                              *)
(***************************************************************************)
EXTENDS ChainAutomaton

SmallChains == { <<2>>, <<3>>, <<1, 2>>, <<2, 1>>, <<2, 1, 2>> }
=============================================================================
