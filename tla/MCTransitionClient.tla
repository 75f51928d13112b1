------------------------- MODULE MCTransitionClient -------------------------
(* One operation, with every crash: see MCTabs for two without.            *)
EXTENDS TransitionClient
=============================================================================
