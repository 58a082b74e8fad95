----------------------------- MODULE MCPfcLink -----------------------------
(* A link of two slots beside one port of another kind; one unit is one    *)
(* packet, and a frame may wait for a slot of ACKs.  The headroom is just  *)
(* enough.  The three delays that hybrid_dppp.cc:1023 configures are as    *)
(* much from a link of 3 + Ahead slots on (ConfiguredHeadroom).            *)
EXTENDS PfcLink, TLC

LinkHeadrooms == 1 :> 2 * Delay + 3 + Ahead @@ 2 :> 1
LinkAlphas    == 1 :> 2 @@ 2 :> 1
=============================================================================
