--------------------------- MODULE MCGhostChannel ---------------------------
(* Two requests and an event, from either end, with timeouts that are over  *)
(* in the next tick.                                                        *)
EXTENDS GhostChannel

CONSTANTS r1, r2, e1

=============================================================================
