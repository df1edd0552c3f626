---------------------------- MODULE MCMirrorDht ----------------------------
(* Instances of MirrorDht for TLC. *)
EXTENDS MirrorDht

CONSTANTS a, b, c   \* the nodes

(* b and c both hear of a, as of the node they bootstrap from. *)
Star == {<<b, a>>, <<c, a>>}

(* Only a hears of b; b must learn of a from gossip. *)
Link == {<<a, b>>}

(* The clock of a is ahead of that of b by one, to begin with.              *)
AheadInit == Init /\ clock[a] = 1 /\ clock[b] = 0

AheadSpec == AheadInit /\ [][Next]_vars /\ Fairness

=============================================================================
