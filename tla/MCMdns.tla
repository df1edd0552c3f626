------------------------------- MODULE MCMdns -------------------------------
(* Two hosts that share the network h1; the second may move to another url. *)
EXTENDS Mdns

CONSTANTS n1, n2, h1, h2, u1, u2, u3

TwoHosts == (n1 :> [networkid |-> h1, urls |-> {u1}])
              @@ (n2 :> [networkid |-> h1, urls |-> {u2}])

Moves == {[node |-> n2, networkid |-> h1, urls |-> {u3}]}

=============================================================================
