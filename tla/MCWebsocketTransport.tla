------------------------ MODULE MCWebsocketTransport ------------------------
(* Instances of WebsocketTransport for TLC. *)
EXTENDS WebsocketTransport

CONSTANTS r1, r2, m1, m2

(* A message for each remote. *)
OneEach == [m \in {m1, m2} |-> IF m = m1 THEN r1 ELSE r2]
=============================================================================
