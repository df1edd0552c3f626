--------------------------- MODULE MCLegacyLib3h ---------------------------
(* A client with a direct message and connections with and without an id,  *)
(* on an engine that hands it a direct message and a notification, and may *)
(* panic.                                                                  *)
EXTENDS LegacyLib3h

CONSTANTS r1, r2, e1, e2

ClientPosts ==
    {[id |-> r1, kind |-> "SendDirectMessage"], [id |-> r2, kind |-> "Connect"],
     [id |-> NoId, kind |-> "Connect"]}

EngineMessages ==
    {[id |-> e1, kind |-> "HandleSendDirectMessage"],
     [id |-> e2, kind |-> "Unbound"]}

=============================================================================
