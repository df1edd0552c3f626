----------------------------- MODULE MCGateway -----------------------------
(* Two sends: one of every kind, beside a message of the client.  Only with *)
(* two can the error of one send's late answer meet a send still open.      *)
EXTENDS Gateway

CONSTANTS m1, m2

BesideInit == Init /\ kind[m2] = "message"

BesideAMessage == BesideInit /\ [][Next]_vars /\ Fairness

=============================================================================
