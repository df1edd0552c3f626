------------------------- MODULE MCMemoryTransport -------------------------
(* Instances of MemoryTransport for TLC. *)
EXTENDS MemoryTransport

CONSTANTS t1, t2, m1, m2

(* One transport sends twice to the second url, which is its own if it was  *)
(* bound second, and which may not be bound at all.                         *)
TwoSends == {<<t1, m1, 2>>, <<t1, m2, 2>>}

(* All transports are made in the first seconds of the machine, or none is. *)
SameStarts == {[t \in Transports |-> start] : start \in {"never", "due"}}
=============================================================================
