-------------------------- MODULE RequestResponse --------------------------
(***************************************************************************)
(* What a ghost channel promises to the two actors that share it, without *)
(* queues, clocks or polling: a request that was accepted is answered at   *)
(* most once by the other side, and its callback runs at most once, with   *)
(* the answer that was given or with a timeout.  A request whose           *)
(* requester went away before its callback ran is abandoned.               *)
(***************************************************************************)

CONSTANT Requests   \* the identifiers of requests

VARIABLES
    status,  \* per request: "none", "open", "abandoned" or what its callback saw
    answer   \* per request: what the responder sent back, or "none"

vars == <<status, answer>>

Answers == {"ok", "err"}
Outcomes == Answers \cup {"timeout"}
Statuses == {"none", "open", "abandoned"} \cup Outcomes

TypeOK ==
    /\ status \in [Requests -> Statuses]
    /\ answer \in [Requests -> Answers \cup {"none"}]

Init ==
    /\ status = [r \in Requests |-> "none"]
    /\ answer = [r \in Requests |-> "none"]

Open(r) ==
    /\ status[r] = "none"
    /\ status' = [status EXCEPT ![r] = "open"]
    /\ UNCHANGED answer

(* The responder does not know whether the requester is still waiting. *)
Answer(r) ==
    /\ status[r] # "none"
    /\ answer[r] = "none"
    /\ \E a \in Answers : answer' = [answer EXCEPT ![r] = a]
    /\ UNCHANGED status

Complete(r) ==
    /\ status[r] = "open"
    /\ \E o \in Outcomes :
         /\ o \in Answers => o = answer[r]
         /\ status' = [status EXCEPT ![r] = o]
    /\ UNCHANGED answer

Abandon(rs) ==
    /\ \A r \in rs : status[r] = "open"
    /\ status' = [r \in Requests |-> IF r \in rs THEN "abandoned" ELSE status[r]]
    /\ UNCHANGED answer

Next ==
    \/ \E r \in Requests : Open(r) \/ Answer(r) \/ Complete(r)
    \/ \E rs \in SUBSET Requests : Abandon(rs)

Spec == Init /\ [][Next]_vars

=============================================================================
