---------------------------- MODULE SendService ----------------------------
(***************************************************************************)
(* What a gateway promises about a message it is asked to send, whatever   *)
(* it has to look up, encode and repeat: at most one copy is ever with the *)
(* transport, a success is reported for a copy the transport took, and the *)
(* outcome of a send is reported once.                                     *)
(***************************************************************************)
EXTENDS Naturals

CONSTANT Sends   \* the messages

VARIABLES
    status,   \* per send: not begun, open, or the outcome that was reported
    copies    \* per send: the copies the transport took, or may still take

vars == <<status, copies>>

Statuses == {"none", "open", "ok", "err"}

TypeOK ==
    /\ status \in [Sends -> Statuses]
    /\ copies \in [Sends -> {0, 1}]

Init ==
    /\ status = [s \in Sends |-> "none"]
    /\ copies = [s \in Sends |-> 0]

(* What one step may do to one send: begin it, hand a copy to the           *)
(* transport, learn that the copy was refused (perhaps after giving up),    *)
(* report a success, or give up.                                            *)
Moves ==
    { << <<"none", 0>>, <<"open", 0>> >>,
      << <<"open", 0>>, <<"open", 1>> >>,
      << <<"open", 1>>, <<"open", 0>> >>,
      << <<"err", 1>>, <<"err", 0>> >>,
      << <<"open", 1>>, <<"ok", 1>> >>,
      << <<"open", 0>>, <<"err", 0>> >>,
      << <<"open", 1>>, <<"err", 1>> >> }

Moved(s) == << <<status[s], copies[s]>>, <<status'[s], copies'[s]>> >> \in Moves
Kept(s) == status'[s] = status[s] /\ copies'[s] = copies[s]

(* One call of process() moves several sends. *)
Next ==
    /\ TypeOK'
    /\ \A s \in Sends : Moved(s) \/ Kept(s)

Spec == Init /\ [][Next]_vars

=============================================================================
