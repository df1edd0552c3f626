------------------------------ MODULE FifoLinks -----------------------------
(***************************************************************************)
(* What a set of connected transports promises, without servers, locks,    *)
(* connections or polling: a message a parent asks to send is refused, or  *)
(* it is accepted once, for the url it was addressed to, and the receiving *)
(* side is told of what was accepted on a link in the order it was         *)
(* accepted.                                                               *)
(***************************************************************************)
EXTENDS Naturals, Sequences

CONSTANTS
    Messages,
    Urls,      \* the ends of the links
    NoUrl      \* where a message goes that nobody has asked to send

VARIABLES
    uri,       \* per message: where it goes
    answer,    \* per message: "none", "ok" or "err"
    posted,    \* per link: the messages it accepted
    received   \* per link: those of them the receiving side was told of

vars == <<uri, answer, posted, received>>

Pairs == Urls \X Urls    \* a link, from one url to another

TypeOK ==
    /\ uri \in [Messages -> Urls \cup {NoUrl}]
    /\ answer \in [Messages -> {"none", "ok", "err"}]
    /\ posted \in [Pairs -> Seq(Messages)]
    /\ received \in [Pairs -> Seq(Messages)]

\* s is the beginning of t.
Begins(s, t) == Len(s) <= Len(t) /\ \A i \in 1 .. Len(s) : s[i] = t[i]

Init ==
    /\ uri = [m \in Messages |-> NoUrl]
    /\ answer = [m \in Messages |-> "none"]
    /\ posted = [p \in Pairs |-> <<>>]
    /\ received = [p \in Pairs |-> <<>>]

Ask(m) ==
    /\ uri[m] = NoUrl
    /\ \E u \in Urls : uri' = [uri EXCEPT ![m] = u]
    /\ UNCHANGED <<answer, posted, received>>

Waits(m) == uri[m] # NoUrl /\ answer[m] = "none"

Refuse(m) ==
    /\ Waits(m)
    /\ answer' = [answer EXCEPT ![m] = "err"]
    /\ UNCHANGED <<uri, posted, received>>

Accept(m, f) ==
    /\ Waits(m)
    /\ answer' = [answer EXCEPT ![m] = "ok"]
    /\ posted' = [posted EXCEPT ![<<f, uri[m]>>] = Append(@, m)]
    /\ UNCHANGED <<uri, received>>

(* A message to the own url: the link of a url to itself is never behind.   *)
Loop(m) ==
    /\ Waits(m)
    /\ LET p == <<uri[m], uri[m]>> IN
         /\ received[p] = posted[p]
         /\ posted' = [posted EXCEPT ![p] = Append(@, m)]
         /\ received' = [received EXCEPT ![p] = Append(@, m)]
    /\ answer' = [answer EXCEPT ![m] = "ok"]
    /\ UNCHANGED uri

(* The side at u is told of more of what its links accepted.                *)
Deliver(u) ==
    /\ received' \in [Pairs -> Seq(Messages)]
    /\ \A p \in Pairs :
         /\ p[2] # u => received'[p] = received[p]
         /\ Begins(received[p], received'[p])
         /\ Begins(received'[p], posted[p])
    /\ UNCHANGED <<uri, answer, posted>>

Next ==
    \/ \E m \in Messages :
         Ask(m) \/ Refuse(m) \/ Loop(m) \/ \E f \in Urls : Accept(m, f)
    \/ \E u \in Urls : Deliver(u)

Spec == Init /\ [][Next]_vars

-----------------------------------------------------------------------------
\* Where a link has a message.
At(m, p) == {i \in DOMAIN posted[p] : posted[p][i] = m}

(* SAFETY. A message was accepted by exactly one link, to the url it is     *)
(* addressed to, and there once, if its sender was told so, and else by     *)
(* none.                                                                    *)
Once(m) ==
    /\ uri[m] = NoUrl => answer[m] = "none"
    /\ answer[m] # "ok" => \A p \in Pairs : At(m, p) = {}
    /\ answer[m] = "ok" =>
         \E p \in Pairs :
            /\ p[2] = uri[m]
            /\ \E i \in DOMAIN posted[p] : At(m, p) = {i}
            /\ \A q \in Pairs \ {p} : At(m, q) = {}

EachOnce == \A m \in Messages : Once(m)

(* SAFETY. A link tells of what it accepted, in this order.                 *)
InOrder == \A p \in Pairs : Begins(received[p], posted[p])

=============================================================================
