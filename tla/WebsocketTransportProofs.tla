---------------------- MODULE WebsocketTransportProofs ----------------------
(***************************************************************************)
(* That the websocket transport loses no request of its parent, answers    *)
(* truthfully, and reports every data frame it reads once and in order,    *)
(* for every set of peers, requests and bounds, and whatever sockets do.   *)
(***************************************************************************)
EXTENDS WebsocketTransport, FiniteSetTheorems, WellFoundedInduction, TLAPS

-----------------------------------------------------------------------------
(* The clauses of the inductive invariant. *)

NoDup(s) == \A i, j \in DOMAIN s : s[i] = s[j] => i = j

(* Local lists are empty outside of the part of process_concrete that uses  *)
(* them, and the part after the requests is reached by bound transports     *)
(* only.                                                                    *)
PhaseInv ==
    /\ pc # "inbox" => drained = <<>>
    /\ pc # "pending" => temp = <<>>
    /\ pc \in {"accept", "sockets", "pending"} => bound

(* No list has a request twice, and no two lists share one. *)
AtMostOneList(r) ==
    /\ ~(In(r, inbox) /\ In(r, drained))
    /\ ~(In(r, inbox) /\ In(r, pending))
    /\ ~(In(r, inbox) /\ In(r, temp))
    /\ ~(In(r, drained) /\ In(r, pending))
    /\ ~(In(r, drained) /\ In(r, temp))
    /\ ~(In(r, pending) /\ In(r, temp))

ListsInv ==
    /\ NoDup(inbox) /\ NoDup(drained) /\ NoDup(pending) /\ NoDup(temp)
    /\ \A r \in Requests : AtMostOneList(r)

(* The requests in the lists are those that are not answered. *)
Somewhere(r) == In(r, inbox) \/ In(r, drained) \/ In(r, pending) \/ In(r, temp)
AskedInv == \A r \in Requests : answer[r] = "asked" <=> Somewhere(r)

(* No frame leaves an unbound transport. *)
UnboundInv == ~bound => \A m \in Messages : frames[m] = 0

Accounts ==
    /\ PhaseInv
    /\ ListsInv
    /\ AskedInv
    /\ UnboundInv
    /\ AnswerTellsTheTruth

IInv ==
    /\ TypeOK
    /\ Accounts
    /\ ReadIsReported

-----------------------------------------------------------------------------
(* A set of naturals has a least element: induction over the length of a    *)
(* sequence, as a statement about sets.                                     *)
LEMMA NatMin ==
    ASSUME NEW T, T \subseteq Nat, T # {}
    PROVE  \E x \in T : \A y \in T : x <= y
<1> DEFINE R == OpToRel(<, Nat)
<1>1. \A x, y \in Nat : x < y => <<x, y>> \in R
  BY Zenon DEF OpToRel
<1>2. IsWellFoundedOn(R, Nat)
  BY Zenon, NatLessThanWellFounded
<1> HIDE DEF R
<1>3. \E x \in T : \A y \in T : ~(<<y, x>> \in R)
  BY <1>2, WFMin, Zenon
<1>4. \E x \in T : \A y \in T : ~(y < x)
  BY <1>1, <1>3, Zenon
<1>5. QED
  BY <1>4, SMT

(* What the lists of the transport do to their members. *)
LEMMA InAppend ==
    ASSUME NEW S, NEW s \in Seq(S), NEW x \in S, NEW y
    PROVE  In(y, Append(s, x)) <=> (In(y, s) \/ y = x)
<1>1. /\ Len(s) \in Nat /\ DOMAIN s = 1..Len(s)
      /\ DOMAIN Append(s, x) = 1..(Len(s) + 1)
      /\ Append(s, x)[Len(s) + 1] = x
  OBVIOUS
<1>2. \A i \in DOMAIN s : i \in DOMAIN Append(s, x) /\ Append(s, x)[i] = s[i]
  OBVIOUS
<1>3. \A i \in DOMAIN Append(s, x) : i \in DOMAIN s \/ i = Len(s) + 1
  BY <1>1
<1>4. Len(s) + 1 \in DOMAIN Append(s, x)
  BY <1>1
<1>5. QED
  BY <1>1, <1>2, <1>3, <1>4, Zenon DEF In

LEMMA NoDupAppend ==
    ASSUME NEW S, NEW s \in Seq(S), NEW x \in S, NoDup(s), ~In(x, s)
    PROVE  NoDup(Append(s, x))
BY DEF In, NoDup

LEMMA TailMembers ==
    ASSUME NEW S, NEW s \in Seq(S), s # <<>>, NoDup(s)
    PROVE  /\ Tail(s) \in Seq(S) /\ Head(s) \in S /\ In(Head(s), s)
           /\ NoDup(Tail(s))
           /\ \A y : In(y, Tail(s)) <=> (In(y, s) /\ y # Head(s))
           /\ \A y : (\E i \in 2..Len(s) : s[i] = y) <=> (In(y, s) /\ y # Head(s))
<1>1. Tail(s) \in Seq(S) /\ Head(s) \in S /\ Len(s) >= 1 /\ Head(s) = s[1]
  OBVIOUS
<1>2. \A i \in DOMAIN Tail(s) : i + 1 \in DOMAIN s /\ Tail(s)[i] = s[i + 1]
  OBVIOUS
<1>3. \A j \in DOMAIN s : j # 1 => j - 1 \in DOMAIN Tail(s) /\ Tail(s)[j - 1] = s[j]
  OBVIOUS
<1>4. NoDup(Tail(s))
  BY <1>1, <1>2 DEF NoDup
<1>5. \A y : In(y, Tail(s)) <=> (In(y, s) /\ y # Head(s))
  <2> TAKE y
  <2>1. ASSUME In(y, Tail(s)) PROVE In(y, s) /\ y # Head(s)
    BY <1>1, <1>2, <2>1 DEF In, NoDup
  <2>2. ASSUME In(y, s), y # Head(s) PROVE In(y, Tail(s))
    BY <1>1, <1>3, <2>2 DEF In
  <2>3. QED
    BY <2>1, <2>2
<1>6. \A y : (\E i \in 2..Len(s) : s[i] = y) <=> (In(y, s) /\ y # Head(s))
  BY <1>1 DEF In, NoDup
<1>7. In(Head(s), s)
  BY <1>1 DEF In
<1>8. QED
  BY <1>1, <1>4, <1>5, <1>6, <1>7

LEMMA FrontMembers ==
    ASSUME NEW S, NEW s \in Seq(S), s # <<>>, NoDup(s)
    PROVE  LET front == SubSeq(s, 1, Len(s) - 1) IN
           /\ front \in Seq(S) /\ s[Len(s)] \in S /\ In(s[Len(s)], s)
           /\ NoDup(front)
           /\ \A y : In(y, front) <=> (In(y, s) /\ y # s[Len(s)])
<1>0. Len(s) \in Nat /\ Len(s) >= 1 /\ DOMAIN s = 1..Len(s)
  OBVIOUS
<1>a. PICK n \in Nat : n = Len(s) - 1
  <2>1. \A k \in Nat : k >= 1 => k - 1 \in Nat
    OBVIOUS
  <2>2. QED
    BY <1>0, <2>1, Zenon
<1> DEFINE front == SubSeq(s, 1, Len(s) - 1)
<1>b. \A i \in 1..n : i \in 1..Len(s) /\ i # Len(s)
  <2>1. \A k \in Nat : k >= 1 => \A i \in 1..(k - 1) : i \in 1..k /\ i # k
    OBVIOUS
  <2>2. QED
    BY <1>0, <1>a, <2>1, Zenon
<1>c. /\ SubSeq(s, 1, n) \in Seq(S) /\ Len(SubSeq(s, 1, n)) = n
      /\ \A i \in 1..n : SubSeq(s, 1, n)[i] = s[i]
  BY <1>0, <1>a
<1>1. /\ front \in Seq(S) /\ s[Len(s)] \in S /\ DOMAIN front = 1..n
      /\ \A i \in 1..n : front[i] = s[i]
  BY <1>0, <1>a, <1>c
<1>2. \A i \in DOMAIN front : i \in DOMAIN s /\ i # Len(s) /\ front[i] = s[i]
  BY <1>0, <1>b, <1>1
<1> HIDE DEF front
<1>3. \A j \in DOMAIN s : j # Len(s) => j \in DOMAIN front /\ front[j] = s[j]
  BY <1>0, <1>a, <1>1
<1>4. NoDup(front)
  BY <1>2 DEF NoDup
<1>5. \A y : In(y, front) <=> (In(y, s) /\ y # s[Len(s)])
  <2> TAKE y
  <2>1. ASSUME In(y, front) PROVE In(y, s) /\ y # s[Len(s)]
    BY <1>0, <1>2, <2>1 DEF In, NoDup
  <2>2. ASSUME In(y, s), y # s[Len(s)] PROVE In(y, front)
    BY <1>3, <2>2 DEF In
  <2>3. QED
    BY <2>1, <2>2
<1>6. In(s[Len(s)], s)
  BY <1>0 DEF In
<1>7. QED
  BY <1>1, <1>4, <1>5, <1>6 DEF front

LEMMA ConcatAppend ==
    ASSUME NEW S, NEW s \in Seq(S), NEW t \in Seq(S), NEW x \in S
    PROVE  s \o t \in Seq(S) /\ s \o Append(t, x) = Append(s \o t, x)
OBVIOUS

LEMMA SeqNarrow ==
    ASSUME NEW S, NEW T, NEW s \in Seq(S), \A i \in DOMAIN s : s[i] \in T
    PROVE  s \in Seq(T)
OBVIOUS

LEMMA InEmpty == \A y : ~In(y, <<>>)
BY DEF In

LEMMA NoDupEmpty == NoDup(<<>>)
BY DEF NoDup

-----------------------------------------------------------------------------
(* DataOf is defined by recursion over a sequence of events.  What it needs *)
(* to be reasoned about: that the recursive function exists, and what one   *)
(* more event does to its value.                                            *)
AnEvent == [kind : EventKinds, url : Urls, n : 0..MaxFrames]
Unfolds(u, evs, f) ==
    f = [i \in 0..Len(evs) |->
            IF i = 0 THEN <<>>
            ELSE IF evs[i].kind = "Data" /\ evs[i].url = u THEN Append(f[i - 1], evs[i].n)
            ELSE f[i - 1]]

LEMMA DataOfUnfolds ==
    ASSUME NEW u, NEW evs, NEW f, Unfolds(u, evs, f)
    PROVE  \E g : Unfolds(u, evs, g) /\ DataOf(u, evs) = g[Len(evs)]
<1> DEFINE g == CHOOSE h : Unfolds(u, evs, h)
<1>1. Unfolds(u, evs, g)
  OBVIOUS
<1>2. DataOf(u, evs) = g[Len(evs)]
  BY DEF DataOf, Unfolds
<1>3. QED
  BY <1>1, <1>2

(* Two functions that unfold the recursion for sequences of which one is a  *)
(* prefix of the other agree on that prefix.                                *)
LEMMA UnfoldsOnce ==
    ASSUME NEW u, NEW evs \in Seq(AnEvent), NEW more \in Seq(AnEvent), NEW f, NEW g,
           Len(evs) <= Len(more), \A i \in DOMAIN evs : more[i] = evs[i],
           Unfolds(u, evs, f), Unfolds(u, more, g)
    PROVE  \A i \in 0..Len(evs) : f[i] = g[i]
<1> DEFINE T == {i \in 0..Len(evs) : f[i] # g[i]}
<1> SUFFICES ASSUME T # {} PROVE FALSE
  OBVIOUS
<1>0. Len(evs) \in Nat /\ Len(more) \in Nat /\ DOMAIN evs = 1..Len(evs)
  OBVIOUS
<1>1. PICK i \in T : \A j \in T : i <= j
  <2>1. T \subseteq Nat
    BY <1>0
  <2> HIDE DEF T
  <2>2. QED
    BY <2>1, NatMin
<1>2. i \in 0..Len(evs) /\ i \in 0..Len(more) /\ f[i] # g[i] /\ i \in Nat
  BY <1>0
<1>3. i # 0
  BY <1>2 DEF Unfolds
<1>4. i \in DOMAIN evs /\ i - 1 \in 0..Len(evs) /\ i - 1 < i
  BY <1>0, <1>2, <1>3
<1>5. f[i - 1] = g[i - 1]
  BY <1>0, <1>1, <1>4
<1>6. more[i] = evs[i]
  BY <1>4
<1>7. /\ f[i] = IF evs[i].kind = "Data" /\ evs[i].url = u THEN Append(f[i - 1], evs[i].n)
                ELSE f[i - 1]
      /\ g[i] = IF more[i].kind = "Data" /\ more[i].url = u THEN Append(g[i - 1], more[i].n)
                ELSE g[i - 1]
  BY <1>2, <1>3 DEF Unfolds
<1>8. QED
  BY <1>2, <1>5, <1>6, <1>7

(* The recursion for one event more. *)
LEMMA UnfoldsExtends ==
    ASSUME NEW u, NEW evs \in Seq(AnEvent), NEW e \in AnEvent, NEW f, Unfolds(u, evs, f)
    PROVE  \E g : Unfolds(u, Append(evs, e), g)
<1> DEFINE n == Len(evs)
           more == Append(evs, e)
           last == IF e.kind = "Data" /\ e.url = u THEN Append(f[n], e.n) ELSE f[n]
           g == [i \in 0..(n + 1) |-> IF i = n + 1 THEN last ELSE f[i]]
<1>1. /\ n \in Nat /\ Len(more) = n + 1 /\ more[n + 1] = e
      /\ \A i \in 1..n : more[i] = evs[i]
  OBVIOUS
<1> DEFINE h == [i \in 0..Len(more) |->
                    IF i = 0 THEN <<>>
                    ELSE IF more[i].kind = "Data" /\ more[i].url = u THEN Append(g[i - 1], more[i].n)
                    ELSE g[i - 1]]
<1>2. \A i \in 0..(n + 1) : h[i] = g[i]
  <2> SUFFICES ASSUME NEW i \in 0..(n + 1) PROVE h[i] = g[i]
    OBVIOUS
  <2> HIDE DEF more, last
  <2>1. CASE i = n + 1
    <3>1. g[i] = last /\ i - 1 = n /\ g[n] = f[n] /\ i # 0 /\ i \in 0..Len(more)
      BY <1>1, <2>1
    <3>2. h[i] = IF more[i].kind = "Data" /\ more[i].url = u THEN Append(f[n], more[i].n)
                 ELSE f[n]
      <4> HIDE DEF g
      <4>1. QED
        BY <3>1
    <3>3. more[i] = e
      BY <1>1, <2>1
    <3>4. QED
      BY <3>1, <3>2, <3>3 DEF last
  <2>2. CASE i = 0
    <3>1. f[0] = <<>>
      BY <1>1 DEF Unfolds
    <3>2. QED
      BY <1>1, <2>2, <3>1
  <2>3. CASE i \in 1..n
    <3>1. g[i] = f[i] /\ g[i - 1] = f[i - 1] /\ i # 0 /\ i \in 0..Len(more) /\ i \in 0..Len(evs)
      BY <1>1, <2>3
    <3>2. h[i] = IF more[i].kind = "Data" /\ more[i].url = u THEN Append(f[i - 1], more[i].n)
                 ELSE f[i - 1]
      <4> HIDE DEF g
      <4>1. QED
        BY <3>1
    <3>3. f[i] = IF evs[i].kind = "Data" /\ evs[i].url = u THEN Append(f[i - 1], evs[i].n)
                 ELSE f[i - 1]
      BY <3>1 DEF Unfolds
    <3>4. more[i] = evs[i]
      BY <1>1, <2>3
    <3>5. QED
      BY <3>1, <3>2, <3>3, <3>4
  <2>4. QED
    BY <1>1, <2>1, <2>2, <2>3
<1>3. h = g
  <2>1. DOMAIN h = 0..(n + 1) /\ DOMAIN g = 0..(n + 1)
    BY <1>1
  <2>2. h = [i \in 0..(n + 1) |-> h[i]] /\ g = [i \in 0..(n + 1) |-> g[i]]
    BY <1>1
  <2> HIDE DEF h, g
  <2>3. QED
    BY <1>2, <2>1, <2>2
<1>4. Unfolds(u, more, g)
  BY <1>3 DEF Unfolds
<1>5. QED
  BY <1>4

LEMMA UnfoldsEmpty ==
    ASSUME NEW u
    PROVE  Unfolds(u, <<>>, [i \in {0} |-> <<>>])
<1>1. Len(<<>>) = 0 /\ 0..0 = {0}
  OBVIOUS
<1>2. QED
  BY <1>1 DEF Unfolds

(* Every sequence of events has such a function. *)
LEMMA UnfoldsExists ==
    ASSUME NEW u, NEW evs \in Seq(AnEvent)
    PROVE  \E f : Unfolds(u, evs, f)
<1> DEFINE T == {n \in Nat : \E s \in Seq(AnEvent) : Len(s) = n /\ ~\E f : Unfolds(u, s, f)}
<1> SUFFICES ASSUME ~\E f : Unfolds(u, evs, f) PROVE FALSE
  OBVIOUS
<1>1. T \subseteq Nat /\ Len(evs) \in T
  OBVIOUS
<1>2. PICK n \in T : \A k \in T : n <= k
  <2> HIDE DEF T
  <2>1. QED
    BY <1>1, NatMin
<1>3. PICK s \in Seq(AnEvent) : Len(s) = n /\ ~\E f : Unfolds(u, s, f)
  OBVIOUS
<1>4. s # <<>>
  BY <1>3, UnfoldsEmpty
<1>5. PICK q \in Seq(AnEvent), e \in AnEvent : s = Append(q, e)
  <2>1. \A k \in Nat : k >= 1 => k - 1 \in Nat
    OBVIOUS
  <2>2. Len(s) \in Nat /\ Len(s) >= 1
    BY <1>4
  <2>3. PICK m \in Nat : m = Len(s) - 1
    BY <2>1, <2>2, Zenon
  <2>4. /\ SubSeq(s, 1, m) \in Seq(AnEvent) /\ s[Len(s)] \in AnEvent
        /\ Len(SubSeq(s, 1, m)) = m /\ \A i \in 1..m : SubSeq(s, 1, m)[i] = s[i]
    BY <2>2, <2>3
  <2>5. s = Append(SubSeq(s, 1, m), s[Len(s)])
    BY <2>2, <2>3, <2>4
  <2>6. QED
    BY <2>4, <2>5
<1>6. Len(q) \in Nat /\ Len(q) < n
  BY <1>3, <1>5
<1>7. \E f : Unfolds(u, q, f)
  BY <1>2, <1>6
<1>8. QED
  BY <1>3, <1>5, <1>7, UnfoldsExtends

LEMMA DataOfEmpty == \A u : DataOf(u, <<>>) = <<>>
<1> TAKE u
<1>1. PICK g : Unfolds(u, <<>>, g) /\ DataOf(u, <<>>) = g[Len(<<>>)]
  BY UnfoldsEmpty, DataOfUnfolds
<1>2. Len(<<>>) = 0 /\ 0 \in 0..0
  OBVIOUS
<1>3. QED
  BY <1>1, <1>2 DEF Unfolds

LEMMA DataOfAppend ==
    ASSUME NEW u, NEW evs \in Seq(AnEvent), NEW e \in AnEvent
    PROVE  DataOf(u, Append(evs, e)) =
             IF e.kind = "Data" /\ e.url = u THEN Append(DataOf(u, evs), e.n) ELSE DataOf(u, evs)
<1> DEFINE more == Append(evs, e)
<1>1. /\ more \in Seq(AnEvent) /\ Len(evs) \in Nat /\ Len(more) = Len(evs) + 1
      /\ more[Len(evs) + 1] = e /\ \A i \in DOMAIN evs : more[i] = evs[i]
  OBVIOUS
<1> HIDE DEF more
<1>2. PICK f : Unfolds(u, evs, f) /\ DataOf(u, evs) = f[Len(evs)]
  BY UnfoldsExists, DataOfUnfolds
<1>3. PICK g : Unfolds(u, more, g) /\ DataOf(u, more) = g[Len(more)]
  BY <1>1, UnfoldsExists, DataOfUnfolds
<1>4. g[Len(evs)] = f[Len(evs)]
  <2>1. Len(evs) <= Len(more) /\ Len(evs) \in 0..Len(evs)
    BY <1>1
  <2>2. more \in Seq(AnEvent) /\ (\A i \in DOMAIN evs : more[i] = evs[i])
    BY <1>1
  <2>3. Unfolds(u, evs, f) /\ Unfolds(u, more, g)
    BY <1>2, <1>3
  <2>4. \A i \in 0..Len(evs) : f[i] = g[i]
    BY <2>1, <2>2, <2>3, UnfoldsOnce
  <2>5. QED
    BY <2>1, <2>4
<1>5. g[Len(evs) + 1] = IF e.kind = "Data" /\ e.url = u THEN Append(g[Len(evs)], e.n) ELSE g[Len(evs)]
  <2>1. /\ Len(evs) + 1 \in 0..Len(more) /\ Len(evs) + 1 # 0 /\ (Len(evs) + 1) - 1 = Len(evs)
    BY <1>1
  <2>2. QED
    BY <1>1, <1>3, <2>1 DEF Unfolds
<1>6. QED
  BY <1>1, <1>2, <1>3, <1>4, <1>5 DEF more

(* DataOf yields a sequence of numbers. *)
LEMMA DataOfType ==
    ASSUME NEW u, NEW evs \in Seq(AnEvent)
    PROVE  DataOf(u, evs) \in Seq(0..MaxFrames)
<1> DEFINE S == Seq(0..MaxFrames)
<1>1. PICK f : Unfolds(u, evs, f) /\ DataOf(u, evs) = f[Len(evs)]
  BY UnfoldsExists, DataOfUnfolds
<1> DEFINE T == {i \in 0..Len(evs) : f[i] \notin S}
<1> SUFFICES ASSUME DataOf(u, evs) \notin S PROVE FALSE
  OBVIOUS
<1>2. Len(evs) \in Nat /\ DOMAIN evs = 1..Len(evs) /\ \A i \in DOMAIN evs : evs[i] \in AnEvent
  OBVIOUS
<1>e. <<>> \in S /\ \A s \in S, k \in 0..MaxFrames : Append(s, k) \in S
  OBVIOUS
<1> HIDE DEF S
<1>3. PICK i \in T : \A j \in T : i <= j
  <2>1. T \subseteq Nat /\ Len(evs) \in T
    BY <1>1, <1>2
  <2> HIDE DEF T
  <2>2. QED
    BY <2>1, NatMin
<1>4. i \in 0..Len(evs) /\ f[i] \notin S /\ i \in Nat
  BY <1>2
<1>m. \A j \in 0..Len(evs) : j < i => f[j] \in S
  BY <1>2, <1>3
<1> HIDE DEF T
<1>5. i # 0
  <2>1. f[0] = <<>>
    BY <1>1, <1>2 DEF Unfolds
  <2>2. QED
    BY <1>4, <1>e, <2>1
<1>6. i \in DOMAIN evs /\ i - 1 \in 0..Len(evs) /\ i - 1 < i
  BY <1>2, <1>4, <1>5
<1>7. f[i - 1] \in S
  BY <1>m, <1>6
<1>8. f[i] = IF evs[i].kind = "Data" /\ evs[i].url = u THEN Append(f[i - 1], evs[i].n)
             ELSE f[i - 1]
  BY <1>1, <1>4, <1>5 DEF Unfolds
<1>9. evs[i].n \in 0..MaxFrames
  BY <1>2, <1>6 DEF AnEvent
<1>10. QED
  BY <1>4, <1>7, <1>8, <1>9, <1>e, Zenon

-----------------------------------------------------------------------------
(* The lists, the answers and the frames, action by action. *)

(* Steps that touch neither a list nor an answer. *)
LEMMA UntouchedAccounts ==
    ASSUME Accounts, UNCHANGED <<inbox, drained, pending, temp, answer, frames, bound>>,
           pc' # "inbox" => drained = <<>>,
           pc' # "pending" => temp = <<>>,
           pc' \in {"accept", "sockets", "pending"} => bound
    PROVE  Accounts'
<1>1. PhaseInv'
  BY DEF PhaseInv
<1>2. ListsInv'
  BY DEF Accounts, ListsInv, AtMostOneList, NoDup, In
<1>3. AskedInv'
  BY DEF Accounts, AskedInv, Somewhere, In
<1>4. UnboundInv' /\ AnswerTellsTheTruth'
  BY DEF Accounts, UnboundInv, AnswerTellsTheTruth
<1>5. QED
  BY <1>1, <1>2, <1>3, <1>4 DEF Accounts

LEMMA AskAccounts ==
    ASSUME TypeOK, Accounts, NEW r \in Requests, Ask(r)
    PROVE  Accounts'
<1>1. /\ pc = "idle" /\ answer[r] = "new" /\ answer' = [answer EXCEPT ![r] = "asked"]
      /\ inbox' = Append(inbox, r)
      /\ UNCHANGED <<pending, drained, temp, pc, frames, bound>>
  BY DEF Ask, callVars
<1>2. answer \in [Requests -> {"new", "asked", "ok", "err", "dropped"}] /\ inbox \in Seq(Requests)
  BY DEF TypeOK
<1>3. ~Somewhere(r)
  BY <1>1 DEF Accounts, AskedInv
<1>4. \A y : In(y, inbox') <=> (In(y, inbox) \/ y = r)
  BY <1>1, <1>2, InAppend
<1>5. NoDup(inbox')
  BY <1>1, <1>2, <1>3, NoDupAppend DEF Accounts, ListsInv, Somewhere
<1>6. ListsInv'
  <2>1. NoDup(drained') /\ NoDup(pending') /\ NoDup(temp')
    BY <1>1 DEF Accounts, ListsInv
  <2>2. ASSUME NEW q \in Requests PROVE AtMostOneList(q)'
    <3>1. AtMostOneList(q)
      BY DEF Accounts, ListsInv
    <3>2. UNCHANGED <<pending, drained, temp>>
      BY <1>1
    <3>3. (In(q, drained))' = In(q, drained) /\ (In(q, pending))' = In(q, pending)
          /\ (In(q, temp))' = In(q, temp)
      BY <3>2 DEF In
    <3>4. QED
      BY <1>3, <1>4, <3>1, <3>2 DEF AtMostOneList, Somewhere
  <2>3. QED
    BY <1>5, <2>1, <2>2 DEF ListsInv
<1>7. AskedInv'
  <2>1. ASSUME NEW q \in Requests PROVE (answer[q] = "asked" <=> Somewhere(q))'
    <3>1. answer[q] = "asked" <=> Somewhere(q)
      BY DEF Accounts, AskedInv
    <3>2. answer'[q] = IF q = r THEN "asked" ELSE answer[q]
      BY <1>1, <1>2
    <3>3. QED
      BY <1>1, <1>4, <3>1, <3>2 DEF Somewhere
  <2>2. QED
    BY <2>1 DEF AskedInv
<1>8. PhaseInv' /\ UnboundInv'
  BY <1>1 DEF Accounts, PhaseInv, UnboundInv
<1>9. AnswerTellsTheTruth'
  BY <1>1, <1>2 DEF Accounts, AnswerTellsTheTruth, Requests
<1>10. QED
  BY <1>6, <1>7, <1>8, <1>9 DEF Accounts

LEMMA DropTransportAccounts ==
    ASSUME TypeOK, Accounts, DropTransport
    PROVE  Accounts'
<1>1. /\ pc = "idle" /\ pending' = <<>> /\ inbox' = <<>>
      /\ answer' = [r \in Requests |-> IF answer[r] = "asked" THEN "dropped" ELSE answer[r]]
      /\ UNCHANGED <<drained, temp, pc, frames, bound>>
  BY DEF DropTransport, callVars
<1>2. drained' = <<>> /\ temp' = <<>>
  BY <1>1 DEF Accounts, PhaseInv
<1>3. ListsInv'
  BY <1>1, <1>2, InEmpty, NoDupEmpty DEF ListsInv, AtMostOneList
<1>4. AskedInv'
  BY <1>1, <1>2, InEmpty DEF AskedInv, Somewhere
<1>5. PhaseInv' /\ UnboundInv'
  BY <1>1 DEF Accounts, PhaseInv, UnboundInv
<1>6. AnswerTellsTheTruth'
  BY <1>1 DEF Accounts, AnswerTellsTheTruth, Requests
<1>7. QED
  BY <1>3, <1>4, <1>5, <1>6 DEF Accounts

LEMMA StartProcessAccounts ==
    ASSUME Accounts, StartProcess
    PROVE  Accounts'
<1>1. /\ pc = "idle" /\ drained' = inbox /\ inbox' = <<>> /\ pc' = "inbox"
      /\ UNCHANGED <<pending, temp, answer, frames, bound>>
  BY DEF StartProcess
<1>2. drained = <<>> /\ temp = <<>>
  BY <1>1 DEF Accounts, PhaseInv
<1>3. \A y : ~In(y, inbox') /\ ~In(y, drained) /\ ~In(y, temp) /\ ~In(y, temp')
             /\ (In(y, drained') <=> In(y, inbox)) /\ (In(y, pending') <=> In(y, pending))
  BY <1>1, <1>2, InEmpty DEF In
<1>4. ListsInv'
  <2>1. NoDup(inbox') /\ NoDup(drained') /\ NoDup(pending') /\ NoDup(temp')
    BY <1>1, NoDupEmpty DEF Accounts, ListsInv
  <2>2. ASSUME NEW q \in Requests PROVE AtMostOneList(q)'
    <3>1. AtMostOneList(q)
      BY DEF Accounts, ListsInv
    <3>2. QED
      BY <1>3, <3>1 DEF AtMostOneList
  <2>3. QED
    BY <2>1, <2>2 DEF ListsInv
<1>5. AskedInv'
  BY <1>1, <1>3 DEF Accounts, AskedInv, Somewhere
<1>6. PhaseInv' /\ UnboundInv' /\ AnswerTellsTheTruth'
  BY <1>1, <1>2 DEF Accounts, PhaseInv, UnboundInv, AnswerTellsTheTruth
<1>7. QED
  BY <1>4, <1>5, <1>6 DEF Accounts

(* The request at hand leaves the list of the loop: answered, or kept among *)
(* the pending messages.                                                    *)
LEMMA HeadLeaves ==
    ASSUME TypeOK, ListsInv, AskedInv, drained # <<>>, drained' = Tail(drained),
           UNCHANGED <<inbox, temp>>,
           \A r \in Requests : r # Head(drained) => answer'[r] = answer[r],
           \/ pending' = pending /\ answer'[Head(drained)] # "asked"
           \/ /\ Head(drained) \in Messages
              /\ pending' = Append(pending, Head(drained)) /\ answer' = answer
    PROVE  ListsInv' /\ AskedInv'
<1> DEFINE x == Head(drained)
<1>1. drained \in Seq(Requests) /\ pending \in Seq(Messages)
  BY DEF TypeOK
<1>2. NoDup(drained) /\ NoDup(inbox) /\ NoDup(pending) /\ NoDup(temp)
  BY DEF ListsInv
<1>3. /\ x \in Requests /\ In(x, drained) /\ NoDup(Tail(drained))
      /\ \A y : In(y, Tail(drained)) <=> (In(y, drained) /\ y # x)
  BY <1>1, <1>2, TailMembers
<1>4. /\ NoDup(drained')
      /\ \A y : In(y, drained') <=> (In(y, drained) /\ y # x)
      /\ \A y : In(y, inbox') <=> In(y, inbox)
      /\ \A y : In(y, temp') <=> In(y, temp)
  BY <1>3 DEF In
<1>5. AtMostOneList(x) /\ Somewhere(x) /\ answer[x] = "asked"
  BY <1>3 DEF ListsInv, AskedInv, Somewhere
<1> HIDE DEF x
<1>6. CASE pending' = pending /\ answer'[x] # "asked"
  <2>1. \A y : In(y, pending') <=> In(y, pending)
    BY <1>6 DEF In
  <2>2. ASSUME NEW q \in Requests
        PROVE  AtMostOneList(q)' /\ (answer[q] = "asked" <=> Somewhere(q))'
    <3>1. AtMostOneList(q) /\ (answer[q] = "asked" <=> Somewhere(q))
      BY DEF ListsInv, AskedInv
    <3>2. q # x => answer'[q] = answer[q]
      BY DEF x
    <3>3. AtMostOneList(q)'
      BY <1>4, <2>1, <3>1 DEF AtMostOneList
    <3>4. CASE q = x
      <4>1. ~Somewhere(q)'
        BY <1>3, <1>4, <1>5, <2>1, <3>4 DEF AtMostOneList, Somewhere
      <4>2. QED
        BY <1>6, <3>3, <3>4, <4>1
    <3>5. CASE q # x
      <4>1. Somewhere(q)' <=> Somewhere(q)
        BY <1>4, <2>1, <3>5 DEF Somewhere
      <4>2. QED
        BY <3>1, <3>2, <3>3, <3>5, <4>1
    <3>6. QED
      BY <3>4, <3>5
  <2>3. NoDup(inbox') /\ NoDup(pending') /\ NoDup(temp')
    BY <1>2, <1>6
  <2>4. QED
    BY <1>4, <2>2, <2>3 DEF ListsInv, AskedInv
<1>7. CASE x \in Messages /\ pending' = Append(pending, x) /\ answer' = answer
  <2>1. \A y : In(y, pending') <=> (In(y, pending) \/ y = x)
    BY <1>1, <1>7, InAppend
  <2>2. ASSUME NEW q \in Requests
        PROVE  AtMostOneList(q)' /\ (answer[q] = "asked" <=> Somewhere(q))'
    <3>1. AtMostOneList(q) /\ (answer[q] = "asked" <=> Somewhere(q))
      BY DEF ListsInv, AskedInv
    <3>2. QED
      BY <1>3, <1>4, <1>5, <1>7, <2>1, <3>1 DEF AtMostOneList, Somewhere
  <2>3. NoDup(pending')
    <3>1. ~In(x, pending)
      BY <1>3, <1>5 DEF AtMostOneList
    <3>2. QED
      BY <1>1, <1>2, <1>7, <3>1, NoDupAppend
  <2>4. NoDup(inbox') /\ NoDup(temp')
    BY <1>2
  <2>5. QED
    BY <1>4, <2>2, <2>3, <2>4 DEF ListsInv, AskedInv
<1>8. QED
  BY <1>6, <1>7 DEF x

(* An error of advertise: the rest of the loop is dropped. *)
LEMMA DropRestAccounts ==
    ASSUME TypeOK, Accounts, pc = "inbox", drained # <<>>, Head(drained) \in Binds, DropRest,
           bound' = TRUE, UNCHANGED <<inbox, pending, temp, frames>>
    PROVE  Accounts'
<1> DEFINE x == Head(drained)
<1>1. /\ drained' = <<>> /\ pc' = "idle"
      /\ answer' = [r \in Requests |->
                      IF \E i \in 2..Len(drained) : drained[i] = r THEN "dropped"
                      ELSE IF r = x THEN "ok" ELSE answer[r]]
  BY DEF DropRest
<1>2. drained \in Seq(Requests) /\ NoDup(drained)
  BY DEF Accounts, ListsInv, TypeOK
<1>3. /\ \A y : (\E i \in 2..Len(drained) : drained[i] = y) <=> (In(y, drained) /\ y # x)
      /\ In(x, drained)
  BY <1>2, TailMembers
<1>4. temp = <<>>
  BY DEF Accounts, PhaseInv
<1> HIDE DEF x
<1>5. \A r \in Requests : answer'[r] = IF r = x THEN "ok"
                                       ELSE IF In(r, drained) THEN "dropped" ELSE answer[r]
  BY <1>1, <1>3
<1>6. /\ \A y : ~In(y, drained')
      /\ \A y : In(y, inbox') <=> In(y, inbox)
      /\ \A y : In(y, temp') <=> In(y, temp)
      /\ \A y : In(y, pending') <=> In(y, pending)
  BY <1>1, InEmpty DEF In
<1>7. ListsInv'
  <2>1. NoDup(inbox') /\ NoDup(drained') /\ NoDup(pending') /\ NoDup(temp')
    BY <1>1, NoDupEmpty DEF Accounts, ListsInv
  <2>2. ASSUME NEW q \in Requests PROVE AtMostOneList(q)'
    <3>1. AtMostOneList(q)
      BY DEF Accounts, ListsInv
    <3>2. QED
      BY <1>6, <3>1 DEF AtMostOneList
  <2>3. QED
    BY <2>1, <2>2 DEF ListsInv
<1>8. AskedInv'
  <2>1. ASSUME NEW q \in Requests PROVE (answer[q] = "asked" <=> Somewhere(q))'
    <3>1. AtMostOneList(q) /\ (answer[q] = "asked" <=> Somewhere(q))
      BY DEF Accounts, ListsInv, AskedInv
    <3>2. CASE In(q, drained)
      <4>1. answer'[q] # "asked"
        BY <1>5, <3>2
      <4>2. QED
        BY <1>6, <3>1, <3>2, <4>1 DEF AtMostOneList, Somewhere
    <3>3. CASE ~In(q, drained)
      <4>1. answer'[q] = answer[q]
        BY <1>3, <1>5, <3>3
      <4>2. QED
        BY <1>6, <3>1, <3>3, <4>1 DEF Somewhere
    <3>4. QED
      BY <3>2, <3>3
  <2>2. QED
    BY <2>1 DEF AskedInv
<1>9. PhaseInv' /\ UnboundInv'
  BY <1>1, <1>4 DEF PhaseInv, UnboundInv
<1>10. AnswerTellsTheTruth'
  <2>1. ASSUME NEW m \in Messages PROVE m \in Requests /\ m # x
    BY WebsocketAssumption DEF Requests, x
  <2>2. ASSUME NEW m \in Messages
        PROVE  /\ answer'[m] = "ok" => frames'[m] > 0
               /\ answer'[m] = "err" => frames'[m] = 0
    BY <1>5, <2>1 DEF Accounts, AnswerTellsTheTruth
  <2>3. QED
    BY <2>2 DEF AnswerTellsTheTruth
<1>11. QED
  BY <1>7, <1>8, <1>9, <1>10 DEF Accounts

LEMMA InboxBindAccounts ==
    ASSUME TypeOK, Accounts, InboxBind
    PROVE  Accounts'
<1> DEFINE x == Head(drained)
<1>1. /\ pc = "inbox" /\ drained # <<>> /\ x \in Binds
      /\ UNCHANGED <<inbox, pending, temp, frames>>
  BY DEF InboxBind
<1>2. /\ answer \in [Requests -> {"new", "asked", "ok", "err", "dropped"}]
      /\ x \in Requests /\ \A m \in Messages : m \in Requests /\ m # x
  BY <1>1, WebsocketAssumption DEF TypeOK, Requests
<1>3. temp = <<>>
  BY <1>1 DEF Accounts, PhaseInv
<1>4. ASSUME NEW a \in {"ok", "err"}, answer' = [answer EXCEPT ![x] = a],
             drained' = Tail(drained), pc' = pc, bound' = TRUE \/ bound' = bound
      PROVE  Accounts'
  <2>1. /\ \A r \in Requests : r # x => answer'[r] = answer[r]
        /\ answer'[x] # "asked"
    BY <1>2, <1>4
  <2>2. ListsInv' /\ AskedInv'
    <3>1. ListsInv /\ AskedInv /\ UNCHANGED <<inbox, temp>> /\ pending' = pending
      BY <1>1 DEF Accounts
    <3>2. QED
      BY <1>1, <1>4, <2>1, <3>1, HeadLeaves
  <2>3. PhaseInv' /\ UnboundInv'
    BY <1>1, <1>3, <1>4 DEF PhaseInv, UnboundInv, Accounts
  <2>4. AnswerTellsTheTruth'
    BY <1>1, <1>2, <2>1 DEF Accounts, AnswerTellsTheTruth
  <2>5. QED
    BY <2>2, <2>3, <2>4 DEF Accounts
<1>5. CASE DropRest /\ bound' = TRUE
  BY <1>1, <1>5, DropRestAccounts
<1>6. QED
  BY <1>4, <1>5 DEF InboxBind

(* Writing a message that is not answered yet does not contradict an        *)
(* answer.                                                                  *)
LEMMA WrittenTruth ==
    ASSUME TypeOK, AnswerTellsTheTruth, UnboundInv, NEW m \in Messages, answer[m] = "asked",
           bound, bound' = bound,
           \/ /\ answer' = [answer EXCEPT ![m] = "ok"]
              /\ frames' = [frames EXCEPT ![m] = @ + 1]
           \/ /\ answer' = answer
              /\ frames' = frames \/ frames' = [frames EXCEPT ![m] = @ + 1]
    PROVE  AnswerTellsTheTruth' /\ UnboundInv'
<1>1. /\ frames \in [Messages -> Nat]
      /\ answer \in [Requests -> {"new", "asked", "ok", "err", "dropped"}]
      /\ Messages \subseteq Requests
  BY DEF TypeOK, Requests
<1>2. \A q \in Messages : q # m => frames'[q] = frames[q] /\ answer'[q] = answer[q]
  BY <1>1
<1>3. \/ answer'[m] = "ok" /\ frames'[m] > 0
      \/ answer'[m] = "asked"
  BY <1>1
<1>4. AnswerTellsTheTruth'
  BY <1>2, <1>3 DEF AnswerTellsTheTruth
<1>5. QED
  BY <1>4 DEF UnboundInv

LEMMA InboxSendAccounts ==
    ASSUME TypeOK, Accounts, InboxSend
    PROVE  Accounts'
<1> DEFINE x == Head(drained)
<1>1. /\ pc = "inbox" /\ drained # <<>> /\ x \in Messages /\ drained' = Tail(drained)
      /\ UNCHANGED <<inbox, temp, pc, bound>>
  BY DEF InboxSend
<1>2. /\ answer \in [Requests -> {"new", "asked", "ok", "err", "dropped"}]
      /\ x \in Requests /\ Messages \subseteq Requests
  BY <1>1 DEF TypeOK, Requests
<1>3. temp = <<>>
  BY <1>1 DEF Accounts, PhaseInv
<1>4. answer[x] = "asked"
  <2>1. drained \in Seq(Requests)
    BY DEF TypeOK
  <2>2. In(x, drained)
    BY <1>1, <2>1 DEF In
  <2>3. QED
    BY <1>2, <2>2 DEF Accounts, AskedInv, Somewhere
<1>5. ListsInv /\ AskedInv
  BY DEF Accounts
<1>6. PhaseInv'
  BY <1>1, <1>3 DEF PhaseInv
<1>7. CASE /\ ~bound /\ answer' = [answer EXCEPT ![x] = "err"]
           /\ UNCHANGED <<pending, frames>>
  <2>1. \A r \in Requests : answer'[r] = IF r = x THEN "err" ELSE answer[r]
    BY <1>2, <1>7
  <2>2. ListsInv' /\ AskedInv'
    BY <1>1, <1>2, <1>5, <1>7, <2>1, HeadLeaves
  <2>3. AnswerTellsTheTruth' /\ UnboundInv'
    BY <1>1, <1>2, <1>7, <2>1 DEF Accounts, AnswerTellsTheTruth, UnboundInv
  <2>4. QED
    BY <1>6, <2>2, <2>3 DEF Accounts
<1>8. CASE bound /\ pending' = Append(pending, x) /\ UNCHANGED <<answer, frames>>
  <2>1. ListsInv' /\ AskedInv'
    BY <1>1, <1>2, <1>5, <1>8, HeadLeaves
  <2>2. AnswerTellsTheTruth' /\ UnboundInv'
    BY <1>1, <1>8 DEF Accounts, AnswerTellsTheTruth, UnboundInv
  <2>3. QED
    BY <1>6, <2>1, <2>2 DEF Accounts
<1>9. CASE bound /\ HandleSendMessage(x, pending)
  <2>1. \/ /\ answer' = [answer EXCEPT ![x] = "ok"] /\ pending' = pending
           /\ frames' = [frames EXCEPT ![x] = @ + 1]
        \/ /\ answer' = answer /\ pending' = Append(pending, x)
           /\ frames' = frames \/ frames' = [frames EXCEPT ![x] = @ + 1]
    <3>1. [frames EXCEPT ![x] = @] = frames
      BY DEF TypeOK
    <3> HIDE DEF x
    <3>2. QED
      BY <1>9, <3>1 DEF HandleSendMessage, Send, WriteOutcomes
  <2>2. /\ \A r \in Requests : r # x => answer'[r] = answer[r]
        /\ \/ pending' = pending /\ answer'[x] # "asked"
           \/ pending' = Append(pending, x) /\ answer' = answer
    BY <1>2, <2>1
  <2>3. ListsInv' /\ AskedInv'
    BY <1>1, <1>5, <2>2, HeadLeaves
  <2>4. AnswerTellsTheTruth' /\ UnboundInv'
    <3>1. AnswerTellsTheTruth /\ UnboundInv /\ bound /\ bound' = bound
      BY <1>1, <1>9 DEF Accounts
    <3>2. QED
      BY <1>1, <1>4, <2>1, <3>1, WrittenTruth
  <2>5. QED
    BY <1>6, <2>3, <2>4 DEF Accounts
<1>10. QED
  BY <1>7, <1>8, <1>9 DEF InboxSend

LEMMA ProcessPendingAccounts ==
    ASSUME TypeOK, Accounts, ProcessPending
    PROVE  Accounts'
<1> DEFINE m == pending[Len(pending)]
<1>1. /\ pc = "pending" /\ pending # <<>> /\ pending' = SubSeq(pending, 1, Len(pending) - 1)
      /\ UNCHANGED <<inbox, drained, pc, bound>>
      /\ \/ HandleSendMessage(m, temp)
         \/ temp' = Append(temp, m) /\ UNCHANGED <<answer, frames>>
  BY DEF ProcessPending
<1>2. /\ pending \in Seq(Messages) /\ temp \in Seq(Messages) /\ NoDup(pending)
      /\ answer \in [Requests -> {"new", "asked", "ok", "err", "dropped"}]
      /\ Messages \subseteq Requests
  BY DEF TypeOK, Accounts, ListsInv, Requests
<1>3. /\ m \in Messages /\ In(m, pending) /\ NoDup(pending')
      /\ \A y : In(y, pending') <=> (In(y, pending) /\ y # m)
  BY <1>1, <1>2, FrontMembers
<1>4. PICK x \in Messages : x = m
  BY <1>3
<1>5. /\ answer[x] = "asked" /\ bound /\ ~In(x, temp) /\ AtMostOneList(x)
      /\ In(x, pending) /\ x \in Requests
  BY <1>1, <1>2, <1>3, <1>4 DEF Accounts, AskedInv, ListsInv, Somewhere, AtMostOneList, PhaseInv
<1>6. \/ /\ answer' = [answer EXCEPT ![x] = "ok"] /\ temp' = temp
         /\ frames' = [frames EXCEPT ![x] = @ + 1]
      \/ /\ answer' = answer /\ temp' = Append(temp, x)
         /\ frames' = frames \/ frames' = [frames EXCEPT ![x] = @ + 1]
  <2>1. [frames EXCEPT ![x] = @] = frames
    BY DEF TypeOK
  <2>2. frames' = [frames EXCEPT ![x] = @] \/ frames' = [frames EXCEPT ![x] = @ + 1]
        \/ frames' = frames
    BY <1>1, <1>4 DEF HandleSendMessage, Send
  <2>3. QED
    BY <1>1, <1>4, <2>1, <2>2 DEF HandleSendMessage, Send, WriteOutcomes
<1>7. /\ \A y : In(y, inbox') <=> In(y, inbox)
      /\ \A y : In(y, drained') <=> In(y, drained)
  BY <1>1 DEF In
<1>8. ListsInv' /\ AskedInv'
  <2>1. NoDup(inbox') /\ NoDup(drained')
    BY <1>1 DEF Accounts, ListsInv
  <2>2. CASE answer' = [answer EXCEPT ![x] = "ok"] /\ temp' = temp
    <3>1. \A y : In(y, temp') <=> In(y, temp)
      BY <2>2 DEF In
    <3>2. ASSUME NEW q \in Requests
          PROVE  AtMostOneList(q)' /\ (answer[q] = "asked" <=> Somewhere(q))'
      <4>1. AtMostOneList(q) /\ (answer[q] = "asked" <=> Somewhere(q))
        BY DEF Accounts, ListsInv, AskedInv
      <4>2. answer'[q] = IF q = x THEN "ok" ELSE answer[q]
        BY <1>2, <2>2
      <4>3. QED
        BY <1>3, <1>4, <1>5, <1>7, <3>1, <4>1, <4>2 DEF AtMostOneList, Somewhere
    <3>3. NoDup(temp')
      BY <2>2 DEF Accounts, ListsInv
    <3>4. QED
      BY <1>3, <2>1, <3>2, <3>3 DEF ListsInv, AskedInv
  <2>3. CASE answer' = answer /\ temp' = Append(temp, x)
    <3>1. \A y : In(y, temp') <=> (In(y, temp) \/ y = x)
      BY <1>2, <2>3, InAppend
    <3>2. ASSUME NEW q \in Requests
          PROVE  AtMostOneList(q)' /\ (answer[q] = "asked" <=> Somewhere(q))'
      <4>1. AtMostOneList(q) /\ (answer[q] = "asked" <=> Somewhere(q))
        BY DEF Accounts, ListsInv, AskedInv
      <4>2. QED
        BY <1>3, <1>4, <1>5, <1>7, <2>3, <3>1, <4>1 DEF AtMostOneList, Somewhere
    <3>3. NoDup(temp')
      BY <1>2, <1>5, <2>3, NoDupAppend DEF Accounts, ListsInv
    <3>4. QED
      BY <1>3, <2>1, <3>2, <3>3 DEF ListsInv, AskedInv
  <2>4. QED
    BY <1>6, <2>2, <2>3
<1>9. AnswerTellsTheTruth' /\ UnboundInv'
  <2>1. AnswerTellsTheTruth /\ UnboundInv /\ bound' = bound
    BY <1>1 DEF Accounts
  <2>2. QED
    BY <1>5, <1>6, <2>1, WrittenTruth
<1>10. PhaseInv'
  BY <1>1, <1>5 DEF Accounts, PhaseInv
<1>11. QED
  BY <1>8, <1>9, <1>10 DEF Accounts

LEMMA EndProcessAccounts ==
    ASSUME Accounts, EndProcess
    PROVE  Accounts'
<1>1. /\ pc = "pending" /\ pending = <<>> /\ pending' = temp /\ temp' = <<>> /\ pc' = "idle"
      /\ UNCHANGED <<inbox, drained, answer, frames, bound>>
  BY DEF EndProcess
<1>2. /\ \A y : ~In(y, pending) /\ ~In(y, temp') /\ (In(y, pending') <=> In(y, temp))
      /\ \A y : (In(y, inbox') <=> In(y, inbox)) /\ (In(y, drained') <=> In(y, drained))
  BY <1>1, InEmpty DEF In
<1>3. ListsInv'
  <2>1. NoDup(inbox') /\ NoDup(drained') /\ NoDup(pending') /\ NoDup(temp')
    BY <1>1, NoDupEmpty DEF Accounts, ListsInv
  <2>2. ASSUME NEW q \in Requests PROVE AtMostOneList(q)'
    <3>1. AtMostOneList(q)
      BY DEF Accounts, ListsInv
    <3>2. QED
      BY <1>2, <3>1 DEF AtMostOneList
  <2>3. QED
    BY <2>1, <2>2 DEF ListsInv
<1>4. AskedInv'
  BY <1>1, <1>2 DEF Accounts, AskedInv, Somewhere
<1>5. PhaseInv' /\ UnboundInv' /\ AnswerTellsTheTruth'
  BY <1>1 DEF Accounts, PhaseInv, UnboundInv, AnswerTellsTheTruth
<1>6. QED
  BY <1>3, <1>4, <1>5 DEF Accounts

-----------------------------------------------------------------------------
(* What one run of the state machine of a stream can do: at most one event, *)
(* and a data frame is numbered after those that were read before.          *)
LEMMA SocketOutcome ==
    ASSUME TypeOK, NEW u \in Urls, NEW s \in ProcessSocket(u)
    PROVE  /\ s.state \in States
           /\ s.silent \in 0..MaxSilence
           /\ s.read \in 0..MaxFrames
           /\ \/ s.events = <<>> /\ s.read = read[u]
              \/ /\ s.read = read[u]
                 /\ \E k \in {"Error", "Incoming"} : s.events = <<Event(k, u, 0)>>
              \/ /\ s.read = read[u] + 1
                 /\ s.events = <<Event("Data", u, read[u] + 1)>>
<1>1. /\ socket[u] \in States /\ silent[u] \in 0..MaxSilence /\ read[u] \in 0..MaxFrames
      /\ MaxSilence \in Nat /\ MaxFrames \in Nat /\ 0 \in 0..MaxSilence
  BY WebsocketAssumption DEF TypeOK
<1>2. CASE socket[u] \in Ready
  <2>1. s \in ReadSteps(u)
    BY <1>2 DEF ProcessSocket
  <2>2. CASE s \in {Step(socket[u], silent[u], <<>>, read[u]), Step(socket[u], 0, <<>>, read[u])}
    BY <1>1, <2>2 DEF Step
  <2>3. CASE s \in {Step(socket[u], 0, <<Event("Data", u, n)>>, n) : n \in {n \in 1..MaxFrames : n = read[u] + 1}}
    <3>1. PICK n \in 1..MaxFrames : n = read[u] + 1 /\ s = Step(socket[u], 0, <<Event("Data", u, n)>>, n)
      BY <2>3
    <3>2. s.state = socket[u] /\ s.silent = 0 /\ s.events = <<Event("Data", u, n)>> /\ s.read = n
      BY <3>1 DEF Step
    <3>3. n \in 0..MaxFrames
      OBVIOUS
    <3>4. QED
      BY <1>1, <3>1, <3>2, <3>3
  <2>4. CASE s \in {Step("None", silent[u], <<>>, read[u]),
                    Step("None", silent[u], <<Event("Error", u, 0)>>, read[u])}
    BY <1>1, <2>4 DEF Step, States
  <2>5. QED
    BY <2>1, <2>2, <2>3, <2>4 DEF ReadSteps
<1>3. CASE socket[u] \notin Ready
  <2> DEFINE age == IF socket[u] \in Starting THEN 0 ELSE silent[u]
  <2>1. age \in 0..MaxSilence
    BY <1>1
  <2>2. PICK h \in Handshakes :
            \/ s = Step(h.done, age, ReadyEvents(h, u), read[u])
            \/ s = Step(h.mid, age, <<>>, read[u])
            \/ s = Step("None", age, <<Event("Error", u, 0)>>, read[u])
    BY <1>3 DEF ProcessSocket, HandshakeSteps
  <2> HIDE DEF age
  <2>3. h.done \in States /\ h.mid \in States
    BY DEF Handshakes, TlsHandshake, TlsSrvHandshake, WsHandshake, WssHandshake, WsSrvHandshake,
           WssSrvHandshake, States, Starting, MidHandshake, Ready
  <2>4. ReadyEvents(h, u) = <<>> \/ ReadyEvents(h, u) = <<Event("Incoming", u, 0)>>
    BY DEF ReadyEvents
  <2>5. CASE s = Step(h.done, age, ReadyEvents(h, u), read[u])
    BY <1>1, <2>1, <2>3, <2>4, <2>5 DEF Step
  <2>6. CASE s = Step(h.mid, age, <<>>, read[u])
    BY <1>1, <2>1, <2>3, <2>6 DEF Step
  <2>7. CASE s = Step("None", age, <<Event("Error", u, 0)>>, read[u])
    BY <1>1, <2>1, <2>7 DEF Step, States
  <2>8. QED
    BY <2>2, <2>5, <2>6, <2>7
<1>4. QED
  BY <1>2, <1>3

LEMMA EventType ==
    ASSUME NEW k \in EventKinds, NEW u \in Urls, NEW n \in 0..MaxFrames
    PROVE  Event(k, u, n) \in AnEvent /\ Event(k, u, n).kind = k
           /\ Event(k, u, n).url = u /\ Event(k, u, n).n = n
BY DEF Event, AnEvent

(* What the parent was told and what is queued, together. *)
All(u) == told[u] \o DataOf(u, events)

(* Reading appends the next frame to what was read from that socket. *)
LEMMA SocketStepReported ==
    ASSUME TypeOK, ReadIsReported, NEW u \in Urls, SocketStep(u)
    PROVE  ReadIsReported'
<1>1. PICK s \in ProcessSocket(u) :
          read' = [read EXCEPT ![u] = s.read] /\ events' = events \o s.events
  BY DEF SocketStep
<1>2. told' = told
  BY DEF SocketStep
<1>3. /\ events \in Seq(AnEvent) /\ read \in [Urls -> 0..MaxFrames]
      /\ told \in [Urls -> Seq(1..MaxFrames)] /\ MaxFrames \in Nat
  BY WebsocketAssumption DEF TypeOK, AnEvent
<1>4. read[u] \in 0..MaxFrames /\ 0 \in 0..MaxFrames
  BY <1>3
<1>5. /\ s.read \in 0..MaxFrames
      /\ \/ s.events = <<>> /\ s.read = read[u]
         \/ /\ s.read = read[u]
            /\ \E k \in {"Error", "Incoming"} : s.events = <<Event(k, u, 0)>>
         \/ /\ s.read = read[u] + 1
            /\ s.events = <<Event("Data", u, read[u] + 1)>>
  BY SocketOutcome
<1>6. SUFFICES ASSUME NEW v \in Urls
               PROVE  /\ Len(All(v)') = read'[v]
                      /\ \A i \in DOMAIN All(v)' : All(v)'[i] = i
  BY DEF ReadIsReported, All
<1>7. /\ Len(All(v)) = read[v]
      /\ \A i \in DOMAIN All(v) : All(v)[i] = i
  BY DEF ReadIsReported, All
<1>8. All(v)' = told[v] \o DataOf(v, events')
  BY <1>2 DEF All
<1>9. CASE s.events = <<>> /\ s.read = read[u]
  <2>1. events' = events /\ read' = read
    BY <1>1, <1>3, <1>9
  <2>2. All(v)' = All(v)
    BY <1>8, <2>1 DEF All
  <2>3. QED
    BY <1>7, <2>1, <2>2
<1>10. ASSUME NEW k \in {"Error", "Incoming"}, s.events = <<Event(k, u, 0)>>, s.read = read[u]
       PROVE  /\ Len(All(v)') = read'[v]
              /\ \A i \in DOMAIN All(v)' : All(v)'[i] = i
  <2>1. /\ Event(k, u, 0) \in AnEvent /\ Event(k, u, 0).kind = k
    BY <1>4, EventType DEF EventKinds
  <2>2. PICK e \in AnEvent : e = Event(k, u, 0) /\ e.kind # "Data"
    BY <2>1
  <2>3. events' = Append(events, e) /\ read' = read
    BY <1>1, <1>3, <1>10, <2>2
  <2>4. DataOf(v, events') = DataOf(v, events)
    BY <1>3, <2>2, <2>3, DataOfAppend
  <2>5. All(v)' = All(v)
    BY <1>8, <2>4 DEF All
  <2>6. QED
    BY <1>7, <2>3, <2>5
<1>11. CASE s.events = <<Event("Data", u, read[u] + 1)>> /\ s.read = read[u] + 1
  <2>1. read[u] + 1 \in 0..MaxFrames
    BY <1>5, <1>11
  <2>2. /\ Event("Data", u, read[u] + 1) \in AnEvent
        /\ Event("Data", u, read[u] + 1).kind = "Data"
        /\ Event("Data", u, read[u] + 1).url = u /\ Event("Data", u, read[u] + 1).n = read[u] + 1
    BY <2>1, EventType DEF EventKinds
  <2>3. PICK e \in AnEvent : /\ e = Event("Data", u, read[u] + 1)
                             /\ e.kind = "Data" /\ e.url = u /\ e.n = read[u] + 1
    BY <2>2
  <2>4. events' = Append(events, e)
    BY <1>1, <1>3, <1>11, <2>3
  <2>5. CASE v # u
    <3>1. DataOf(v, events') = DataOf(v, events)
      BY <1>3, <2>3, <2>4, <2>5, DataOfAppend
    <3>2. All(v)' = All(v) /\ read'[v] = read[v]
      BY <1>1, <1>3, <1>8, <2>5, <3>1 DEF All
    <3>3. QED
      BY <1>7, <3>2
  <2>6. CASE v = u
    <3>1. DataOf(v, events') = Append(DataOf(v, events), read[u] + 1)
      BY <1>3, <2>3, <2>4, <2>6, DataOfAppend
    <3>2. PICK d \in Seq(0..MaxFrames) : d = DataOf(v, events)
      BY <1>3, DataOfType
    <3>3. PICK t \in Seq(0..MaxFrames) : t = told[v]
      BY <1>3
    <3>4. All(v)' = Append(All(v), read[u] + 1) /\ All(v) \in Seq(0..MaxFrames)
      <4>1. read[u] + 1 \in 0..MaxFrames
        BY <2>1
      <4>2. All(v)' = t \o Append(d, read[u] + 1) /\ All(v) = t \o d
        BY <1>8, <3>1, <3>2, <3>3 DEF All
      <4>3. t \o d \in Seq(0..MaxFrames) /\ t \o Append(d, read[u] + 1) = Append(t \o d, read[u] + 1)
        BY <4>1, ConcatAppend
      <4>4. QED
        BY <4>2, <4>3
    <3>5. PICK a \in Seq(0..MaxFrames) : a = All(v)
      BY <3>4
    <3>6. /\ Len(a) = read[u] /\ \A i \in DOMAIN a : a[i] = i
      BY <1>7, <2>6, <3>5
    <3>7. All(v)' = Append(a, read[u] + 1) /\ read'[v] = read[u] + 1
      BY <1>1, <1>3, <1>11, <2>6, <3>4, <3>5
    <3>8. /\ Len(Append(a, read[u] + 1)) = read[u] + 1
          /\ \A i \in DOMAIN Append(a, read[u] + 1) : Append(a, read[u] + 1)[i] = i
      BY <2>1, <3>6
    <3>9. QED
      BY <3>7, <3>8
  <2>7. QED
    BY <2>5, <2>6
<1>12. QED
  BY <1>5, <1>9, <1>10, <1>11

(* Publishing moves what is queued to what was told. *)
LEMMA PublishReported ==
    ASSUME TypeOK, ReadIsReported, ProcessStreamEvents
    PROVE  ReadIsReported' /\ told' \in [Urls -> Seq(1..MaxFrames)]
<1>1. /\ events' = <<>> /\ told' = [u \in Urls |-> told[u] \o DataOf(u, events)] /\ read' = read
  BY DEF ProcessStreamEvents
<1>2. /\ events \in Seq(AnEvent) /\ read \in [Urls -> 0..MaxFrames]
      /\ told \in [Urls -> Seq(1..MaxFrames)] /\ MaxFrames \in Nat
  BY WebsocketAssumption DEF TypeOK, AnEvent
<1>3. ASSUME NEW u \in Urls
      PROVE  /\ All(u)' = told[u] \o DataOf(u, events)
             /\ told'[u] = told[u] \o DataOf(u, events)
             /\ told[u] \o DataOf(u, events) \in Seq(1..MaxFrames)
  <2>1. PICK d \in Seq(0..MaxFrames) : d = DataOf(u, events)
    BY <1>2, DataOfType
  <2>2. PICK t \in Seq(0..MaxFrames) : t = told[u]
    BY <1>2
  <2>3. PICK a \in Seq(0..MaxFrames) : a = t \o d
    <3>1. 0 \in 0..MaxFrames
      BY <1>2
    <3>2. QED
      BY <3>1, ConcatAppend
  <2>4. Len(a) = read[u] /\ \A i \in DOMAIN a : a[i] = i
    BY <2>1, <2>2, <2>3 DEF ReadIsReported
  <2>5. DOMAIN a = 1..read[u] /\ read[u] \in 0..MaxFrames /\ DOMAIN a = 1..Len(a)
    BY <1>2, <2>4
  <2>6. \A i \in DOMAIN a : a[i] \in 1..MaxFrames
    BY <1>2, <2>4, <2>5
  <2>7. a \in Seq(1..MaxFrames)
    BY <2>6, SeqNarrow
  <2>8. DataOf(u, events') = <<>>
    BY <1>1, DataOfEmpty
  <2>9. told'[u] = a
    BY <1>1, <2>1, <2>2, <2>3
  <2>10. All(u)' = a
    BY <2>3, <2>8, <2>9 DEF All
  <2>11. QED
    BY <2>1, <2>2, <2>3, <2>7, <2>9, <2>10
<1>4. ReadIsReported'
  BY <1>1, <1>3 DEF ReadIsReported, All
<1>5. told' \in [Urls -> Seq(1..MaxFrames)]
  BY <1>1, <1>3
<1>6. QED
  BY <1>4, <1>5

-----------------------------------------------------------------------------
(* The type invariant, action by action where more than one variable        *)
(* changes.                                                                 *)
LEMMA InitIInv == Init => IInv
<1> SUFFICES ASSUME Init PROVE IInv
  OBVIOUS
<1>1. /\ encrypted \in BOOLEAN /\ bound = FALSE /\ mdns = FALSE
      /\ inbox = <<>> /\ drained = <<>> /\ pending = <<>> /\ temp = <<>>
      /\ socket = [u \in Urls |-> "None"] /\ silent = [u \in Urls |-> 0] /\ taken = {}
      /\ events = <<>> /\ pc = "idle" /\ result = "Ok" /\ dead = FALSE
      /\ answer = [r \in Requests |-> "new"] /\ frames = [m \in Messages |-> 0]
      /\ read = [u \in Urls |-> 0] /\ told = [u \in Urls |-> <<>>] /\ cutOff = {}
  BY DEF Init
<1>2. TypeOK
  <2>1. 0 \in 0..MaxSilence /\ 0 \in 0..MaxFrames
    BY WebsocketAssumption
  <2>2. <<>> \in Seq(1..MaxFrames) /\ <<>> \in Seq(Requests) /\ <<>> \in Seq(Messages)
        /\ <<>> \in Seq([kind : EventKinds, url : Urls, n : 0..MaxFrames])
    OBVIOUS
  <2>3. /\ silent \in [Urls -> 0..MaxSilence] /\ read \in [Urls -> 0..MaxFrames]
        /\ told \in [Urls -> Seq(1..MaxFrames)]
    BY <1>1, <2>1, <2>2
  <2>4. QED
    BY <1>1, <2>2, <2>3 DEF TypeOK, States
<1>3. PhaseInv /\ UnboundInv
  BY <1>1 DEF PhaseInv, UnboundInv
<1>4. ListsInv
  BY <1>1, InEmpty, NoDupEmpty DEF ListsInv, AtMostOneList
<1>5. AskedInv
  BY <1>1, InEmpty DEF AskedInv, Somewhere
<1>6. AnswerTellsTheTruth
  BY <1>1 DEF AnswerTellsTheTruth, Requests
<1>7. ReadIsReported
  <2>1. ASSUME NEW u \in Urls PROVE told[u] \o DataOf(u, events) = <<>> /\ read[u] = 0
    <3>1. DataOf(u, events) = <<>> /\ told[u] = <<>>
      BY <1>1, DataOfEmpty
    <3>2. QED
      BY <1>1, <3>1
  <2>2. QED
    BY <2>1 DEF ReadIsReported
<1>8. QED
  BY <1>2, <1>3, <1>4, <1>5, <1>6, <1>7 DEF IInv, Accounts

LEMMA InboxBindTypes == ASSUME TypeOK, InboxBind PROVE TypeOK'
<1>1. /\ drained \in Seq(Requests) /\ drained # <<>> /\ Head(drained) \in Requests
      /\ Tail(drained) \in Seq(Requests) /\ <<>> \in Seq(Requests)
  BY DEF TypeOK, InboxBind
<1>2. answer \in [Requests -> {"new", "asked", "ok", "err", "dropped"}]
  BY DEF TypeOK
<1>3. answer' \in [Requests -> {"new", "asked", "ok", "err", "dropped"}]
  BY <1>1, <1>2 DEF InboxBind, DropRest
<1>4. drained' \in Seq(Requests) /\ pc' \in {"idle", "inbox", "accept", "sockets", "pending"}
      /\ result' \in {"Ok", "AdvertiseFailed", "PingFailed"}
      /\ bound' \in BOOLEAN /\ mdns' \in BOOLEAN
  BY <1>1 DEF InboxBind, DropRest, TypeOK
<1>5. QED
  BY <1>3, <1>4 DEF InboxBind, TypeOK, streamVars

LEMMA InboxSendTypes == ASSUME TypeOK, InboxSend PROVE TypeOK'
<1> DEFINE x == Head(drained)
<1>1. /\ drained \in Seq(Requests) /\ drained # <<>> /\ x \in Messages /\ x \in Requests
      /\ Tail(drained) \in Seq(Requests) /\ pending \in Seq(Messages)
      /\ uri[x] \in Urls /\ 0 \in 0..MaxSilence
  BY WebsocketAssumption DEF TypeOK, InboxSend, Urls
<1>2. Append(pending, x) \in Seq(Messages)
  BY <1>1
<1> HIDE DEF x
<1>3. /\ frames' \in [Messages -> Nat]
      /\ answer' \in [Requests -> {"new", "asked", "ok", "err", "dropped"}]
  <2>1. frames \in [Messages -> Nat]
        /\ answer \in [Requests -> {"new", "asked", "ok", "err", "dropped"}]
    BY DEF TypeOK
  <2>2. \/ answer' = [answer EXCEPT ![x] = "err"] /\ frames' = frames
        \/ answer' = answer /\ frames' = frames
        \/ HandleSendMessage(x, pending)
    BY DEF InboxSend, x
  <2>3. CASE HandleSendMessage(x, pending)
    <3>1. /\ answer' = answer \/ answer' = [answer EXCEPT ![x] = "ok"]
          /\ frames' = frames \/ \E k \in {frames[x], frames[x] + 1} : frames' = [frames EXCEPT ![x] = k]
      BY <2>3 DEF HandleSendMessage, Send
    <3>2. frames[x] \in Nat /\ frames[x] + 1 \in Nat
      BY <1>1, <2>1
    <3>3. QED
      BY <1>1, <2>1, <3>1, <3>2
  <2>4. QED
    BY <1>1, <2>1, <2>2, <2>3
<1>4. pending' \in Seq(Messages)
  BY <1>1, <1>2 DEF InboxSend, HandleSendMessage, x
<1>5. socket' \in [Urls -> States] /\ silent' \in [Urls -> 0..MaxSilence]
  <2>1. socket \in [Urls -> States] /\ silent \in [Urls -> 0..MaxSilence]
    BY DEF TypeOK
  <2>2. \/ UNCHANGED <<socket, silent>>
        \/ socket' = [socket EXCEPT ![uri[x]] = "Connecting"] /\ silent' = [silent EXCEPT ![uri[x]] = 0]
    BY DEF InboxSend, Connect, x
  <2>3. QED
    BY <1>1, <2>1, <2>2 DEF States, Starting
<1>6. drained' \in Seq(Requests)
  BY <1>1 DEF InboxSend
<1>7. QED
  BY <1>3, <1>4, <1>5, <1>6 DEF InboxSend, TypeOK

LEMMA AcceptTypes == ASSUME TypeOK, Accept PROVE TypeOK'
<1>1. 0 \in 0..MaxSilence /\ Callers \subseteq Urls
  BY WebsocketAssumption DEF Urls
<1>2. socket \in [Urls -> States] /\ silent \in [Urls -> 0..MaxSilence] /\ taken \subseteq Urls
  BY DEF TypeOK
<1>3. socket' \in [Urls -> States] /\ silent' \in [Urls -> 0..MaxSilence] /\ taken' \subseteq Urls
  BY <1>1, <1>2 DEF Accept, States, Starting
<1>4. pc' \in {"idle", "inbox", "accept", "sockets", "pending"} /\ dead' \in BOOLEAN
  BY DEF Accept, TypeOK
<1>5. QED
  BY <1>3, <1>4 DEF Accept, TypeOK

LEMMA SocketStepTypes == ASSUME TypeOK, NEW u \in Urls, SocketStep(u) PROVE TypeOK'
<1>1. PICK s \in ProcessSocket(u) :
         /\ silent' = [silent EXCEPT ![u] = s.silent]
         /\ read' = [read EXCEPT ![u] = s.read]
         /\ events' = events \o s.events
         /\ \/ Return(u, IF GivenUp(s.silent) THEN "None" ELSE s.state)
            \/ PingFails(u)
  BY DEF SocketStep
<1>2. /\ s.state \in States
      /\ s.silent \in 0..MaxSilence
      /\ s.read \in 0..MaxFrames
      /\ \/ s.events = <<>> /\ s.read = read[u]
         \/ /\ s.read = read[u]
            /\ \E k \in {"Error", "Incoming"} : s.events = <<Event(k, u, 0)>>
         \/ /\ s.read = read[u] + 1
            /\ s.events = <<Event("Data", u, read[u] + 1)>>
  BY SocketOutcome
<1>3. /\ socket \in [Urls -> States] /\ silent \in [Urls -> 0..MaxSilence] /\ taken \subseteq Urls
      /\ read \in [Urls -> 0..MaxFrames] /\ events \in Seq(AnEvent) /\ cutOff \subseteq Urls
      /\ 0 \in 0..MaxFrames
  BY WebsocketAssumption DEF TypeOK, AnEvent
<1>4. silent' \in [Urls -> 0..MaxSilence] /\ read' \in [Urls -> 0..MaxFrames]
  BY <1>1, <1>2, <1>3
<1>5. events' \in Seq(AnEvent)
  <2>1. s.events \in Seq(AnEvent)
    <3>1. <<>> \in Seq(AnEvent) /\ \A e \in AnEvent : <<e>> \in Seq(AnEvent)
      OBVIOUS
    <3>2. \A k \in {"Error", "Incoming"} : Event(k, u, 0) \in AnEvent
      BY <1>3, EventType DEF EventKinds
    <3>3. s.read = read[u] + 1 => Event("Data", u, read[u] + 1) \in AnEvent
      BY <1>2, EventType DEF EventKinds
    <3>4. QED
      BY <1>2, <3>1, <3>2, <3>3
  <2>2. QED
    BY <1>1, <1>3, <2>1
<1>6. /\ socket' \in [Urls -> States] /\ taken' \subseteq Urls /\ cutOff' \subseteq Urls
      /\ pc' \in {"idle", "inbox", "accept", "sockets", "pending"}
      /\ result' \in {"Ok", "AdvertiseFailed", "PingFailed"}
  <2>1. "None" \in States
    BY DEF States
  <2>2. CASE Return(u, IF GivenUp(s.silent) THEN "None" ELSE s.state)
    BY <1>2, <1>3, <2>1, <2>2 DEF Return, TypeOK
  <2>3. CASE PingFails(u)
    BY <1>3, <2>1, <2>3 DEF PingFails
  <2>4. QED
    BY <1>1, <2>2, <2>3
<1>7. QED
  BY <1>4, <1>5, <1>6 DEF SocketStep, TypeOK, AnEvent

LEMMA ProcessPendingTypes == ASSUME TypeOK, ProcessPending PROVE TypeOK'
<1> DEFINE m == pending[Len(pending)]
<1>1. /\ pending \in Seq(Messages) /\ pending # <<>> /\ m \in Messages /\ temp \in Seq(Messages)
      /\ SubSeq(pending, 1, Len(pending) - 1) \in Seq(Messages) /\ m \in Requests
  <2>1. pending \in Seq(Messages) /\ pending # <<>> /\ temp \in Seq(Messages)
    BY DEF TypeOK, ProcessPending
  <2>2. Len(pending) \in Nat /\ Len(pending) >= 1
    BY <2>1
  <2>3. pending[Len(pending)] \in Messages
    BY <2>1, <2>2
  <2>4. SubSeq(pending, 1, Len(pending) - 1) \in Seq(Messages)
    BY <2>1, <2>2
  <2>5. QED
    BY <2>1, <2>3, <2>4 DEF Requests
<1>2. Append(temp, m) \in Seq(Messages)
  BY <1>1
<1> HIDE DEF m
<1>3. /\ frames \in [Messages -> Nat]
      /\ answer \in [Requests -> {"new", "asked", "ok", "err", "dropped"}]
  BY DEF TypeOK
<1>4. HandleSendMessage(m, temp) \/ (temp' = Append(temp, m) /\ UNCHANGED <<answer, frames>>)
  BY DEF ProcessPending, m
<1>5. /\ frames' \in [Messages -> Nat]
      /\ answer' \in [Requests -> {"new", "asked", "ok", "err", "dropped"}]
  <2>1. CASE HandleSendMessage(m, temp)
    BY <1>1, <1>3, <2>1 DEF HandleSendMessage, Send
  <2>2. QED
    BY <1>3, <1>4, <2>1
<1>6. temp' \in Seq(Messages)
  BY <1>1, <1>2, <1>4 DEF HandleSendMessage
<1>7. pending' \in Seq(Messages)
  BY <1>1 DEF ProcessPending
<1>8. QED
  BY <1>5, <1>6, <1>7 DEF ProcessPending, TypeOK, streamVars

-----------------------------------------------------------------------------
(* The inductive invariant is kept by every step. *)
LEMMA ReportedUnchanged ==
    ASSUME ReadIsReported, UNCHANGED <<told, events, read>>
    PROVE  ReadIsReported'
<1>1. told' = told /\ events' = events /\ read' = read
  OBVIOUS
<1>2. ASSUME NEW u \in Urls PROVE (told[u] \o DataOf(u, events))' = told[u] \o DataOf(u, events)
  BY <1>1
<1>3. QED
  BY <1>1, <1>2 DEF ReadIsReported

LEMMA NextIInv ==
    ASSUME IInv, [Next]_vars
    PROVE  IInv'
<1> USE DEF IInv
<1>1. ASSUME NEW r \in Requests, Ask(r) PROVE IInv'
  <2>1. Accounts'
    BY <1>1, AskAccounts
  <2>2. UNCHANGED <<told, events, read>>
    BY <1>1 DEF Ask, streamVars
  <2>3. TypeOK'
    BY <1>1 DEF Ask, TypeOK, streamVars, callVars
  <2>4. QED
    BY <2>1, <2>2, <2>3, ReportedUnchanged
<1>2. CASE Tick
  <2>1. Accounts'
    BY <1>2, UntouchedAccounts DEF Tick, callVars, Accounts, PhaseInv
  <2>2. UNCHANGED <<told, events, read>>
    BY <1>2 DEF Tick
  <2>3. silent' \in [Urls -> 0..MaxSilence]
    BY <1>2, WebsocketAssumption DEF Tick, TypeOK
  <2>4. TypeOK'
    BY <1>2, <2>3 DEF Tick, TypeOK, callVars
  <2>5. QED
    BY <2>1, <2>2, <2>4, ReportedUnchanged
<1>3. CASE DropTransport
  <2>1. Accounts'
    BY <1>3, DropTransportAccounts
  <2>2. UNCHANGED <<told, events, read>>
    BY <1>3 DEF DropTransport
  <2>3. TypeOK'
    BY <1>3 DEF DropTransport, TypeOK, callVars, States
  <2>4. QED
    BY <2>1, <2>2, <2>3, ReportedUnchanged
<1>4. CASE StartProcess
  <2>1. Accounts'
    BY <1>4, StartProcessAccounts
  <2>2. UNCHANGED <<told, events, read>>
    BY <1>4 DEF StartProcess, streamVars
  <2>3. TypeOK'
    BY <1>4 DEF StartProcess, TypeOK, streamVars
  <2>4. QED
    BY <2>1, <2>2, <2>3, ReportedUnchanged
<1>5. CASE InboxBind
  <2>1. UNCHANGED <<told, events, read>>
    BY <1>5 DEF InboxBind, streamVars
  <2>2. QED
    BY <1>5, <2>1, InboxBindAccounts, InboxBindTypes, ReportedUnchanged
<1>6. CASE InboxSend
  <2>1. UNCHANGED <<told, events, read>>
    BY <1>6 DEF InboxSend
  <2>2. QED
    BY <1>6, <2>1, InboxSendAccounts, InboxSendTypes, ReportedUnchanged
<1>7. CASE EndInbox
  <2>1. Accounts'
    BY <1>7, UntouchedAccounts DEF EndInbox, Accounts, PhaseInv
  <2>2. UNCHANGED <<told, events, read>>
    BY <1>7 DEF EndInbox, streamVars
  <2>3. TypeOK'
    BY <1>7 DEF EndInbox, TypeOK, streamVars
  <2>4. QED
    BY <2>1, <2>2, <2>3, ReportedUnchanged
<1>8. CASE Accept
  <2>1. Accounts'
    BY <1>8, UntouchedAccounts DEF Accept, Accounts, PhaseInv
  <2>2. UNCHANGED <<told, events, read>>
    BY <1>8 DEF Accept
  <2>3. QED
    BY <1>8, <2>1, <2>2, AcceptTypes, ReportedUnchanged
<1>9. ASSUME NEW u \in Urls, SocketStep(u) PROVE IInv'
  <2>1. /\ pc = "sockets" /\ pc' \in {"sockets", "idle"}
        /\ UNCHANGED <<inbox, drained, pending, temp, answer, frames, bound>>
    BY <1>9 DEF SocketStep, Return, PingFails
  <2>2. Accounts'
    BY <2>1, UntouchedAccounts DEF Accounts, PhaseInv
  <2>3. QED
    BY <1>9, <2>2, SocketStepTypes, SocketStepReported
<1>10. CASE ProcessStreamEvents
  <2>1. Accounts'
    BY <1>10, UntouchedAccounts DEF ProcessStreamEvents, Accounts, PhaseInv
  <2>2. ReadIsReported' /\ told' \in [Urls -> Seq(1..MaxFrames)]
    BY <1>10, PublishReported
  <2>3. TypeOK'
    BY <1>10, <2>2 DEF ProcessStreamEvents, TypeOK
  <2>4. QED
    BY <2>1, <2>2, <2>3
<1>11. CASE ProcessPending
  <2>1. UNCHANGED <<told, events, read>>
    BY <1>11 DEF ProcessPending, streamVars
  <2>2. QED
    BY <1>11, <2>1, ProcessPendingAccounts, ProcessPendingTypes, ReportedUnchanged
<1>12. CASE EndProcess
  <2>1. Accounts'
    BY <1>12, EndProcessAccounts
  <2>2. UNCHANGED <<told, events, read>>
    BY <1>12 DEF EndProcess, streamVars
  <2>3. TypeOK'
    BY <1>12 DEF EndProcess, TypeOK, streamVars
  <2>4. QED
    BY <2>1, <2>2, <2>3, ReportedUnchanged
<1>13. CASE UNCHANGED vars
  <2>1. Accounts'
    BY <1>13, UntouchedAccounts DEF vars, streamVars, callVars, Accounts, PhaseInv
  <2>2. UNCHANGED <<told, events, read>>
    BY <1>13 DEF vars, streamVars
  <2>3. TypeOK'
    BY <1>13 DEF vars, streamVars, callVars, TypeOK
  <2>4. QED
    BY <2>1, <2>2, <2>3, ReportedUnchanged
<1>14. QED
  BY <1>1, <1>2, <1>3, <1>4, <1>5, <1>6, <1>7, <1>8, <1>9, <1>10, <1>11, <1>12, <1>13
  DEF Next, Process

(* The invariant says what RequestsAccounted counts. *)
LEMMA PlacesCounted ==
    ASSUME IInv
    PROVE  RequestsAccounted
<1>1. SUFFICES ASSUME NEW r \in Requests
               PROVE  Cardinality(Places(r)) = IF answer[r] = "asked" THEN 1 ELSE 0
  BY DEF IInv, RequestsAccounted
<1>2. AtMostOneList(r) /\ (answer[r] = "asked" <=> Somewhere(r))
  BY DEF IInv, Accounts, ListsInv, AskedInv
<1>3. Places(r) = {p \in {"inbox", "drained", "pending", "temp"} :
                     \/ p = "inbox" /\ In(r, inbox)
                     \/ p = "drained" /\ In(r, drained)
                     \/ p = "pending" /\ In(r, pending)
                     \/ p = "temp" /\ In(r, temp)}
  BY DEF Places
<1>4. CASE ~Somewhere(r)
  <2>1. Places(r) = {}
    BY <1>3, <1>4 DEF Somewhere
  <2>2. QED
    BY <1>2, <1>4, <2>1, FS_EmptySet
<1>5. CASE Somewhere(r)
  <2>1. PICK p : Places(r) = {p}
    <3>1. CASE In(r, inbox)
      <4>1. Places(r) = {"inbox"}
        BY <1>2, <1>3, <3>1 DEF AtMostOneList
      <4>2. QED
        BY <4>1
    <3>2. CASE In(r, drained)
      <4>1. Places(r) = {"drained"}
        BY <1>2, <1>3, <3>2 DEF AtMostOneList
      <4>2. QED
        BY <4>1
    <3>3. CASE In(r, pending)
      <4>1. Places(r) = {"pending"}
        BY <1>2, <1>3, <3>3 DEF AtMostOneList
      <4>2. QED
        BY <4>1
    <3>4. CASE In(r, temp)
      <4>1. Places(r) = {"temp"}
        BY <1>2, <1>3, <3>4 DEF AtMostOneList
      <4>2. QED
        BY <4>1
    <3>5. QED
      BY <1>5, <3>1, <3>2, <3>3, <3>4 DEF Somewhere
  <2>2. QED
    BY <1>2, <1>5, <2>1, FS_Singleton
<1>6. QED
  BY <1>4, <1>5

-----------------------------------------------------------------------------
LEMMA Invariance == Spec => []IInv
BY InitIInv, NextIInv, PTL DEF Spec

(* No request is lost or doubled between the inbox, the loop over it and    *)
(* the two lists of pending messages, for any number of requests: what the  *)
(* parent asked and nobody answered is in exactly one of them.              *)
THEOREM NoRequestLost == Spec => []RequestsAccounted
<1>1. IInv => RequestsAccounted
  BY PlacesCounted
<1>2. QED
  BY <1>1, Invariance, PTL

(* A message is answered with success only after a frame for it went to a   *)
(* stream, and with an error only if none ever did.                         *)
THEOREM AnswersAreTrue == Spec => []AnswerTellsTheTruth
<1>1. IInv => AnswerTellsTheTruth
  BY DEF IInv, Accounts
<1>2. QED
  BY <1>1, Invariance, PTL

(* Every data frame read from a socket is told once, in the order it was    *)
(* read, whichever calls of process_concrete fail in between.               *)
THEOREM FramesAreTold == Spec => []ReadIsReported
<1>1. IInv => ReadIsReported
  BY DEF IInv
<1>2. QED
  BY <1>1, Invariance, PTL
=============================================================================
