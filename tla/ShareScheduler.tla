--------------------------- MODULE ShareScheduler ----------------------------
(***************************************************************************)
(* What the transmit queue promises its device, without the byte counters  *)
(* being machine words and without saying when a cycle ends: packets wait  *)
(* in one FIFO line per class, and the most urgent class whose first       *)
(* packet still fits the class's share of the cycle is served.             *)
(***************************************************************************)
EXTENDS Integers, Sequences

CONSTANTS Packets, NoTag

VARIABLES
  waiting,  \* the line of each class
  used,     \* bytes each class has sent in this cycle
  share     \* bytes each class may send in a cycle

Classes == 0 .. 3
Nobody == [c \in Classes |-> 0]
ClassOf(x) == IF x.tag = NoTag THEN 2 ELSE x.tag

Fits(c) ==
  /\ waiting[c] # << >>
  /\ used[c] < share[c]
  /\ used[c] + Head(waiting[c]).size <= share[c]

Init ==
  /\ waiting = [c \in Classes |-> << >>]
  /\ used = Nobody
  /\ share = Nobody

Accept(x) ==
  /\ waiting' = [waiting EXCEPT ![ClassOf(x)] = Append(@, x)]
  /\ UNCHANGED << used, share >>

Release(c) ==
  /\ Fits(c)
  /\ \A d \in Classes : d < c => ~Fits(d)
  /\ waiting' = [waiting EXCEPT ![c] = Tail(@)]
  /\ used' = [used EXCEPT ![c] = @ + Head(waiting[c]).size]
  /\ UNCHANGED share

\* The caller takes the most urgent packet without spending any share.
TakeOut(c) ==
  /\ waiting[c] # << >>
  /\ \A d \in Classes : d < c => waiting[d] = << >>
  /\ waiting' = [waiting EXCEPT ![c] = Tail(@)]
  /\ UNCHANGED << used, share >>

\* A new cycle, with the same shares or with new ones.
NewCycle ==
  /\ used' = Nobody
  /\ share' \in [Classes -> Nat]
  /\ UNCHANGED waiting

Next ==
  \/ \E x \in Packets : Accept(x)
  \/ \E c \in Classes : Release(c) \/ TakeOut(c)
  \/ NewCycle

Spec == Init /\ [][Next]_<< waiting, used, share >>

=============================================================================
