-------------------------- MODULE QueuedLinkProofs ---------------------------
(***************************************************************************)
(* Theorems about the queue on its device, for any sources, packet sizes,  *)
(* set-up and length of the sub-queues: what PriorityTxQueueProofs shows   *)
(* of a queue holds of this one, when it refuses a packet on arrival, and  *)
(* what a share that cannot be spent does to the link.                     *)
(***************************************************************************)
EXTENDS QueuedLink, PriorityTxQueueProofs

-----------------------------------------------------------------------------
(***************************************************************************)
(* The calls of the device, the sources and the driver are calls of the    *)
(* queue's API.                                                            *)
(***************************************************************************)

\* After the driver's set-up the queue is as after its own calls.
LEMMA LinkInitInv == LinkInit => QueueInv
<1> SUFFICES ASSUME LinkInit PROVE QueueInv
  OBVIOUS
<1>1. /\ IsPercentages(weights) /\ weights \in [1 .. GetNumPriorities -> Nat]
      /\ mode \in Modes /\ configured \in BOOLEAN
  BY LinkAssumption DEF LinkInit, IsPercentages
<1>2. /\ UintMod \in Nat \ {0}
      /\ shareBase = SharesFrom /\ shareBase \in 0 .. UintMod - 1
      /\ cycleBudget \in 0 .. UintMod - 1
  BY LinkAssumption, QueueAssumption DEF LinkInit
<1>3. /\ \A p \in Priorities : budgets[p] = ByteShare(p, shareBase)
      /\ DOMAIN budgets = Priorities /\ budgets = [p \in Priorities |-> budgets[p]]
  BY <1>2 DEF LinkInit
<1>4. \A p \in Priorities : budgets[p] \in 0 .. UintMod - 1
  BY <1>1, <1>2, <1>3, ByteShareBound
<1>5. queues \in [Priorities -> Seq(Packets)] /\ tracked \subseteq Priorities
  BY DEF LinkInit
<1>6. /\ sent = [p \in Priorities |-> 0] /\ sent \in [Priorities -> Nat]
      /\ \A p \in Priorities \ tracked : sent[p] = 0
  BY DEF LinkInit, Zero
<1>7. budgets \in [Priorities -> 0 .. UintMod - 1]
  BY <1>3, <1>4
<1>8. TypeOK
  BY <1>1, <1>2, <1>5, <1>6, <1>7 DEF TypeOK
<1>9. SentWithinBudget
  BY <1>2, <1>4, <1>6 DEF SentWithinBudget
<1>10. SharesWithinCycle
  BY <1>1, <1>2, <1>3, ByteSharesSum, PrioritiesAre DEF SharesWithinCycle
<1> QED BY <1>8, <1>9, <1>10 DEF QueueInv

\* What a source sends is a packet of its class.
LEMMA SourcePackets ==
  ASSUME NEW p \in Sources
  PROVE  /\ p \in Priorities
         /\ [tag |-> p, size |-> PacketSize[p]] \in Packets
         /\ Class([tag |-> p, size |-> PacketSize[p]]) = p
<1>1. p \in Priorities /\ p # NoTag
  BY LinkAssumption, QueueAssumption
<1> QED BY <1>1, LinkAssumption DEF Class

\* Every step of the link is a call on the queue or leaves it alone.
LEMMA LinkStepsQueue == [LinkNext]_linkVars => [Next]_vars
<1> SUFFICES ASSUME [LinkNext]_linkVars PROVE Next \/ UNCHANGED vars
  OBVIOUS
<1>1. ASSUME NEW p \in Sources, Send(p) PROVE Next \/ UNCHANGED vars
  BY <1>1, SourcePackets DEF Send, Next
<1>2. CASE Ask
  BY <1>2 DEF Ask, Next
<1>3. CASE TransmitComplete
  BY <1>3 DEF TransmitComplete
<1>4. CASE Configure
  BY <1>4 DEF Configure, Next
<1>5. CASE UNCHANGED linkVars
  BY <1>5 DEF linkVars
<1> QED BY <1>1, <1>2, <1>3, <1>4, <1>5 DEF LinkNext

\* The queue on a device keeps the queue's invariant, reconfigured in the
\* middle of a cycle or not: no class exceeds its share, the shares fit the
\* cycle.
THEOREM LinkKeepsQueueInv == LinkSpec => []QueueInv
<1>1. QueueInv /\ [LinkNext]_linkVars => QueueInv'
  BY LinkStepsQueue, TypeStep, BudgetStep, SharesStep DEF QueueInv
<1> QED BY LinkInitInv, <1>1, PTL DEF LinkSpec

-----------------------------------------------------------------------------
(***************************************************************************)
(* A packet that the queue refuses on arrival.                             *)
(***************************************************************************)

\* While the line is idle, the cycle has bytes left; so it has when the device
\* asks on an arrival, and when the answer has brought it down.
CycleOpen ==
  /\ cycleBudget = CycleInForce
  /\ line \in {"idle", "arrival", "crashed"} => BytesSent < cycleBudget

\* After a reset nothing of the cycle is spent.
LEMMA ResetClears ==
  ASSUME TypeOK, ResetCycleCounters
  PROVE  BytesSent' = 0
<1>1. \A p \in Priorities : sent'[p] = 0
  BY DEF TypeOK, ResetCycleCounters
<1> QED BY <1>1, PrioritiesAre DEF BytesSent

\* The bytes sent are a number.
LEMMA BytesSentIsNumber == TypeOK => BytesSent \in Int /\ cycleBudget \in Int
<1> SUFFICES ASSUME TypeOK PROVE BytesSent \in Int /\ cycleBudget \in Int
  OBVIOUS
<1>1. sent[0] \in Nat /\ sent[1] \in Nat /\ sent[2] \in Nat /\ sent[3] \in Nat
  BY PrioritiesAre DEF TypeOK
<1>2. BytesSent \in Int
  BY <1>1 DEF BytesSent
<1>3. cycleBudget \in Int
  BY QueueAssumption DEF TypeOK
<1> QED BY <1>2, <1>3

\* A sub-queue that gives a packet is not what it was.
LEMMA TailIsShorter ==
  ASSUME NEW q \in Seq(Packets), q # << >>
  PROVE  Tail(q) # q
<1> DEFINE t == Tail(q)
<1>1. Len(t) = Len(q) - 1 /\ Len(q) \in Nat
  OBVIOUS
<1>2. t = q => Len(t) = Len(q)
  <2> HIDE DEF t
  <2> QED BY Zenon
<1> HIDE DEF t
<1>3. t # q
  BY <1>1, <1>2
<1> QED BY <1>3 DEF t

\* Every step keeps the cycle open.
LEMMA CycleOpenStep ==
  ASSUME CycleInForce > 0, QueueInv, CycleOpen, [LinkNext]_linkVars
  PROVE  CycleOpen'
<1>1. TypeOK
  BY DEF QueueInv
<1>2. ASSUME cycleBudget' = cycleBudget, sent' = sent,
             line' \in {"idle", "arrival", "crashed"} => line \in {"idle", "arrival", "crashed"}
      PROVE  CycleOpen'
  BY <1>2 DEF CycleOpen, BytesSent
<1>3. ASSUME cycleBudget' = cycleBudget, ResetCycleCounters PROVE CycleOpen'
  BY <1>1, <1>3, ResetClears DEF CycleOpen
<1>4. ASSUME NEW p \in Sources, Send(p) PROVE CycleOpen'
  BY <1>2, <1>4 DEF Send, Enqueue, vars, BetweenEvents
<1>5. CASE Ask
  <2>1. cycleBudget' = cycleBudget /\ Dequeue
    BY <1>5 DEF Ask, Dequeue
  <2>2. CASE StartCycle
    BY <1>3, <2>1, <2>2 DEF StartCycle
  <2>3. CASE SendNothing
    <3>1. BytesSent < cycleBudget /\ sent' = sent
      BY <2>3 DEF SendNothing
    <3> QED BY <2>1, <3>1 DEF CycleOpen, BytesSent
  <2>4. ASSUME NEW p \in Priorities, Serve(p) PROVE CycleOpen'
    <3>1. queues[p] # << >> /\ queues[p] \in Seq(Packets)
      BY <1>1, <2>4 DEF Serve, FirstToSend, CanSend, Backlogged, TypeOK
    <3>2. queues'[p] = Tail(queues[p])
      BY <1>1, <2>4 DEF Serve, TypeOK
    <3>3. queues' # queues
      <4>1. Tail(queues[p]) # queues[p]
        BY <3>1, TailIsShorter
      <4> QED BY <3>2, <4>1
    <3>4. line' = "busy"
      BY <1>5, <3>3 DEF Ask
    <3> QED BY <2>1, <3>4 DEF CycleOpen
  <2> QED BY <2>1, <2>2, <2>3, <2>4 DEF Dequeue
<1>6. CASE TransmitComplete
  BY <1>6 DEF TransmitComplete, vars, CycleOpen
<1>7. CASE Configure
  <2>1. CASE Reconfigure
    BY <1>2, <1>7, <2>1 DEF Configure, Reconfigure, queueVars
  <2>2. CASE SetQosConfig
    BY <1>3, <2>2 DEF SetQosConfig
  <2> QED BY <1>7, <2>1, <2>2 DEF Configure
<1>8. CASE UNCHANGED linkVars
  BY <1>2, <1>8 DEF linkVars, vars
<1> QED BY <1>4, <1>5, <1>6, <1>7, <1>8 DEF LinkNext

\* CycleOpen holds in every reachable state.
LEMMA CycleStaysOpen == CycleInForce > 0 /\ LinkSpec => []CycleOpen
<1> SUFFICES ASSUME CycleInForce > 0 PROVE LinkSpec => []CycleOpen
  OBVIOUS
<1>1. LinkInit => CycleOpen
  BY LinkAssumption, QueueAssumption, PrioritiesAre DEF LinkInit, CycleOpen, BytesSent, Zero
<1>2. QueueInv /\ CycleOpen /\ [LinkNext]_linkVars => CycleOpen'
  BY CycleOpenStep
<1> QED BY <1>1, <1>2, LinkKeepsQueueInv, PTL DEF LinkSpec

\* The nullptr that ends a cycle is never the answer to an arrival, for any
\* sources and sizes, reconfigured in the middle of a cycle or not.
THEOREM CyclesEndOnCompletion ==
  ASSUME CycleInForce > 0
  PROVE  LinkSpec => []CycleEndsOnCompletion
<1>1. CycleOpen => CycleEndsOnCompletion
  BY DEF CycleOpen, CycleEndsOnCompletion
<1> QED BY <1>1, CycleStaysOpen, PTL

\* The shares use up the cycle: nothing was rounded off, and the cycle budget
\* is the one they were cut from.
SharesFillCycle == budgets[0] + budgets[1] + budgets[2] + budgets[3] = cycleBudget

\* Where every class has a source and the shares use up the cycle, a packet is
\* refused on arrival only while another class has not had its share, whatever
\* the sizes of the packets.
THEOREM RefusedForTheSakeOfOthers ==
  ASSUME Sources = Priorities, CycleInForce > 0
  PROVE  LinkSpec /\ []SharesFillCycle => []RefusedOnlyForOthers
<1>1. QueueInv /\ CycleOpen /\ SharesFillCycle => RefusedOnlyForOthers
  <2> SUFFICES ASSUME QueueInv, CycleOpen, SharesFillCycle, line = "crashed"
               PROVE  \E p \in Priorities : sent[p] < budgets[p]
    BY DEF RefusedOnlyForOthers
  <2> DEFINE s0 == sent[0]  s1 == sent[1]  s2 == sent[2]  s3 == sent[3]
             b0 == budgets[0]  b1 == budgets[1]  b2 == budgets[2]  b3 == budgets[3]
  <2>1. /\ s0 \in Nat /\ s1 \in Nat /\ s2 \in Nat /\ s3 \in Nat
        /\ b0 \in Nat /\ b1 \in Nat /\ b2 \in Nat /\ b3 \in Nat
    BY SentAndBudgets
  <2>2. s0 + s1 + s2 + s3 < b0 + b1 + b2 + b3
    BY DEF CycleOpen, SharesFillCycle, BytesSent
  <2>3. s0 < b0 \/ s1 < b1 \/ s2 < b2 \/ s3 < b3
    <3> HIDE DEF s0, s1, s2, s3, b0, b1, b2, b3
    <3> QED BY <2>1, <2>2
  <2> QED BY <2>3, PrioritiesAre
<1> QED BY <1>1, LinkKeepsQueueInv, CycleStaysOpen, PTL

-----------------------------------------------------------------------------
(***************************************************************************)
(* A share that nobody can spend.  The run silent_class shows the share of *)
(* a class without traffic; one that its class's packets do not divide is  *)
(* no better, because Dequeue passes over a head that is larger than the   *)
(* rest.  The theorem says that either closes the link for good.           *)
(***************************************************************************)

\* The share that the driver's set-up cuts for a class.
SetupShare(p) == ((SetupWeights[p + 1] * SharesFrom) % UintMod) \div 100

\* What class p can have sent.
Multiples(p) == IF p \in Sources THEN {k * PacketSize[p] : k \in Nat} ELSE {0}

\* In a sub-queue of the link are packets of its source.
FromSource(p) ==
  \A i \in 1 .. Len(queues[p]) : p \in Sources /\ queues[p][i].size = PacketSize[p]

\* Class p has sent whole packets, its share is not a number of those, and the
\* cycle in force is at least the one the shares were cut from.
Unspendable(p) ==
  /\ calls = 0
  /\ cycleBudget = CycleInForce
  /\ shareBase <= cycleBudget
  /\ budgets[p] \notin Multiples(p)
  /\ FromSource(p)
  /\ sent[p] \in Multiples(p)

\* Then a part of the cycle budget remains that nobody can spend.
LEMMA ShareRemains ==
  ASSUME QueueInv, NEW p \in Priorities, Unspendable(p)
  PROVE  BytesSent < cycleBudget
<1> DEFINE s0 == sent[0]  s1 == sent[1]  s2 == sent[2]  s3 == sent[3]
           b0 == budgets[0]  b1 == budgets[1]  b2 == budgets[2]  b3 == budgets[3]
<1>1. /\ s0 \in Nat /\ s1 \in Nat /\ s2 \in Nat /\ s3 \in Nat
      /\ b0 \in Nat /\ b1 \in Nat /\ b2 \in Nat /\ b3 \in Nat
      /\ s0 <= b0 /\ s1 <= b1 /\ s2 <= b2 /\ s3 <= b3
      /\ b0 + b1 + b2 + b3 <= shareBase
      /\ shareBase \in Nat
  BY SentAndBudgets
<1>2. s0 # b0 \/ s1 # b1 \/ s2 # b2 \/ s3 # b3
  <2>1. sent[p] # budgets[p]
    BY DEF Unspendable
  <2> QED BY <2>1, PrioritiesAre
<1>3. shareBase <= cycleBudget /\ cycleBudget \in Nat
  BY QueueAssumption DEF Unspendable, QueueInv, TypeOK
<1>4. BytesSent = s0 + s1 + s2 + s3
  BY DEF BytesSent
<1> HIDE DEF s0, s1, s2, s3, b0, b1, b2, b3
<1> QED BY <1>1, <1>2, <1>3, <1>4

\* No packets, and one packet more.
LEMMA CountPackets ==
  ASSUME NEW k \in Nat, NEW size \in Nat
  PROVE  0 * size = 0 /\ (k + 1) * size = k * size + size
OBVIOUS

\* One packet more is a multiple again.
LEMMA NextMultiple ==
  ASSUME NEW p \in Sources, NEW n \in Multiples(p)
  PROVE  n + PacketSize[p] \in Multiples(p)
<1>1. PacketSize[p] \in Nat
  BY LinkAssumption, QueueAssumption
<1>2. PICK k \in Nat : n = k * PacketSize[p]
  BY DEF Multiples
<1>3. (k + 1) * PacketSize[p] = k * PacketSize[p] + PacketSize[p]
  BY <1>1, CountPackets
<1>4. k + 1 \in Nat
  OBVIOUS
<1> QED BY <1>2, <1>3, <1>4 DEF Multiples

\* A sub-queue to which its source adds a packet, and one that loses its head.
LEMMA FromSourceAppend ==
  ASSUME NEW p \in Sources, NEW q \in Seq(Packets), NEW pkt \in Packets,
         pkt.size = PacketSize[p],
         \A i \in 1 .. Len(q) : p \in Sources /\ q[i].size = PacketSize[p]
  PROVE  \A i \in 1 .. Len(Append(q, pkt)) :
           p \in Sources /\ Append(q, pkt)[i].size = PacketSize[p]
<1>1. Len(Append(q, pkt)) = Len(q) + 1 /\ Len(q) \in Nat
  OBVIOUS
<1>2. \A i \in 1 .. Len(q) : Append(q, pkt)[i] = q[i]
  OBVIOUS
<1>3. Append(q, pkt)[Len(q) + 1] = pkt
  OBVIOUS
<1> QED BY <1>1, <1>2, <1>3

LEMMA FromSourceTail ==
  ASSUME NEW p \in Priorities, NEW q \in Seq(Packets), q # << >>,
         \A i \in 1 .. Len(q) : p \in Sources /\ q[i].size = PacketSize[p]
  PROVE  /\ p \in Sources /\ Head(q).size = PacketSize[p]
         /\ \A i \in 1 .. Len(Tail(q)) : p \in Sources /\ Tail(q)[i].size = PacketSize[p]
<1>1. Len(q) \in Nat \ {0} /\ Head(q) = q[1] /\ Len(Tail(q)) = Len(q) - 1
  OBVIOUS
<1>2. \A i \in 1 .. Len(Tail(q)) : Tail(q)[i] = q[i + 1]
  OBVIOUS
<1>3. p \in Sources /\ Head(q).size = PacketSize[p]
  BY <1>1
<1>4. \A i \in 1 .. Len(Tail(q)) : i + 1 \in 1 .. Len(q)
  BY <1>1
<1> QED BY <1>2, <1>3, <1>4

\* So the counters are not reset, and the share stays unspendable.
LEMMA UnspendableStep ==
  ASSUME NEW p \in Priorities, MaxSwitches = 0,
         QueueInv, Unspendable(p), [LinkNext]_linkVars
  PROVE  Unspendable(p)' /\ \A q \in Priorities : sent'[q] >= sent[q]
<1>1. /\ queues \in [Priorities -> Seq(Packets)] /\ sent \in [Priorities -> Nat]
      /\ \A q \in Priorities : sent[q] \in Nat
  BY DEF QueueInv, TypeOK
<1>2. ASSUME UNCHANGED << calls, cycleBudget, shareBase, budgets >>,
             FromSource(p)', sent'[p] \in Multiples(p)
      PROVE  Unspendable(p)'
  BY <1>2 DEF Unspendable, Multiples
<1>3. ASSUME sent' = sent PROVE \A q \in Priorities : sent'[q] >= sent[q]
  BY <1>1, <1>3
<1>4. ASSUME UNCHANGED vars, calls' = calls
      PROVE  Unspendable(p)' /\ \A q \in Priorities : sent'[q] >= sent[q]
  <2>1. UNCHANGED << queues, sent, cycleBudget, shareBase, budgets >>
    BY <1>4 DEF vars
  <2>2. FromSource(p)' /\ sent'[p] \in Multiples(p)
    BY <2>1 DEF Unspendable, FromSource
  <2> QED BY <1>2, <1>3, <1>4, <2>1, <2>2
<1>5. ASSUME NEW r \in Sources, Send(r)
      PROVE  Unspendable(p)' /\ \A q \in Priorities : sent'[q] >= sent[q]
  <2> DEFINE pkt == [tag |-> r, size |-> PacketSize[r]]
  <2>1. r \in Priorities /\ Class(pkt) = r /\ pkt \in Packets /\ pkt.size = PacketSize[r]
    BY SourcePackets
  <2>2. CASE Enqueue(pkt)
    <3> HIDE DEF pkt
    <3>1. sent' = sent /\ UNCHANGED << cycleBudget, shareBase, budgets >> /\ calls' = calls
      BY <1>5, <2>2 DEF Enqueue, Send
    <3>2. queues' = [queues EXCEPT ![r] = Append(@, pkt)]
      BY <2>1, <2>2 DEF Enqueue, Into
    <3>3. FromSource(p)'
      <4>1. CASE r # p
        <5>1. queues'[p] = queues[p]
          BY <1>1, <3>2, <4>1
        <5> QED BY <5>1 DEF Unspendable, FromSource
      <4>2. CASE r = p
        <5>1. queues'[p] = Append(queues[p], pkt) /\ queues[p] \in Seq(Packets)
          BY <1>1, <2>1, <3>2, <4>2
        <5>2. \A i \in 1 .. Len(queues[p]) : p \in Sources /\ queues[p][i].size = PacketSize[p]
          BY DEF Unspendable, FromSource
        <5>3. \A i \in 1 .. Len(queues'[p]) :
                p \in Sources /\ queues'[p][i].size = PacketSize[p]
          BY <2>1, <4>2, <5>1, <5>2, FromSourceAppend
        <5> QED BY <5>3 DEF FromSource
      <4> QED BY <4>1, <4>2
    <3>4. sent'[p] \in Multiples(p)
      BY <3>1 DEF Unspendable
    <3> QED BY <1>2, <1>3, <3>1, <3>3, <3>4
  <2>3. CASE ~Enqueue(pkt)
    BY <1>4, <1>5, <2>3 DEF Send
  <2> QED BY <2>2, <2>3
<1>6. CASE Ask
  <2>1. UNCHANGED << calls, cycleBudget, shareBase, budgets >>
    BY <1>6 DEF Ask, Dequeue
  <2>2. ~StartCycle
    <3>1. BytesSent < cycleBudget
      BY ShareRemains
    <3>2. BytesSent \in Int /\ cycleBudget \in Int
      BY BytesSentIsNumber DEF QueueInv
    <3> HIDE DEF BytesSent
    <3> QED BY <3>1, <3>2 DEF StartCycle
  <2>3. CASE SendNothing
    <3>1. queues' = queues /\ sent' = sent
      BY <2>3 DEF SendNothing
    <3>2. FromSource(p)' /\ sent'[p] \in Multiples(p)
      BY <3>1 DEF Unspendable, FromSource
    <3> QED BY <1>2, <1>3, <2>1, <3>1, <3>2
  <2>4. ASSUME NEW r \in Priorities, Serve(r)
        PROVE  Unspendable(p)' /\ \A q \in Priorities : sent'[q] >= sent[q]
    <3>1. queues[r] # << >> /\ queues[r] \in Seq(Packets)
      BY <1>1, <2>4 DEF Serve, FirstToSend, CanSend, Backlogged
    <3>2. Head(queues[r]).size \in Nat
      <4>1. Head(queues[r]) \in Packets
        BY <3>1
      <4> QED BY <4>1, QueueAssumption
    <3>3. /\ queues' = [queues EXCEPT ![r] = Tail(@)]
          /\ sent' = [sent EXCEPT ![r] = @ + Head(queues[r]).size]
      BY <2>4 DEF Serve
    <3>4. \A q \in Priorities : sent'[q] >= sent[q]
      BY <1>1, <3>2, <3>3
    <3>5. FromSource(p)' /\ sent'[p] \in Multiples(p)
      <4>1. CASE r # p
        <5>1. queues'[p] = queues[p] /\ sent'[p] = sent[p]
          BY <1>1, <3>3, <4>1
        <5> QED BY <5>1 DEF Unspendable, FromSource
      <4>2. CASE r = p
        <5>1. /\ queues'[p] = Tail(queues[p])
              /\ sent'[p] = sent[p] + Head(queues[p]).size
          BY <1>1, <3>3, <4>2
        <5>2. \A i \in 1 .. Len(queues[p]) : p \in Sources /\ queues[p][i].size = PacketSize[p]
          BY DEF Unspendable, FromSource
        <5>3. /\ p \in Sources /\ Head(queues[p]).size = PacketSize[p]
              /\ \A i \in 1 .. Len(Tail(queues[p])) :
                   p \in Sources /\ Tail(queues[p])[i].size = PacketSize[p]
          BY <3>1, <4>2, <5>2, FromSourceTail
        <5>4. sent'[p] \in Multiples(p)
          BY <5>1, <5>3, NextMultiple DEF Unspendable
        <5> QED BY <5>1, <5>3, <5>4 DEF FromSource
      <4> QED BY <4>1, <4>2
    <3> QED BY <1>2, <2>1, <3>4, <3>5
  <2> QED BY <1>6, <2>2, <2>3, <2>4 DEF Ask, Dequeue
<1>7. CASE TransmitComplete
  BY <1>4, <1>7 DEF TransmitComplete
<1>8. ~Configure
  BY LinkAssumption DEF Configure, Unspendable
<1>9. CASE UNCHANGED linkVars
  BY <1>4, <1>9 DEF linkVars
<1> QED BY <1>5, <1>6, <1>7, <1>8, <1>9 DEF LinkNext

\* If the share of one class is not a number of its packets, or the class has a
\* share and no source, then, whatever the others send and however long, the
\* counters are never reset and the link as a whole sends less than one cycle's
\* bytes: what silent_class finds is the same for all traffic and set-ups.
THEOREM UnspendableShareClosesLink ==
  ASSUME NEW p \in Priorities, MaxSwitches = 0,
         SharesFrom <= CycleInForce, SetupShare(p) \notin Multiples(p)
  PROVE  LinkSpec => /\ [](BytesSent < CycleInForce)
                     /\ [][\A q \in Priorities : sent'[q] >= sent[q]]_linkVars
<1>1. LinkInit => Unspendable(p)
  <2> SUFFICES ASSUME LinkInit PROVE Unspendable(p)
    OBVIOUS
  <2>1. FromSource(p)
    <3>1. Len(queues[p]) = 0
      BY DEF LinkInit
    <3> QED BY <3>1 DEF FromSource
  <2>2. budgets[p] = SetupShare(p)
    BY DEF LinkInit, SetupShare, ByteShare, GetPriorityBandwidth
  <2>3. sent[p] \in Multiples(p)
    <3>1. sent[p] = 0
      BY DEF LinkInit, Zero
    <3>2. p \in Sources => PacketSize[p] \in Nat
      BY LinkAssumption, QueueAssumption
    <3>3. p \in Sources => 0 = 0 * PacketSize[p]
      BY <3>2, CountPackets
    <3> QED BY <3>1, <3>3 DEF Multiples
  <2> QED BY <2>1, <2>2, <2>3 DEF LinkInit, Unspendable
<1>2. QueueInv /\ Unspendable(p) => BytesSent < CycleInForce
  BY ShareRemains DEF Unspendable
<1>3. QueueInv /\ Unspendable(p) /\ [LinkNext]_linkVars =>
        Unspendable(p)' /\ [\A q \in Priorities : sent'[q] >= sent[q]]_linkVars
  BY UnspendableStep
<1> QED BY <1>1, <1>2, <1>3, LinkKeepsQueueInv, PTL DEF LinkSpec

=============================================================================
