------------------------ MODULE PriorityTxQueueProofs ------------------------
(***************************************************************************)
(* Theorems about PriorityTxQueue, for every set of packets, every cycle   *)
(* budget and every width of the unsigned arithmetic.                      *)
(***************************************************************************)
EXTENDS PriorityTxQueue, TLAPS

-----------------------------------------------------------------------------
(***************************************************************************)
(* Arithmetic.                                                             *)
(***************************************************************************)

\* Unsigned arithmetic agrees with the integers below its modulus.
LEMMA SmallModulo ==
  ASSUME NEW m \in Nat \ {0}, NEW a \in 0 .. m - 1
  PROVE  a % m = a
  OBVIOUS

\* The reduction of a natural number is a natural number no larger than it.
LEMMA ModuloAtMost ==
  ASSUME NEW m \in Nat \ {0}, NEW a \in Nat
  PROVE  a % m \in 0 .. m - 1 /\ a % m <= a
<1>1. CASE a < m
  BY <1>1, SmallModulo
<1>2. CASE a >= m
  BY <1>2
<1> QED BY <1>1, <1>2

\* A share is within the modulus, and a hundred of it is at most the product
\* it is cut from.
LEMMA ShareBound ==
  ASSUME NEW w \in Nat, NEW c \in Nat, NEW m \in Nat \ {0}
  PROVE  /\ ((w * c) % m) \div 100 \in 0 .. m - 1
         /\ 100 * (((w * c) % m) \div 100) <= w * c
<1> DEFINE x == w * c
<1>1. x \in Nat
  OBVIOUS
<1>2. x % m \in 0 .. m - 1 /\ x % m <= x
  BY <1>1, ModuloAtMost
<1> DEFINE y == x % m
<1>3. y \in Nat
  BY <1>2
<1>4. y \div 100 \in Nat /\ 100 * (y \div 100) <= y /\ y \div 100 <= y
  <2> HIDE DEF y
  <2> QED BY <1>3
<1>5. y \div 100 \in 0 .. m - 1 /\ 100 * (y \div 100) <= x
  <2> HIDE DEF x, y
  <2>1. y \in 0 .. m - 1 /\ y <= x
    BY <1>2 DEF y
  <2> QED BY <1>1, <1>3, <1>4, <2>1
<1> QED BY <1>5

-----------------------------------------------------------------------------
(***************************************************************************)
(* Facts about the operators of PriorityTxQueue.                           *)
(***************************************************************************)

\* The priorities, listed.
LEMMA PrioritiesAre == Priorities = {0, 1, 2, 3} /\ Priorities = 0 .. 3
BY DEF Priorities, GetNumPriorities

\* Every weight vector the code sets adds up to 100.
LEMMA ModeWeightsArePercentages ==
  /\ IsPercentages(DefaultWeights)
  /\ \A m \in Modes : IsPercentages(ModeWeights[m])
BY DEF IsPercentages, DefaultWeights, ModeWeights, Modes, GetNumPriorities

\* The byte share of a priority is an unsigned number, and a hundred of it is
\* at most its percentage of the cycle.
LEMMA ByteShareBound ==
  ASSUME IsPercentages(weights), NEW c \in 0 .. UintMod - 1, NEW p \in Priorities
  PROVE  /\ ByteShare(p, c) \in 0 .. UintMod - 1
         /\ 100 * ByteShare(p, c) <= weights[p + 1] * c
<1>1. weights[p + 1] \in Nat
  BY DEF IsPercentages, Priorities, GetNumPriorities
<1>2. UintMod \in Nat \ {0} /\ c \in Nat
  BY QueueAssumption
<1> QED BY <1>1, <1>2, ShareBound DEF ByteShare, GetPriorityBandwidth

\* The shares of all priorities are together at most the cycle.
LEMMA ByteSharesSum ==
  ASSUME IsPercentages(weights), NEW c \in 0 .. UintMod - 1
  PROVE  ByteShare(0, c) + ByteShare(1, c) + ByteShare(2, c) + ByteShare(3, c) <= c
<1>1. /\ weights[1] \in Nat /\ weights[2] \in Nat
      /\ weights[3] \in Nat /\ weights[4] \in Nat
      /\ weights[1] + weights[2] + weights[3] + weights[4] = 100
  BY DEF IsPercentages, GetNumPriorities
<1>2. c \in Nat
  OBVIOUS
<1>3. /\ ByteShare(0, c) \in Nat /\ 100 * ByteShare(0, c) <= weights[1] * c
      /\ ByteShare(1, c) \in Nat /\ 100 * ByteShare(1, c) <= weights[2] * c
      /\ ByteShare(2, c) \in Nat /\ 100 * ByteShare(2, c) <= weights[3] * c
      /\ ByteShare(3, c) \in Nat /\ 100 * ByteShare(3, c) <= weights[4] * c
  <2>1. 0 \in Priorities /\ 1 \in Priorities /\ 2 \in Priorities /\ 3 \in Priorities
    BY PrioritiesAre
  <2>2. 0 + 1 = 1 /\ 1 + 1 = 2 /\ 2 + 1 = 3 /\ 3 + 1 = 4
    OBVIOUS
  <2>3. /\ ByteShare(0, c) \in 0 .. UintMod - 1 /\ 100 * ByteShare(0, c) <= weights[0 + 1] * c
        /\ ByteShare(1, c) \in 0 .. UintMod - 1 /\ 100 * ByteShare(1, c) <= weights[1 + 1] * c
        /\ ByteShare(2, c) \in 0 .. UintMod - 1 /\ 100 * ByteShare(2, c) <= weights[2 + 1] * c
        /\ ByteShare(3, c) \in 0 .. UintMod - 1 /\ 100 * ByteShare(3, c) <= weights[3 + 1] * c
    BY <2>1, ByteShareBound
  <2> QED BY <2>2, <2>3
<1>4. weights[1] * c + weights[2] * c + weights[3] * c + weights[4] * c = 100 * c
  <2> DEFINE w1 == weights[1]  w2 == weights[2]  w3 == weights[3]  w4 == weights[4]
  <2>1. /\ w1 \in Nat /\ w2 \in Nat /\ w3 \in Nat /\ w4 \in Nat
        /\ w1 + w2 + w3 + w4 = 100
    BY <1>1
  <2> HIDE DEF w1, w2, w3, w4
  <2>2. w1 * c + w2 * c + w3 * c + w4 * c = (w1 + w2 + w3 + w4) * c
    BY <1>2, <2>1
  <2>3. w1 * c + w2 * c + w3 * c + w4 * c = 100 * c
    BY <2>1, <2>2
  <2> QED BY <2>3 DEF w1, w2, w3, w4
<1>5. /\ weights[1] * c \in Nat /\ weights[2] * c \in Nat
      /\ weights[3] * c \in Nat /\ weights[4] * c \in Nat
  BY <1>1, <1>2
<1> QED BY <1>2, <1>3, <1>4, <1>5

\* Enqueue's class is a priority.
LEMMA ClassIsPriority ==
  ASSUME NEW pkt \in Packets
  PROVE  Class(pkt) \in Priorities
BY QueueAssumption, PrioritiesAre DEF Class

\* What the priorities have sent stays within the counters' width, so that
\* the unsigned remaining budget is the plain difference.
LEMMA RemainingIsDifference ==
  ASSUME TypeOK, SentWithinBudget, NEW p \in Priorities
  PROVE  Remaining(p) = budgets[p] - sent[p]
<1>1. UintMod \in Nat \ {0}
  BY QueueAssumption
<1>2. budgets[p] - sent[p] \in 0 .. UintMod - 1
  BY <1>1 DEF TypeOK, SentWithinBudget
<1> QED BY <1>1, <1>2, SmallModulo DEF Remaining

-----------------------------------------------------------------------------
(***************************************************************************)
(* The inductive invariant.                                                *)
(***************************************************************************)

\* Types are preserved by every call.
LEMMA TypeStep == TypeOK /\ [Next]_vars => TypeOK'
<1> SUFFICES ASSUME TypeOK, [Next]_vars PROVE TypeOK'
  OBVIOUS
<1> USE DEF TypeOK
<1>1. UintMod \in Nat \ {0}
  BY QueueAssumption
<1>2. CASE SetQosConfig
  <2>1. \A p \in Priorities : ByteShare(p, cycleBudget) \in 0 .. UintMod - 1
    BY ByteShareBound
  <2>2. budgets' \in [Priorities -> 0 .. UintMod - 1]
    BY <1>2, <2>1 DEF SetQosConfig
  <2>3. sent' \in [Priorities -> Nat] /\ tracked' = tracked
        /\ \A p \in Priorities \ tracked : sent'[p] = 0
    BY <1>2 DEF SetQosConfig, ResetCycleCounters
  <2> QED BY <1>2, <2>2, <2>3 DEF SetQosConfig
<1>3. ASSUME NEW c \in CycleBudgets, SetCycleBudget(c) PROVE TypeOK'
  BY <1>3, QueueAssumption DEF SetCycleBudget
<1>4. CASE Reconfigure
  <2>1. IsPercentages(weights') /\ mode' \in Modes
    <3>1. ASSUME NEW m \in Modes, SetOperationMode(m)
          PROVE  IsPercentages(weights') /\ mode' \in Modes
      BY <3>1, ModeWeightsArePercentages DEF SetOperationMode
    <3>2. ASSUME NEW w \in WeightVectors, SetQueueWeights(w)
          PROVE  IsPercentages(weights') /\ mode' \in Modes
      BY <3>2, WeightsAssumption DEF SetQueueWeights
    <3> QED BY <1>4, <3>1, <3>2 DEF Reconfigure
  <2> QED BY <1>4, <2>1 DEF Reconfigure, queueVars, IsPercentages
<1>5. ASSUME NEW pkt \in Packets, Enqueue(pkt) PROVE TypeOK'
  <2>1. queues' \in [Priorities -> Seq(Packets)]
    BY <1>5, ClassIsPriority DEF Enqueue, Into
  <2> QED BY <1>5, <2>1 DEF Enqueue
<1>6. CASE Dequeue
  <2>1. CASE StartCycle
    BY <1>6, <2>1 DEF Dequeue, StartCycle, ResetCycleCounters
  <2>2. CASE SendNothing
    BY <1>6, <2>2 DEF Dequeue, SendNothing
  <2>3. ASSUME NEW p \in Priorities, Serve(p) PROVE TypeOK'
    <3>1. queues[p] \in Seq(Packets) /\ queues[p] # << >>
      BY <2>3 DEF Serve, FirstToSend, CanSend, Backlogged
    <3>2. Head(queues[p]) \in Packets /\ Tail(queues[p]) \in Seq(Packets)
      BY <3>1
    <3>3. Head(queues[p]).size \in Nat
      BY <3>2, QueueAssumption
    <3>4. queues' \in [Priorities -> Seq(Packets)]
      BY <2>3, <3>2 DEF Serve
    <3>5. sent' \in [Priorities -> Nat]
      BY <2>3, <3>3 DEF Serve
    <3>6. tracked' \subseteq Priorities /\ tracked \subseteq tracked' /\ p \in tracked'
      <4>1. 0 .. p \subseteq Priorities /\ p \in 0 .. p
        BY PrioritiesAre
      <4>2. Backlogged(p) /\ tracked' = tracked \cup {q \in 0 .. p : Backlogged(q)}
        BY <2>3 DEF Serve, FirstToSend, CanSend
      <4> QED BY <4>1, <4>2
    <3>7. \A q \in Priorities \ tracked' : sent'[q] = 0
      BY <2>3, <3>6 DEF Serve
    <3> QED BY <1>6, <3>4, <3>5, <3>6, <3>7 DEF Dequeue
  <2> QED BY <1>6, <2>1, <2>2, <2>3 DEF Dequeue
<1>7. CASE Remove
  <2>1. PICK p \in Priorities : Backlogged(p) /\ queues' = [queues EXCEPT ![p] = Tail(@)]
    BY <1>7 DEF Remove
  <2>2. queues[p] \in Seq(Packets) /\ queues[p] # << >>
    BY <2>1 DEF Backlogged
  <2>3. Tail(queues[p]) \in Seq(Packets)
    BY <2>2
  <2>4. queues' \in [Priorities -> Seq(Packets)]
    BY <2>1, <2>3
  <2> QED BY <1>7, <2>4 DEF Remove
<1>8. CASE UNCHANGED vars
  BY <1>8 DEF vars
<1> QED BY <1>2, <1>3, <1>4, <1>5, <1>6, <1>7, <1>8 DEF Next

\* No call lets a priority exceed its budget.
LEMMA BudgetStep == TypeOK /\ SentWithinBudget /\ [Next]_vars => SentWithinBudget'
<1> SUFFICES ASSUME TypeOK, SentWithinBudget, [Next]_vars,
                    NEW q \in Priorities
             PROVE  sent'[q] <= budgets'[q]
  BY DEF SentWithinBudget
<1>1. sent[q] \in Nat /\ budgets[q] \in Nat /\ sent[q] <= budgets[q]
  BY QueueAssumption DEF TypeOK, SentWithinBudget
<1>2. ASSUME sent' = sent, budgets' = budgets PROVE sent'[q] <= budgets'[q]
  BY <1>1, <1>2
<1>3. ASSUME ResetCycleCounters PROVE sent'[q] = 0
  BY <1>3 DEF ResetCycleCounters, TypeOK
<1>4. CASE SetQosConfig
  <2>1. ByteShare(q, cycleBudget) \in 0 .. UintMod - 1
    BY ByteShareBound DEF TypeOK
  <2>2. budgets'[q] = ByteShare(q, cycleBudget)
    BY <1>4 DEF SetQosConfig
  <2> QED BY <1>3, <1>4, <2>1, <2>2, QueueAssumption DEF SetQosConfig
<1>5. CASE Dequeue
  <2>1. CASE StartCycle
    BY <1>1, <1>3, <1>5, <2>1 DEF Dequeue, StartCycle
  <2>2. CASE SendNothing
    BY <1>2, <1>5, <2>2 DEF Dequeue, SendNothing
  <2>3. ASSUME NEW p \in Priorities, Serve(p) PROVE sent'[q] <= budgets'[q]
    <3>1. Head(queues[p]).size <= budgets[p] - sent[p]
      BY <2>3, RemainingIsDifference DEF Serve, FirstToSend, CanSend
    <3>2. Head(queues[p]).size \in Nat
      <4>1. queues[p] \in Seq(Packets) /\ queues[p] # << >>
        BY <2>3 DEF Serve, FirstToSend, CanSend, Backlogged, TypeOK
      <4> QED BY <4>1, QueueAssumption
    <3>3. sent[p] \in Nat /\ budgets[p] \in Nat
      BY QueueAssumption DEF TypeOK
    <3>4. sent'[q] = IF q = p THEN sent[p] + Head(queues[p]).size ELSE sent[q]
      BY <2>3 DEF Serve, TypeOK
    <3>5. budgets' = budgets
      BY <1>5 DEF Dequeue
    <3> QED BY <1>1, <3>1, <3>2, <3>3, <3>4, <3>5
  <2> QED BY <1>5, <2>1, <2>2, <2>3 DEF Dequeue
<1>6. ASSUME NEW c \in CycleBudgets, SetCycleBudget(c) PROVE sent'[q] <= budgets'[q]
  BY <1>2, <1>6 DEF SetCycleBudget
<1>7. CASE Reconfigure
  BY <1>2, <1>7 DEF Reconfigure, queueVars
<1>8. ASSUME NEW pkt \in Packets, Enqueue(pkt) PROVE sent'[q] <= budgets'[q]
  BY <1>2, <1>8 DEF Enqueue
<1>9. CASE Remove
  BY <1>2, <1>9 DEF Remove
<1>10. CASE UNCHANGED vars
  BY <1>2, <1>10 DEF vars
<1> QED BY <1>4, <1>5, <1>6, <1>7, <1>8, <1>9, <1>10 DEF Next

\* Only SetQosConfig cuts budgets, and what it cuts fits in the cycle.
LEMMA SharesStep == TypeOK /\ SharesWithinCycle /\ [Next]_vars => SharesWithinCycle'
<1> SUFFICES ASSUME TypeOK, SharesWithinCycle, [Next]_vars
             PROVE  SharesWithinCycle'
  OBVIOUS
<1>1. ASSUME UNCHANGED << budgets, shareBase >> PROVE SharesWithinCycle'
  BY <1>1 DEF SharesWithinCycle
<1>2. CASE SetQosConfig
  <2>1. /\ budgets'[0] = ByteShare(0, cycleBudget) /\ budgets'[1] = ByteShare(1, cycleBudget)
        /\ budgets'[2] = ByteShare(2, cycleBudget) /\ budgets'[3] = ByteShare(3, cycleBudget)
        /\ shareBase' = cycleBudget
    BY <1>2, PrioritiesAre DEF SetQosConfig
  <2>2. ByteShare(0, cycleBudget) + ByteShare(1, cycleBudget) + ByteShare(2, cycleBudget)
          + ByteShare(3, cycleBudget) <= cycleBudget
    BY ByteSharesSum DEF TypeOK
  <2> QED BY <2>1, <2>2 DEF SharesWithinCycle
<1>3. CASE Dequeue
  BY <1>1, <1>3 DEF Dequeue
<1>4. ASSUME NEW c \in CycleBudgets, SetCycleBudget(c) PROVE SharesWithinCycle'
  BY <1>1, <1>4 DEF SetCycleBudget
<1>5. CASE Reconfigure
  BY <1>1, <1>5 DEF Reconfigure, queueVars
<1>6. ASSUME NEW pkt \in Packets, Enqueue(pkt) PROVE SharesWithinCycle'
  BY <1>1, <1>6 DEF Enqueue
<1>7. CASE Remove
  BY <1>1, <1>7 DEF Remove
<1>8. CASE UNCHANGED vars
  BY <1>1, <1>8 DEF vars
<1> QED BY <1>2, <1>3, <1>4, <1>5, <1>6, <1>7, <1>8 DEF Next

\* The constructor's state satisfies the invariant.
LEMMA InitInv == Init => QueueInv
<1> SUFFICES ASSUME Init PROVE QueueInv
  OBVIOUS
<1>1. IsPercentages(weights) /\ weights \in [1 .. GetNumPriorities -> Nat] /\ mode \in Modes
  BY ModeWeightsArePercentages DEF Init, QosInit, IsPercentages, Modes
<1>2. UintMod \in Nat \ {0} /\ 0 \in 0 .. UintMod - 1
  BY QueueAssumption
<1>3. queues \in [Priorities -> Seq(Packets)]
  BY DEF Init
<1>4. TypeOK
  BY <1>1, <1>2, <1>3, QueueAssumption DEF Init, TypeOK, Zero
<1>5. SentWithinBudget
  BY DEF Init, SentWithinBudget, Zero
<1>6. SharesWithinCycle
  BY PrioritiesAre DEF Init, SharesWithinCycle, Zero
<1> QED BY <1>4, <1>5, <1>6 DEF QueueInv

\* The queue's types, the budget of each priority and the fit of the budgets
\* in their cycle hold in every reachable state.
THEOREM QueueInvariant == Spec => []QueueInv
<1>1. QueueInv /\ [Next]_vars => QueueInv'
  BY TypeStep, BudgetStep, SharesStep DEF QueueInv
<1> QED BY InitInv, <1>1, PTL DEF Spec

-----------------------------------------------------------------------------
(***************************************************************************)
(* The properties.                                                         *)
(***************************************************************************)

\* TypeOK holds in every reachable state.
THEOREM TypeCorrect == Spec => []TypeOK
<1>1. QueueInv => TypeOK
  BY DEF QueueInv
<1> QED BY QueueInvariant, <1>1, PTL

\* No priority ever exceeds its budget of a cycle.
THEOREM BudgetRespected == Spec => []SentWithinBudget
<1>1. QueueInv => SentWithinBudget
  BY DEF QueueInv
<1> QED BY QueueInvariant, <1>1, PTL

\* What one priority has sent and may send, and the sums of both.
LEMMA SentAndBudgets ==
  ASSUME QueueInv
  PROVE  /\ sent[0] \in Nat /\ sent[1] \in Nat /\ sent[2] \in Nat /\ sent[3] \in Nat
         /\ budgets[0] \in Nat /\ budgets[1] \in Nat
         /\ budgets[2] \in Nat /\ budgets[3] \in Nat
         /\ sent[0] <= budgets[0] /\ sent[1] <= budgets[1]
         /\ sent[2] <= budgets[2] /\ sent[3] <= budgets[3]
         /\ budgets[0] + budgets[1] + budgets[2] + budgets[3] <= shareBase
         /\ shareBase \in Nat
<1>1. 0 \in Priorities /\ 1 \in Priorities /\ 2 \in Priorities /\ 3 \in Priorities
  BY PrioritiesAre
<1> QED BY <1>1, QueueAssumption DEF QueueInv, TypeOK, SentWithinBudget, SharesWithinCycle

\* All priorities together stay within the cycle their budgets came from.
THEOREM NotOversubscribed == Spec => []CycleNotOversubscribed
<1>1. QueueInv => CycleNotOversubscribed
  BY SentAndBudgets DEF CycleNotOversubscribed, BytesSent
<1> QED BY QueueInvariant, <1>1, PTL

\* A cycle whose budgets were cut from the cycle budget in force ends only
\* when every priority has sent all of its budget.  It follows that a
\* priority with nothing to send keeps the others from their next cycle.
THEOREM CycleEnds == Spec => CycleEndsWhenSharesSpent
<1>1. QueueInv /\ StartCycle /\ shareBase = cycleBudget => sent = budgets
  <2> SUFFICES ASSUME QueueInv, StartCycle, shareBase = cycleBudget
               PROVE  sent = budgets
    OBVIOUS
  <2>1. sent[0] + sent[1] + sent[2] + sent[3] >= shareBase
    BY DEF StartCycle, BytesSent
  <2>2. /\ sent[0] = budgets[0] /\ sent[1] = budgets[1]
        /\ sent[2] = budgets[2] /\ sent[3] = budgets[3]
    <3> DEFINE s0 == sent[0]  s1 == sent[1]  s2 == sent[2]  s3 == sent[3]
               b0 == budgets[0]  b1 == budgets[1]  b2 == budgets[2]  b3 == budgets[3]
    <3>1. /\ s0 \in Nat /\ s1 \in Nat /\ s2 \in Nat /\ s3 \in Nat
          /\ b0 \in Nat /\ b1 \in Nat /\ b2 \in Nat /\ b3 \in Nat
          /\ s0 <= b0 /\ s1 <= b1 /\ s2 <= b2 /\ s3 <= b3
          /\ b0 + b1 + b2 + b3 <= shareBase
          /\ shareBase \in Nat
      BY SentAndBudgets
    <3>2. s0 + s1 + s2 + s3 >= shareBase
      BY <2>1
    <3> HIDE DEF s0, s1, s2, s3, b0, b1, b2, b3
    <3>3. s0 = b0 /\ s1 = b1 /\ s2 = b2 /\ s3 = b3
      BY <3>1, <3>2
    <3> QED BY <3>3 DEF s0, s1, s2, s3, b0, b1, b2, b3
  <2>3. \A p \in Priorities : sent[p] = budgets[p]
    BY <2>2, PrioritiesAre
  <2>4. sent \in [Priorities -> Nat] /\ budgets \in [Priorities -> 0 .. UintMod - 1]
    BY DEF QueueInv, TypeOK
  <2> QED BY <2>3, <2>4
<1>2. QueueInv /\ [Next]_vars =>
        [(StartCycle /\ shareBase = cycleBudget) => sent = budgets]_vars
  BY <1>1
<1> QED BY QueueInvariant, <1>2, PTL DEF Spec, CycleEndsWhenSharesSpent

-----------------------------------------------------------------------------
(***************************************************************************)
(* The queue implements ShareScheduler.                                    *)
(***************************************************************************)

\* Both modules count the same classes and sort packets into them alike.
LEMMA SameClasses ==
  /\ Scheduler!Classes = Priorities
  /\ Scheduler!Nobody = Zero
  /\ \A pkt \in Packets : Scheduler!ClassOf(pkt) = Class(pkt)
BY PrioritiesAre DEF Scheduler!Classes, Scheduler!Nobody, Zero, Scheduler!ClassOf, Class

\* The budget tests of Dequeue, in unsigned arithmetic, are the scheduler's.
LEMMA SameTest ==
  ASSUME QueueInv, NEW p \in Priorities
  PROVE  CanSend(p) <=> Scheduler!Fits(p)
<1>1. Remaining(p) = budgets[p] - sent[p]
  BY RemainingIsDifference DEF QueueInv
<1>2. sent[p] \in Nat /\ budgets[p] \in Nat
  BY QueueAssumption DEF QueueInv, TypeOK
<1>3. Backlogged(p) => Head(queues[p]).size \in Nat
  <2> SUFFICES ASSUME Backlogged(p) PROVE Head(queues[p]).size \in Nat
    OBVIOUS
  <2>1. queues[p] \in Seq(Packets) /\ queues[p] # << >>
    BY DEF Backlogged, QueueInv, TypeOK
  <2> QED BY <2>1, QueueAssumption
<1> QED BY <1>1, <1>2, <1>3 DEF CanSend, Scheduler!Fits, Backlogged

\* Every call is a step of the scheduler or leaves its state alone.
LEMMA SchedulerStep ==
  QueueInv /\ QueueInv' /\ [Next]_vars => [Scheduler!Next]_<< queues, sent, budgets >>
<1> SUFFICES ASSUME QueueInv, QueueInv', [Next]_vars
             PROVE  Scheduler!Next \/ UNCHANGED << queues, sent, budgets >>
  OBVIOUS
<1>1. ASSUME ResetCycleCounters, UNCHANGED queues PROVE Scheduler!Next
  <2>1. sent' = Zero
    BY <1>1 DEF ResetCycleCounters, Zero, QueueInv, TypeOK
  <2>2. budgets' \in [Scheduler!Classes -> Nat]
    BY SameClasses, QueueAssumption DEF QueueInv, TypeOK
  <2>3. Scheduler!NewCycle
    BY <1>1, <2>1, <2>2, SameClasses DEF Scheduler!NewCycle
  <2> QED BY <2>3 DEF Scheduler!Next
<1>2. CASE SetQosConfig
  BY <1>1, <1>2 DEF SetQosConfig
<1>3. ASSUME NEW pkt \in Packets, Enqueue(pkt) PROVE Scheduler!Next
  BY <1>3, SameClasses DEF Enqueue, Into, Scheduler!Accept, Scheduler!Next
<1>4. CASE Dequeue
  <2>1. CASE StartCycle
    BY <1>1, <2>1 DEF StartCycle
  <2>2. CASE SendNothing
    BY <1>4, <2>2 DEF Dequeue, SendNothing
  <2>3. ASSUME NEW p \in Priorities, Serve(p) PROVE Scheduler!Next
    <3>1. Scheduler!Fits(p)
      BY <2>3, SameTest DEF Serve, FirstToSend
    <3>2. \A d \in Priorities : d < p => ~Scheduler!Fits(d)
      <4> SUFFICES ASSUME NEW d \in Priorities, d < p PROVE ~Scheduler!Fits(d)
        OBVIOUS
      <4>1. d \in 0 .. p - 1
        BY PrioritiesAre
      <4>2. ~CanSend(d)
        BY <2>3, <4>1 DEF Serve, FirstToSend
      <4> QED BY <4>2, SameTest
    <3>3. Scheduler!Release(p)
      BY <1>4, <2>3, <3>1, <3>2, SameClasses DEF Dequeue, Serve, Scheduler!Release
    <3> QED BY <3>3, SameClasses DEF Scheduler!Next
  <2> QED BY <1>4, <2>1, <2>2, <2>3 DEF Dequeue
<1>5. CASE Remove
  <2>1. PICK p \in Priorities :
          /\ Backlogged(p)
          /\ \A q \in 0 .. p - 1 : ~Backlogged(q)
          /\ queues' = [queues EXCEPT ![p] = Tail(@)]
    BY <1>5 DEF Remove
  <2>2. \A d \in Priorities : d < p => queues[d] = << >>
    <3> SUFFICES ASSUME NEW d \in Priorities, d < p PROVE queues[d] = << >>
      OBVIOUS
    <3>1. d \in 0 .. p - 1
      BY PrioritiesAre
    <3> QED BY <2>1, <3>1 DEF Backlogged
  <2>3. Scheduler!TakeOut(p)
    BY <1>5, <2>1, <2>2, SameClasses DEF Remove, Backlogged, Scheduler!TakeOut
  <2> QED BY <2>3, SameClasses DEF Scheduler!Next
<1>6. ASSUME NEW c \in CycleBudgets, SetCycleBudget(c)
      PROVE  UNCHANGED << queues, sent, budgets >>
  BY <1>6 DEF SetCycleBudget
<1>7. CASE Reconfigure
  BY <1>7 DEF Reconfigure, queueVars
<1>8. CASE UNCHANGED vars
  BY <1>8 DEF vars
<1> QED BY <1>2, <1>3, <1>4, <1>5, <1>6, <1>7, <1>8 DEF Next

\* The queue is a strict-priority scheduler over per-class FIFO lines, each
\* class within its share of the cycle.
THEOREM Refinement == Spec => ImplementsShareScheduler
<1>1. Init => Scheduler!Init
  BY SameClasses DEF Init, Scheduler!Init, Zero, Scheduler!Nobody
<1> QED BY QueueInvariant, <1>1, SchedulerStep, PTL
       DEF Spec, ImplementsShareScheduler, Scheduler!Spec

=============================================================================
