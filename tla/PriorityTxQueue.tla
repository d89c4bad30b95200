--------------------------- MODULE PriorityTxQueue ---------------------------
(***************************************************************************)
(* PriorityTxQueue (priority/priority-tx-queue.cc): one FIFO sub-queue per  *)
(* priority, served in strict priority order, each within a byte budget    *)
(* per cycle.  The budgets are cut from the cycle budget by the weights of *)
(* a shared QosConfig object at the moment SetQosConfig is called.         *)
(*                                                                         *)
(* All calls come from the simulator thread, so each call is one action.   *)
(* A packet is its PriorityTag (or NoTag) and its size in bytes, and what  *)
(* else a module that extends this one tells packets apart by.             *)
(***************************************************************************)
EXTENDS QosConfig

CONSTANTS
  Packets,             \* the packets the device hands to Enqueue
  NoTag,               \* the packet carries no PriorityTag
  CycleBudgets,        \* the arguments callers give SetCycleBudget
  DefaultCycleBudget,  \* the constructor's m_cycleBudget (12500 in the code)
  UintMod,             \* 2^32 in the code: unsigned arithmetic wraps here
  MaxQueued            \* bound of the model on the length of a sub-queue

ASSUME QueueAssumption ==
  /\ NoTag \notin Priorities
  /\ \A pkt \in Packets : pkt.tag \in Priorities \cup {NoTag} /\ pkt.size \in Nat
  /\ UintMod \in Nat \ {0}
  /\ DefaultCycleBudget \in 0 .. UintMod - 1
  /\ CycleBudgets \subseteq 0 .. UintMod - 1
  /\ MaxQueued \in Nat

VARIABLES
  configured,   \* m_qosConfig is set
  queues,       \* m_queues, with the empty sequence for an absent key
  sent,         \* m_bytesSentThisCycle, with 0 for an absent key
  tracked,      \* the keys m_bytesSentThisCycle holds
  cycleBudget,  \* m_cycleBudget
  budgets,      \* m_priorityBudgets, with 0 for an absent key
  shareBase     \* history: the m_cycleBudget the budgets were cut from

qosVars == << weights, mode >>
queueVars == << configured, queues, sent, tracked, cycleBudget, budgets, shareBase >>
vars == << weights, mode, configured, queues, sent, tracked, cycleBudget,
           budgets, shareBase >>

Zero == [p \in Priorities |-> 0]

ClassWithLowDefault(pkt) == IF pkt.tag = NoTag THEN 3 ELSE pkt.tag

\* Enqueue's choice of sub-queue; an untagged packet counts as normal.
Class(pkt) == IF pkt.tag = NoTag THEN 2 ELSE pkt.tag

\* The sub-queues with a packet more.
Into(lines, pkt) == [lines EXCEPT ![Class(pkt)] = Append(@, pkt)]

\* (weight * m_cycleBudget) / 100 in uint32_t.
ByteShare(p, c) == ((GetPriorityBandwidth(p) * c) % UintMod) \div 100

\* remainingBudget, an unsigned difference.
Remaining(p) == (budgets[p] - sent[p]) % UintMod

\* Dequeue's totalSent, the sum over the map.
BytesSent == sent[0] + sent[1] + sent[2] + sent[3]

Backlogged(p) == queues[p] # << >>

HeadOfAnySize(p) ==
  /\ Backlogged(p)
  /\ Remaining(p) > 0

\* The head of sub-queue p passes both budget tests of Dequeue's loop.
CanSend(p) ==
  /\ Backlogged(p)
  /\ Remaining(p) > 0
  /\ Head(queues[p]).size <= Remaining(p)

\* p is the first sub-queue in priority order that can send.
FirstToSend(p) == CanSend(p) /\ \A q \in 0 .. p - 1 : ~CanSend(q)

-----------------------------------------------------------------------------

Init ==
  /\ QosInit
  /\ configured = FALSE
  /\ queues = [p \in Priorities |-> << >>]
  /\ sent = Zero
  /\ tracked = {}
  /\ cycleBudget = DefaultCycleBudget
  /\ budgets = Zero
  /\ shareBase = 0

ForgottenReset == UNCHANGED << sent, tracked >>

\* ResetCycleCounters zeroes the counters the map holds and keeps the keys.
ResetCycleCounters ==
  /\ sent' = [p \in Priorities |-> IF p \in tracked THEN 0 ELSE sent[p]]
  /\ UNCHANGED tracked

KeepCounters ==
  /\ configured' = TRUE
  /\ budgets' = [p \in Priorities |-> ByteShare(p, cycleBudget)]
  /\ shareBase' = cycleBudget
  /\ UNCHANGED << weights, mode, queues, sent, tracked, cycleBudget >>

SetQosConfig ==
  /\ configured' = TRUE
  /\ budgets' = [p \in Priorities |-> ByteShare(p, cycleBudget)]
  /\ shareBase' = cycleBudget
  /\ ResetCycleCounters
  /\ UNCHANGED << weights, mode, queues, cycleBudget >>

SetCycleBudget(c) ==
  /\ cycleBudget' = c
  /\ UNCHANGED << weights, mode, configured, queues, sent, tracked, budgets, shareBase >>

\* The owner of the QosConfig object changes it; the queue is not notified.
Reconfigure ==
  /\ \/ \E m \in Modes : SetOperationMode(m)
     \/ \E w \in WeightVectors : SetQueueWeights(w)
  /\ UNCHANGED queueVars

\* Enqueue never refuses; MaxQueued only bounds the model.
Enqueue(pkt) ==
  /\ Len(queues[Class(pkt)]) < MaxQueued
  /\ queues' = Into(queues, pkt)
  /\ UNCHANGED << weights, mode, configured, sent, tracked, cycleBudget, budgets, shareBase >>

EagerCycle ==
  /\ BytesSent > 0
  /\ ResetCycleCounters
  /\ UNCHANGED queues

\* Dequeue, the cycle is used up: reset and return nullptr.
StartCycle ==
  /\ BytesSent >= cycleBudget
  /\ ResetCycleCounters
  /\ UNCHANGED queues

UncountedServe(p) ==
  /\ BytesSent < cycleBudget
  /\ FirstToSend(p)
  /\ queues' = [queues EXCEPT ![p] = Tail(@)]
  /\ sent' = [sent EXCEPT ![p] = @ + Head(queues[p]).size]
  /\ UNCHANGED tracked

UnorderedServe(p) ==
  /\ BytesSent < cycleBudget
  /\ CanSend(p)
  /\ queues' = [queues EXCEPT ![p] = Tail(@)]
  /\ sent' = [sent EXCEPT ![p] = @ + Head(queues[p]).size]
  /\ tracked' = tracked \cup {q \in 0 .. p : Backlogged(q)}

\* Dequeue, the first sub-queue whose head fits its remaining budget.  The
\* loop creates a counter for each non-empty sub-queue it looks at.
Serve(p) ==
  /\ BytesSent < cycleBudget
  /\ FirstToSend(p)
  /\ queues' = [queues EXCEPT ![p] = Tail(@)]
  /\ sent' = [sent EXCEPT ![p] = @ + Head(queues[p]).size]
  /\ tracked' = tracked \cup {q \in 0 .. p : Backlogged(q)}

\* Dequeue, no head fits: return nullptr.
SendNothing ==
  /\ BytesSent < cycleBudget
  /\ \A p \in Priorities : ~CanSend(p)
  /\ tracked' = tracked \cup {p \in Priorities : Backlogged(p)}
  /\ UNCHANGED << queues, sent >>

\* Called once SetQosConfig has been: the loop dereferences m_qosConfig.
Dequeue ==
  /\ configured
  /\ StartCycle \/ SendNothing \/ \E p \in Priorities : Serve(p)
  /\ UNCHANGED << weights, mode, configured, cycleBudget, budgets, shareBase >>

\* Remove takes the most urgent packet and ignores budgets and counters.
Remove ==
  /\ configured
  /\ \E p \in Priorities :
       /\ Backlogged(p)
       /\ \A q \in 0 .. p - 1 : ~Backlogged(q)
       /\ queues' = [queues EXCEPT ![p] = Tail(@)]
  /\ UNCHANGED << weights, mode, configured, sent, tracked, cycleBudget, budgets, shareBase >>

Next ==
  \/ SetQosConfig
  \/ \E c \in CycleBudgets : SetCycleBudget(c)
  \/ Reconfigure
  \/ \E pkt \in Packets : Enqueue(pkt)
  \/ Dequeue
  \/ Remove

Spec == Init /\ [][Next]_vars

-----------------------------------------------------------------------------
(***************************************************************************)
(* Properties.                                                             *)
(***************************************************************************)

\* Types, and the representation of the counter map: a key the map does not
\* hold reads as 0, so that resetting the held keys resets them all.
TypeOK ==
  /\ weights \in [1 .. GetNumPriorities -> Nat] /\ IsPercentages(weights)
  /\ mode \in Modes
  /\ configured \in BOOLEAN
  /\ queues \in [Priorities -> Seq(Packets)]
  /\ sent \in [Priorities -> Nat]
  /\ tracked \subseteq Priorities
  /\ \A p \in Priorities \ tracked : sent[p] = 0
  /\ cycleBudget \in 0 .. UintMod - 1
  /\ budgets \in [Priorities -> 0 .. UintMod - 1]
  /\ shareBase \in 0 .. UintMod - 1

\* No priority has sent more than its budget in a cycle, whatever order the
\* configuration calls and the traffic come in: the unsigned subtraction in
\* Dequeue never wraps to a huge remaining budget.
SentWithinBudget == \A p \in Priorities : sent[p] <= budgets[p]

\* The budgets in force were cut from one cycle and fit in it.
SharesWithinCycle == budgets[0] + budgets[1] + budgets[2] + budgets[3] <= shareBase

\* The inductive invariant behind the bounds below.
QueueInv == TypeOK /\ SentWithinBudget /\ SharesWithinCycle

\* All priorities together send at most the cycle budget their shares were
\* cut from before the counters are reset.
CycleNotOversubscribed == BytesSent <= shareBase

\* When the shares were cut from the cycle budget in force, Dequeue starts a
\* new cycle only after every priority has sent exactly its whole share.
CycleEndsWhenSharesSpent ==
  [][(StartCycle /\ shareBase = cycleBudget) => sent = budgets]_vars

\* The queue implements per-priority FIFO service in strict priority order,
\* each priority within its share, in unbounded arithmetic.
Scheduler == INSTANCE ShareScheduler
  WITH waiting <- queues, used <- sent, share <- budgets
ImplementsShareScheduler == Scheduler!Spec

=============================================================================
