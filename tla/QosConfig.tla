------------------------------ MODULE QosConfig ------------------------------
(***************************************************************************)
(* The QoS configuration object of the simulation: QosConfig               *)
(* (priority/qos-config.cc) and its subclass UavQosConfig                  *)
(* (uav/uav-qos-config.cc), which adds the operation modes.  The object is *)
(* shared by pointer: a PriorityTxQueue holds a Ptr to it and is not told  *)
(* when it changes.                                                        *)
(*                                                                         *)
(* Every weight vector in the code has four entries, one per value of the  *)
(* Priority enumeration, so the number of priorities is four here.         *)
(***************************************************************************)
EXTENDS Integers, Sequences

CONSTANT WeightVectors  \* what callers pass to SetQueueWeights themselves

VARIABLES
  weights,   \* QosConfig::m_weights, a percentage per priority
  mode       \* UavQosConfig::m_currentMode

(***************************************************************************)
(* Priorities are 0 (PRIO_CRITICAL) to 3 (PRIO_LOW); lower is more urgent. *)
(***************************************************************************)
GetNumPriorities == 4
Priorities == 0 .. GetNumPriorities - 1

Modes == {"NORMAL", "EMERGENCY", "LOW_BANDWIDTH", "HIGH_QUALITY_VIDEO"}

\* The header asks callers for weights that add up to 100 and does not check it.
IsPercentages(w) ==
  /\ w \in [1 .. GetNumPriorities -> Nat]
  /\ w[1] + w[2] + w[3] + w[4] = 100

ASSUME WeightsAssumption == \A w \in WeightVectors : IsPercentages(w)

DefaultWeights == << 50, 30, 15, 5 >>

ModeWeights ==
  [NORMAL             |-> << 50, 25, 15, 10 >>,
   EMERGENCY          |-> << 70, 20, 5, 5 >>,
   LOW_BANDWIDTH      |-> << 40, 30, 20, 10 >>,
   HIGH_QUALITY_VIDEO |-> << 20, 20, 35, 25 >>]

GetPriorityBandwidth(p) == weights[p + 1]

-----------------------------------------------------------------------------

\* The UavQosConfig constructor: mode NORMAL, the weights of the base class.
QosInit ==
  /\ weights = DefaultWeights
  /\ mode = "NORMAL"

SetQueueWeights(w) ==
  /\ weights' = w
  /\ mode' = mode

SetOperationMode(m) ==
  /\ mode' = m
  /\ weights' = ModeWeights[m]

=============================================================================
