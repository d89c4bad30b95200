----------------------------- MODULE QueuedLink ------------------------------
(***************************************************************************)
(* A PriorityTxQueue in place of a network device's transmit queue, as     *)
(* test_congestion.cc installs it, under steady traffic.  The device is    *)
(* ns-3's PointToPointNetDevice: it asks the queue for a packet when one    *)
(* arrives and the line is idle, and again when a transmission completes,  *)
(* and at no other time.  TransmitComplete takes a nullptr to mean that    *)
(* there is nothing to send, and the line is idle until the next arrival;  *)
(* Send has just enqueued a packet and uses what Dequeue returns without a *)
(* test, so that a nullptr in answer to an arrival ends the program.       *)
(*                                                                         *)
(* The configuration is that of a driver program; once traffic runs, its   *)
(* owner may switch the mode.  The configuration object and the queue are  *)
(* told in separate calls, and until the second one the queue goes on with *)
(* its old shares.  Each source sends packets of one class and one size.   *)
(***************************************************************************)
EXTENDS PriorityTxQueue

CONSTANTS
  Sources,       \* the classes that have an application sending packets
  PacketSize,    \* the size of a packet of each class
  SetupWeights,  \* the weights when SetQosConfig is called
  SetupMode,     \* the operation mode when SetQosConfig is called
  SharesFrom,    \* m_cycleBudget when SetQosConfig is called
  CycleInForce,  \* m_cycleBudget when traffic starts
  MaxSwitches    \* bound of the model on mode switches under traffic

ASSUME LinkAssumption ==
  /\ Sources \subseteq Priorities
  /\ IsPercentages(SetupWeights)
  /\ SetupMode \in Modes
  /\ {SharesFrom, CycleInForce} \subseteq CycleBudgets \cup {DefaultCycleBudget}
  /\ \A p \in Sources : [tag |-> p, size |-> PacketSize[p]] \in Packets
  /\ MaxSwitches \in Nat

VARIABLES
  line,  \* idle, busy, asking the queue on an arrival or on completion, crashed
  calls  \* configuration calls made under traffic, two for each switch

linkVars == << vars, line, calls >>

LinkInit ==
  /\ weights = SetupWeights
  /\ mode = SetupMode
  /\ configured = TRUE
  /\ queues = [p \in Priorities |-> << >>]
  /\ sent = Zero
  /\ tracked = {}
  /\ cycleBudget = CycleInForce
  /\ budgets = [p \in Priorities |-> ByteShare(p, SharesFrom)]
  /\ shareBase = SharesFrom
  /\ line = "idle"
  /\ calls = 0

\* The device calls Dequeue within an event; other events come between.
BetweenEvents == line \in {"idle", "busy"}

\* A source sends.  At the bound MaxQueued the sub-queue stops growing, but
\* the arrival still makes an idle line ask.
Send(p) ==
  /\ BetweenEvents
  /\ \/ Enqueue([tag |-> p, size |-> PacketSize[p]])
     \/ Len(queues[p]) = MaxQueued /\ UNCHANGED vars
  /\ line' = IF line = "idle" THEN "arrival" ELSE line
  /\ UNCHANGED calls

\* The device's Dequeue call and what it does with the answer.
Ask ==
  /\ line \in {"arrival", "completed"}
  /\ Dequeue
  /\ line' = CASE queues' # queues -> "busy"
               [] queues' = queues /\ line = "completed" -> "idle"
               [] queues' = queues /\ line = "arrival" -> "crashed"
  /\ UNCHANGED calls

TransmitComplete ==
  /\ line = "busy"
  /\ line' = "completed"
  /\ UNCHANGED << vars, calls >>

\* SetOperationMode (or SetQueueWeights), later SetQosConfig, both in the middle
\* of a cycle.
Configure ==
  /\ calls < 2 * MaxSwitches
  /\ BetweenEvents
  /\ IF calls % 2 = 0 THEN Reconfigure ELSE SetQosConfig
  /\ calls' = calls + 1
  /\ UNCHANGED line

LinkNext ==
  \/ \E p \in Sources : Send(p)
  \/ Ask
  \/ TransmitComplete
  \/ Configure

\* Sources are periodic (UavTelemetry, UavCommand, the video server and
\* SendCriticalPacket all reschedule themselves) and transmissions complete.
\* A source's next event comes between the device's, again and again.
LinkSpec ==
  /\ LinkInit
  /\ [][LinkNext]_linkVars
  /\ WF_linkVars(Ask)
  /\ WF_linkVars(TransmitComplete)
  /\ \A p \in Sources : SF_linkVars(Send(p))

-----------------------------------------------------------------------------

\* Documented (class comment of PriorityTxQueue): weighted fair queuing, the
\* sub-queues are serviced according to their weights.  A packet waits while its
\* class has spent its share and another class has not; when the classes that
\* send have all had their shares, a new cycle serves them again.  So a packet
\* that is refused on arrival is refused for the sake of another class.
RefusedOnlyForOthers == line = "crashed" => \E p \in Sources : sent[p] < budgets[p]

\* The nullptr with which Dequeue ends a cycle, although packets wait and their
\* classes have new shares, is never the answer to an arrival: an idle line has
\* bytes of the cycle left, however it came to be idle and whatever has been
\* reconfigured since.
CycleEndsOnCompletion == line = "arrival" => BytesSent < cycleBudget

\* A class that keeps sending is served again and again, cycle after cycle and
\* whatever the shares were changed to on the way, as long as the device lives:
\* a source that spends its share ahead of the others brings it down.
EveryClassServed == \A p \in Sources : []<><<Ask /\ Serve(p)>>_linkVars
ServedUnlessCrashed == [](line # "crashed") => EveryClassServed

=============================================================================
