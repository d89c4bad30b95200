----------------------------- MODULE FlowMetrics -----------------------------
(***************************************************************************)
(* The flow statistics the drivers print: CheckMetrics (test_zmq.cc), for  *)
(* the interval since its last call, and ReportRealTimeMetrics (test.cc),  *)
(* for the whole simulation.  The counters they read are ns-3's            *)
(* FlowMonitor's; each flow is treated alike, so the model has one.        *)
(*                                                                         *)
(* What a call prints is an operator on the counters and the values kept   *)
(* by the call before, so the invariants speak of what a call would print  *)
(* in any state.  A quotient of two doubles is kept as << sum, count >>.   *)
(***************************************************************************)
EXTENDS Integers, FiniteSetsExt

CONSTANTS
  Delays,     \* the delays a packet may have
  MaxPackets  \* bound of the model on packets transmitted

ASSUME MetricsAssumption == Delays \subseteq Nat /\ MaxPackets \in Nat

VARIABLES
  stat,          \* FlowMonitor::FlowStats of the flow
  lastDelay,     \* the delay of the packet received last
  prev,          \* prevTxPackets, prevRxPackets, ... of CheckMetrics
  delays,        \* history: the delays since the start, since the last check
  jitters        \* history: the jitter samples, likewise

metricsVars == << stat, lastDelay, prev, delays, jitters >>

NoStats == [tx |-> 0, rx |-> 0, lost |-> 0, delaySum |-> 0, jitterSum |-> 0]
NotKept == [tx |-> -1]

MetricsInit ==
  /\ stat = NoStats
  /\ lastDelay = 0
  /\ prev = NotKept
  /\ delays = [total |-> {}, interval |-> {}]
  /\ jitters = [total |-> {}, interval |-> {}]

Flying == stat.tx - stat.rx - stat.lost
Distance(a, b) == IF a < b THEN b - a ELSE a - b
Sampled(history, x) == [w \in {"total", "interval"} |-> history[w] \cup {x}]

-----------------------------------------------------------------------------
(***************************************************************************)
(* FlowMonitor.  There is a jitter sample from the second packet on.  A    *)
(* packet that does not arrive is declared lost some time later, by a      *)
(* check that FlowMonitor makes itself or that a driver asks for.          *)
(***************************************************************************)
Transmit ==
  /\ stat.tx < MaxPackets
  /\ stat' = [stat EXCEPT !.tx = @ + 1]
  /\ UNCHANGED << lastDelay, prev, delays, jitters >>

ReceivePacket(delay) ==
  /\ Flying > 0
  /\ LET jitter == IF stat.rx > 0 THEN Distance(delay, lastDelay) ELSE 0
     IN  /\ stat' = [stat EXCEPT !.rx = @ + 1, !.delaySum = @ + delay,
                                 !.jitterSum = @ + jitter]
         /\ jitters' = IF stat.rx > 0 THEN Sampled(jitters, jitter) ELSE jitters
  /\ lastDelay' = delay
  /\ delays' = Sampled(delays, delay)
  /\ UNCHANGED prev

CheckForLostPackets ==
  /\ \E n \in 0 .. Flying : stat' = [stat EXCEPT !.lost = @ + n]
  /\ UNCHANGED << lastDelay, prev, delays, jitters >>

-----------------------------------------------------------------------------
(***************************************************************************)
(* CheckMetrics: the first call that sees the flow keeps its counters and  *)
(* prints nothing; a later one prints the differences and keeps the new.   *)
(***************************************************************************)
KeepOldJitter ==
  /\ stat.tx > 0
  /\ prev' = IF prev = NotKept THEN stat ELSE [stat EXCEPT !.jitterSum = prev.jitterSum]
  /\ delays' = [delays EXCEPT !["interval"] = {}]
  /\ jitters' = [jitters EXCEPT !["interval"] = {}]
  /\ UNCHANGED << stat, lastDelay >>

KeepOldDelay ==
  /\ stat.tx > 0
  /\ prev' = IF prev = NotKept THEN stat ELSE [stat EXCEPT !.delaySum = prev.delaySum]
  /\ delays' = [delays EXCEPT !["interval"] = {}]
  /\ jitters' = [jitters EXCEPT !["interval"] = {}]
  /\ UNCHANGED << stat, lastDelay >>

CheckMetrics ==
  /\ stat.tx > 0
  /\ prev' = stat
  /\ delays' = [delays EXCEPT !["interval"] = {}]
  /\ jitters' = [jitters EXCEPT !["interval"] = {}]
  /\ UNCHANGED << stat, lastDelay >>

Prints == prev # NotKept
Rx == stat.rx - prev.rx
AvgDelay == IF Rx > 0 THEN << stat.delaySum - prev.delaySum, Rx >> ELSE << 0, 1 >>
AvgJitter == IF Rx > 1 THEN << stat.jitterSum - prev.jitterSum, Rx - 1 >> ELSE << 0, 1 >>

(***************************************************************************)
(* ReportRealTimeMetrics: microseconds in integer division, over the whole *)
(* simulation.                                                             *)
(***************************************************************************)
ReportRealTimeMetrics == CheckForLostPackets

MeanDelay == IF stat.rx <= 1 THEN stat.delaySum ELSE stat.delaySum \div stat.rx

MeanOverPackets ==
  IF stat.rx <= 1 THEN stat.jitterSum ELSE stat.jitterSum \div stat.rx

MeanJitter ==
  IF stat.rx <= 1 THEN stat.jitterSum ELSE stat.jitterSum \div (stat.rx - 1)

MetricsNext ==
  \/ Transmit
  \/ \E d \in Delays : ReceivePacket(d)
  \/ ReportRealTimeMetrics
  \/ CheckMetrics

MetricsSpec == MetricsInit /\ [][MetricsNext]_metricsVars

-----------------------------------------------------------------------------
(***************************************************************************)
(* Properties.                                                             *)
(***************************************************************************)

\* A quotient lies between the least and the largest of the samples.
IsAverageOf(q, samples) == Min(samples) * q[2] <= q[1] /\ q[1] <= Max(samples) * q[2]

\* The means of ReportRealTimeMetrics lie within what was measured, for any
\* number of packets, the first ones included.
MeansWithinSamples ==
  /\ delays.total # {} => IsAverageOf(<< MeanDelay, 1 >>, delays.total)
  /\ jitters.total # {} => IsAverageOf(<< MeanJitter, 1 >>, jitters.total)

\* The average delay of CheckMetrics lies within the delays of the packets
\* received since the call before.
IntervalDelayWithinSamples ==
  Prints /\ delays.interval # {} => IsAverageOf(AvgDelay, delays.interval)

\* The average jitter of CheckMetrics has one divisor too few after the first
\* interval, but whatever the interval it is at most twice the largest sample
\* since the call before: no older sample is counted again.
IntervalJitterAtMostDoubled ==
  Prints /\ jitters.interval # {} =>
    AvgJitter[1] <= 2 * Max(jitters.interval) * AvgJitter[2]

=============================================================================
