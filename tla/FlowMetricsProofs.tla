-------------------------- MODULE FlowMetricsProofs --------------------------
(***************************************************************************)
(* Theorems about what CheckMetrics and ReportRealTimeMetrics print, for   *)
(* any set of delays and any number of packets.                            *)
(***************************************************************************)
EXTENDS FlowMetrics, WellFoundedInduction, TLAPS

-----------------------------------------------------------------------------
(***************************************************************************)
(* Sums and their samples.                                                 *)
(***************************************************************************)

\* The sum of n numbers whose values are those in samples: there is a largest
\* one, and with any bounds of the samples the sum has n times these bounds.
SumsUp(samples, n, sum) ==
  /\ samples \in SUBSET Nat /\ n \in Nat /\ sum \in Nat
  /\ n = 0 => samples = {}
  /\ \E b \in Nat : \A x \in samples : x <= b
  /\ \A lo, hi \in Nat :
       (\A x \in samples : lo <= x /\ x <= hi) => lo * n <= sum /\ sum <= hi * n

\* No samples have the sum 0.
LEMMA NothingSumsUp == SumsUp({}, 0, 0)
<1>1. ASSUME NEW lo \in Nat, NEW hi \in Nat PROVE lo * 0 <= 0 /\ 0 <= hi * 0
  OBVIOUS
<1> QED BY <1>1 DEF SumsUp

\* One more sample.
LEMMA AnotherSample ==
  ASSUME NEW samples, NEW n, NEW sum, SumsUp(samples, n, sum), NEW x \in Nat
  PROVE  SumsUp(samples \cup {x}, n + 1, sum + x)
<1> DEFINE more == samples \cup {x}
<1>1. more \in SUBSET Nat /\ n + 1 \in Nat /\ sum + x \in Nat /\ n + 1 # 0
  BY DEF SumsUp
<1>2. \E b \in Nat : \A y \in more : y <= b
  <2>1. PICK b \in Nat : \A y \in samples : y <= b
    BY DEF SumsUp
  <2>2. CASE x <= b
    BY <2>1, <2>2
  <2>3. CASE b < x
    <3>1. \A y \in samples : y \in Nat /\ y <= x
      BY <2>1, <2>3 DEF SumsUp
    <3> QED BY <3>1
  <2> QED BY <2>2, <2>3
<1>3. ASSUME NEW lo \in Nat, NEW hi \in Nat, \A y \in more : lo <= y /\ y <= hi
      PROVE  lo * (n + 1) <= sum + x /\ sum + x <= hi * (n + 1)
  <2>1. n \in Nat /\ sum \in Nat /\ lo * n <= sum /\ sum <= hi * n
    BY <1>3 DEF SumsUp
  <2>2. lo <= x /\ x <= hi
    BY <1>3
  <2>3. lo * (n + 1) = lo * n + lo /\ hi * (n + 1) = hi * n + hi
    BY <2>1
  <2>4. lo * n \in Nat /\ hi * n \in Nat
    BY <2>1
  <2> QED BY <2>1, <2>2, <2>3, <2>4
<1> QED BY <1>1, <1>2, <1>3 DEF SumsUp

\* A set of naturals has a least member.
LEMMA MinBounds ==
  ASSUME NEW samples \in SUBSET Nat, samples # {}
  PROVE  Min(samples) \in samples /\ \A x \in samples : Min(samples) <= x
<1>1. PICK m \in samples : \A y \in samples : ~(<< y, m >> \in OpToRel(<, Nat))
  BY NatLessThanWellFounded, WFMin
<1>2. ASSUME NEW y \in samples PROVE m <= y
  <2>1. ~(y < m)
    BY <1>1 DEF OpToRel
  <2> QED BY <2>1
<1> QED BY <1>2 DEF Min

\* A bounded set of naturals has a largest member: the least of its bounds.
LEMMA MaxBounds ==
  ASSUME NEW samples \in SUBSET Nat, samples # {}, \E b \in Nat : \A x \in samples : x <= b
  PROVE  Max(samples) \in samples /\ \A x \in samples : x <= Max(samples)
<1> DEFINE bounds == {b \in Nat : \A x \in samples : x <= b}
<1>1. Min(bounds) \in bounds /\ \A b \in bounds : Min(bounds) <= b
  <2>1. bounds \in SUBSET Nat /\ bounds # {}
    OBVIOUS
  <2> QED BY <2>1, MinBounds
<1> DEFINE m == Min(bounds)
<1>2. m \in Nat /\ \A x \in samples : x <= m
  BY <1>1
<1>3. m \in samples
  <2>1. SUFFICES ASSUME m \notin samples PROVE FALSE
    OBVIOUS
  <2>2. \A x \in samples : x \in Nat /\ x <= m - 1
    <3> HIDE DEF m
    <3> QED BY <1>2, <2>1
  <2>3. m - 1 \in bounds
    <3>1. PICK x \in Nat : x <= m - 1
      BY <2>2
    <3>2. m - 1 \in Nat
      <4> HIDE DEF m
      <4> QED BY <1>2, <3>1
    <3> QED BY <2>2, <3>2
  <2>4. m <= m - 1
    BY <1>1, <2>3
  <2> HIDE DEF m
  <2> QED BY <1>2, <2>4
<1> HIDE DEF m
<1> QED BY <1>2, <1>3 DEF Max

\* The bounds of IsAverageOf.
LEMMA SumBetweenExtremes ==
  ASSUME NEW samples, NEW n, NEW sum, SumsUp(samples, n, sum), samples # {}
  PROVE  /\ n \in Nat /\ n # 0 /\ sum \in Nat
         /\ Min(samples) \in Nat /\ Max(samples) \in Nat
         /\ Min(samples) * n <= sum /\ sum <= Max(samples) * n
<1>1. samples \in SUBSET Nat /\ n \in Nat /\ n # 0 /\ sum \in Nat
  BY DEF SumsUp
<1>2. Min(samples) \in samples /\ \A x \in samples : Min(samples) <= x
  BY <1>1, MinBounds
<1>3. Max(samples) \in samples /\ \A x \in samples : x <= Max(samples)
  BY <1>1, MaxBounds DEF SumsUp
<1>4. Min(samples) \in Nat /\ Max(samples) \in Nat
  BY <1>1, <1>2, <1>3
<1>5. Min(samples) * n <= sum /\ sum <= Max(samples) * n
  BY <1>2, <1>3, <1>4 DEF SumsUp
<1> QED BY <1>1, <1>4, <1>5

\* Integer division keeps a quotient between bounds of its dividend.
LEMMA QuotientBetween ==
  ASSUME NEW lo \in Nat, NEW hi \in Nat, NEW n \in Nat \ {0}, NEW sum \in Nat,
         lo * n <= sum, sum <= hi * n
  PROVE  lo <= sum \div n /\ sum \div n <= hi
<1> DEFINE q == sum \div n
<1>1. q \in Int /\ n * q <= sum /\ sum < n * q + n
  <2>1. q \in Int
    OBVIOUS
  <2> QED BY <2>1, SMTT(30)
<1> HIDE DEF q
<1>2. ASSUME NEW a \in Int, NEW b \in Int, a < b PROVE a * n + n <= b * n
  <2>1. PICK k \in Nat : b = a + 1 + k
    <3>1. b - a - 1 \in Nat
      BY <1>2
    <3> QED BY <3>1
  <2>2. b * n = a * n + n + k * n
    BY <2>1
  <2>3. k * n \in Nat
    BY <2>1
  <2> QED BY <2>2, <2>3
<1>3. ~(q < lo)
  BY <1>1, <1>2
<1>4. ~(hi < q)
  BY <1>1, <1>2
<1> QED BY <1>1, <1>3, <1>4 DEF q

-----------------------------------------------------------------------------
(***************************************************************************)
(* The inductive invariant: FlowMonitor's sums are those of the samples,   *)
(* and the differences of CheckMetrics are those of the samples since its  *)
(* call before.  The first packet of the flow brings a delay but no        *)
(* jitter, whenever it arrives.                                            *)
(***************************************************************************)
Stats == [tx : Nat, rx : Nat, lost : Nat, delaySum : Nat, jitterSum : Nat]
JitterSamples(s) == IF s.rx = 0 THEN 0 ELSE s.rx - 1

MetricsTypes ==
  /\ stat \in Stats
  /\ lastDelay \in Nat
  /\ Prints => prev \in Stats /\ prev.rx <= stat.rx
  /\ DOMAIN delays = {"total", "interval"} /\ DOMAIN jitters = {"total", "interval"}

TotalsSumUp ==
  /\ SumsUp(delays["total"], stat.rx, stat.delaySum)
  /\ SumsUp(jitters["total"], JitterSamples(stat), stat.jitterSum)

IntervalSumsUp ==
  Prints =>
    /\ SumsUp(delays["interval"], stat.rx - prev.rx, stat.delaySum - prev.delaySum)
    /\ SumsUp(jitters["interval"], JitterSamples(stat) - JitterSamples(prev),
              stat.jitterSum - prev.jitterSum)

MetricsInv == MetricsTypes /\ TotalsSumUp /\ IntervalSumsUp

\* It holds in the beginning.
LEMMA MetricsInvInit == MetricsInit => MetricsInv
<1> SUFFICES ASSUME MetricsInit PROVE MetricsInv
  OBVIOUS
<1>1. MetricsTypes
  BY DEF MetricsInit, MetricsTypes, Stats, NoStats, Prints
<1>2. TotalsSumUp
  BY NothingSumsUp DEF MetricsInit, TotalsSumUp, NoStats, JitterSamples
<1>3. IntervalSumsUp
  BY DEF MetricsInit, IntervalSumsUp, Prints
<1> QED BY <1>1, <1>2, <1>3 DEF MetricsInv

\* A packet received adds its delay, and its jitter unless it is the first.
LEMMA ReceivePacketSumsUp ==
  ASSUME MetricsInv, NEW d \in Delays, ReceivePacket(d)
  PROVE  MetricsInv'
<1> DEFINE j == IF stat.rx > 0 THEN Distance(d, lastDelay) ELSE 0
<1>1. d \in Nat
  BY MetricsAssumption
<1>2. /\ stat \in Stats /\ lastDelay \in Nat
      /\ prev' = prev /\ lastDelay' = d
      /\ DOMAIN delays = {"total", "interval"} /\ DOMAIN jitters = {"total", "interval"}
  BY DEF MetricsInv, MetricsTypes, ReceivePacket
<1>3. j \in Nat /\ (stat.rx = 0 => j = 0)
  BY <1>1, <1>2 DEF Distance, Stats
<1>4. stat' = [stat EXCEPT !.rx = @ + 1, !.delaySum = @ + d, !.jitterSum = @ + j]
  BY DEF ReceivePacket
<1> HIDE DEF j
<1>5. /\ stat' \in Stats /\ stat'.rx = stat.rx + 1
      /\ stat'.delaySum = stat.delaySum + d /\ stat'.jitterSum = stat.jitterSum + j
  <2>1. /\ stat.rx + 1 \in Nat /\ stat.delaySum + d \in Nat /\ stat.jitterSum + j \in Nat
    BY <1>1, <1>2, <1>3 DEF Stats
  <2>2. stat' \in Stats
    BY <1>2, <1>4, <2>1 DEF Stats
  <2>3. /\ stat'.rx = stat.rx + 1
        /\ stat'.delaySum = stat.delaySum + d /\ stat'.jitterSum = stat.jitterSum + j
    BY <1>2, <1>4 DEF Stats
  <2> QED BY <2>2, <2>3
<1>6. \A w \in {"total", "interval"} : delays'[w] = delays[w] \cup {d}
  BY DEF ReceivePacket, Sampled
<1>7. IF stat.rx > 0
        THEN \A w \in {"total", "interval"} : jitters'[w] = jitters[w] \cup {j}
        ELSE jitters' = jitters
  BY DEF ReceivePacket, Sampled, j
<1>8. DOMAIN delays' = {"total", "interval"} /\ DOMAIN jitters' = {"total", "interval"}
  BY <1>2 DEF ReceivePacket, Sampled
<1>9. IF stat.rx > 0 THEN JitterSamples(stat') = JitterSamples(stat) + 1
                     ELSE JitterSamples(stat') = JitterSamples(stat)
  BY <1>2, <1>5 DEF JitterSamples, Stats
<1>10. MetricsTypes'
  <2>1. Prints' => prev \in Stats /\ prev.rx <= stat.rx
    BY <1>2 DEF MetricsInv, MetricsTypes, Prints
  <2>2. Prints' => prev.rx <= stat'.rx
    BY <1>2, <1>5, <2>1 DEF Stats
  <2> QED BY <1>1, <1>2, <1>5, <1>8, <2>1, <2>2 DEF MetricsTypes
<1>11. TotalsSumUp'
  <2>1. SumsUp(delays["total"], stat.rx, stat.delaySum)
        /\ SumsUp(jitters["total"], JitterSamples(stat), stat.jitterSum)
    BY DEF MetricsInv, TotalsSumUp
  <2>2. SumsUp(delays'["total"], stat'.rx, stat'.delaySum)
    BY <1>1, <1>5, <1>6, <2>1, AnotherSample
  <2>3. SumsUp(jitters'["total"], JitterSamples(stat'), stat'.jitterSum)
    <3>1. CASE stat.rx > 0
      BY <1>3, <1>5, <1>7, <1>9, <2>1, <3>1, AnotherSample
    <3>2. CASE ~(stat.rx > 0)
      <4>1. stat.rx = 0 /\ stat.jitterSum \in Nat
        BY <1>2, <3>2 DEF Stats
      <4>2. stat'.jitterSum = stat.jitterSum
        BY <1>3, <1>5, <4>1
      <4> QED BY <1>7, <1>9, <2>1, <3>2, <4>2
    <3> QED BY <3>1, <3>2
  <2> QED BY <2>2, <2>3 DEF TotalsSumUp
<1>12. IntervalSumsUp'
  <2> SUFFICES ASSUME Prints'
               PROVE  /\ SumsUp(delays'["interval"], stat'.rx - prev.rx,
                                stat'.delaySum - prev.delaySum)
                      /\ SumsUp(jitters'["interval"],
                                JitterSamples(stat') - JitterSamples(prev),
                                stat'.jitterSum - prev.jitterSum)
    BY <1>2 DEF IntervalSumsUp
  <2>1. /\ prev \in Stats
        /\ SumsUp(delays["interval"], stat.rx - prev.rx, stat.delaySum - prev.delaySum)
        /\ SumsUp(jitters["interval"], JitterSamples(stat) - JitterSamples(prev),
                  stat.jitterSum - prev.jitterSum)
    BY <1>2 DEF MetricsInv, MetricsTypes, IntervalSumsUp, Prints
  <2>2. JitterSamples(stat) \in Int /\ JitterSamples(prev) \in Int
    BY <1>2, <2>1 DEF JitterSamples, Stats
  <2>3. SumsUp(delays'["interval"], stat'.rx - prev.rx, stat'.delaySum - prev.delaySum)
    <3>1. /\ stat'.rx - prev.rx = (stat.rx - prev.rx) + 1
          /\ stat'.delaySum - prev.delaySum = (stat.delaySum - prev.delaySum) + d
      BY <1>1, <1>2, <1>5, <2>1 DEF Stats
    <3> QED BY <1>1, <1>6, <2>1, <3>1, AnotherSample
  <2>4. stat'.jitterSum - prev.jitterSum = (stat.jitterSum - prev.jitterSum) + j
    BY <1>2, <1>3, <1>5, <2>1 DEF Stats
  <2>5. CASE stat.rx > 0
    <3>1. JitterSamples(stat') - JitterSamples(prev)
            = (JitterSamples(stat) - JitterSamples(prev)) + 1
      BY <1>9, <2>2, <2>5
    <3>2. SumsUp(jitters'["interval"], JitterSamples(stat') - JitterSamples(prev),
                 stat'.jitterSum - prev.jitterSum)
      BY <1>3, <1>7, <2>1, <2>4, <2>5, <3>1, AnotherSample
    <3> QED BY <2>3, <3>2
  <2>6. CASE ~(stat.rx > 0)
    <3>1. stat.rx = 0 /\ stat.jitterSum \in Nat /\ prev.jitterSum \in Nat
      BY <1>2, <2>1, <2>6 DEF Stats
    <3>2. stat'.jitterSum - prev.jitterSum = stat.jitterSum - prev.jitterSum
      BY <1>3, <1>5, <3>1
    <3>3. JitterSamples(stat') = JitterSamples(stat) /\ jitters' = jitters
      BY <1>7, <1>9, <2>6
    <3>4. SumsUp(jitters'["interval"], JitterSamples(stat') - JitterSamples(prev),
                 stat'.jitterSum - prev.jitterSum)
      BY <2>1, <3>2, <3>3
    <3> QED BY <2>3, <3>4
  <2> QED BY <2>5, <2>6
<1> QED BY <1>10, <1>11, <1>12 DEF MetricsInv

\* A step that leaves what the sums are made of.
LEMMA SumsUnchanged ==
  ASSUME MetricsInv, stat' \in Stats, stat'.rx = stat.rx, stat'.delaySum = stat.delaySum,
         stat'.jitterSum = stat.jitterSum, UNCHANGED << lastDelay, prev, delays, jitters >>
  PROVE  MetricsInv'
<1>1. MetricsTypes'
  BY DEF MetricsInv, MetricsTypes, Prints
<1>2. TotalsSumUp'
  BY DEF MetricsInv, TotalsSumUp, JitterSamples
<1>3. IntervalSumsUp'
  BY DEF MetricsInv, IntervalSumsUp, JitterSamples, Prints
<1> QED BY <1>1, <1>2, <1>3 DEF MetricsInv

\* Every step keeps the invariant.
LEMMA MetricsInvStep == MetricsInv /\ [MetricsNext]_metricsVars => MetricsInv'
<1> SUFFICES ASSUME MetricsInv, [MetricsNext]_metricsVars PROVE MetricsInv'
  OBVIOUS
<1>1. stat \in Stats
  BY DEF MetricsInv, MetricsTypes
<1>2. CASE Transmit
  <2>1. /\ stat' \in Stats /\ stat'.rx = stat.rx /\ stat'.delaySum = stat.delaySum
        /\ stat'.jitterSum = stat.jitterSum
    BY <1>1, <1>2 DEF Transmit, Stats
  <2> QED BY <1>2, <2>1, SumsUnchanged DEF Transmit
<1>3. CASE \E d \in Delays : ReceivePacket(d)
  BY <1>3, ReceivePacketSumsUp
<1>4. CASE ReportRealTimeMetrics
  <2>1. /\ stat' \in Stats /\ stat'.rx = stat.rx /\ stat'.delaySum = stat.delaySum
        /\ stat'.jitterSum = stat.jitterSum
    BY <1>1, <1>4 DEF ReportRealTimeMetrics, CheckForLostPackets, Flying, Stats
  <2> QED BY <1>4, <2>1, SumsUnchanged DEF ReportRealTimeMetrics, CheckForLostPackets
<1>5. CASE CheckMetrics
  <2>1. /\ prev' = stat /\ stat' = stat /\ lastDelay' = lastDelay
        /\ DOMAIN delays' = {"total", "interval"} /\ DOMAIN jitters' = {"total", "interval"}
        /\ delays'["total"] = delays["total"] /\ delays'["interval"] = {}
        /\ jitters'["total"] = jitters["total"] /\ jitters'["interval"] = {}
    BY <1>5 DEF CheckMetrics, MetricsInv, MetricsTypes
  <2>2. MetricsTypes'
    BY <2>1 DEF MetricsInv, MetricsTypes, Prints, Stats
  <2>3. TotalsSumUp'
    BY <2>1 DEF MetricsInv, TotalsSumUp, JitterSamples
  <2>4. /\ stat.rx - stat.rx = 0 /\ stat.delaySum - stat.delaySum = 0
        /\ stat.jitterSum - stat.jitterSum = 0
        /\ JitterSamples(stat) - JitterSamples(stat) = 0
    BY <1>1 DEF Stats, JitterSamples
  <2>5. IntervalSumsUp'
    BY <2>1, <2>4, NothingSumsUp DEF IntervalSumsUp, JitterSamples
  <2> QED BY <2>2, <2>3, <2>5 DEF MetricsInv
<1>6. CASE UNCHANGED metricsVars
  BY <1>1, <1>6, SumsUnchanged DEF metricsVars
<1> QED BY <1>2, <1>3, <1>4, <1>5, <1>6 DEF MetricsNext

\* The sums are those of the samples in every state.
THEOREM MetricsInvariant == MetricsSpec => []MetricsInv
BY MetricsInvInit, MetricsInvStep, PTL DEF MetricsSpec

-----------------------------------------------------------------------------
(***************************************************************************)
(* What is printed.                                                        *)
(***************************************************************************)

\* The means of ReportRealTimeMetrics lie within what was measured, the
\* integer division and the first packets included.
THEOREM MeansLieWithin == MetricsSpec => []MeansWithinSamples
<1>1. MetricsInv => MeansWithinSamples
  <2> SUFFICES ASSUME MetricsInv PROVE MeansWithinSamples
    OBVIOUS
  <2> DEFINE n == JitterSamples(stat)
  <2>1. /\ stat \in Stats
        /\ SumsUp(delays["total"], stat.rx, stat.delaySum)
        /\ SumsUp(jitters["total"], n, stat.jitterSum)
    BY DEF MetricsInv, MetricsTypes, TotalsSumUp
  <2>2. ASSUME delays["total"] # {} PROVE IsAverageOf(<< MeanDelay, 1 >>, delays["total"])
    <3>1. /\ stat.rx \in Nat /\ stat.rx # 0 /\ stat.delaySum \in Nat
          /\ Min(delays["total"]) \in Nat /\ Max(delays["total"]) \in Nat
          /\ Min(delays["total"]) * stat.rx <= stat.delaySum
          /\ stat.delaySum <= Max(delays["total"]) * stat.rx
      BY <2>1, <2>2, SumBetweenExtremes
    <3>2. Min(delays["total"]) <= MeanDelay /\ MeanDelay <= Max(delays["total"])
      <4>1. CASE stat.rx <= 1
        BY <3>1, <4>1 DEF MeanDelay
      <4>2. CASE ~(stat.rx <= 1)
        BY <3>1, <4>2, QuotientBetween DEF MeanDelay
      <4> QED BY <4>1, <4>2
    <3>3. MeanDelay \in Int
      BY <3>1 DEF MeanDelay
    <3> QED BY <3>1, <3>2, <3>3 DEF IsAverageOf
  <2>3. ASSUME jitters["total"] # {} PROVE IsAverageOf(<< MeanJitter, 1 >>, jitters["total"])
    <3>1. /\ n \in Nat /\ n # 0 /\ stat.jitterSum \in Nat
          /\ Min(jitters["total"]) \in Nat /\ Max(jitters["total"]) \in Nat
          /\ Min(jitters["total"]) * n <= stat.jitterSum
          /\ stat.jitterSum <= Max(jitters["total"]) * n
      BY <2>1, <2>3, SumBetweenExtremes
    <3>2. n = stat.rx - 1 /\ ~(stat.rx <= 1)
      BY <2>1, <3>1 DEF JitterSamples, Stats
    <3>3. MeanJitter = stat.jitterSum \div n
      BY <3>2 DEF MeanJitter
    <3> HIDE DEF n
    <3>4. Min(jitters["total"]) <= MeanJitter /\ MeanJitter <= Max(jitters["total"])
      BY <3>1, <3>3, QuotientBetween
    <3>5. MeanJitter \in Int
      BY <3>1, <3>3
    <3> QED BY <3>1, <3>4, <3>5 DEF IsAverageOf
  <2> QED BY <2>2, <2>3 DEF MeansWithinSamples
<1> QED BY <1>1, MetricsInvariant, PTL

\* The average delay that CheckMetrics prints lies within the delays since its
\* call before.
THEOREM IntervalDelayLiesWithin == MetricsSpec => []IntervalDelayWithinSamples
<1>1. MetricsInv => IntervalDelayWithinSamples
  <2> SUFFICES ASSUME MetricsInv, Prints, delays["interval"] # {}
               PROVE  IsAverageOf(AvgDelay, delays["interval"])
    BY DEF IntervalDelayWithinSamples
  <2>1. SumsUp(delays["interval"], Rx, stat.delaySum - prev.delaySum)
    BY DEF MetricsInv, IntervalSumsUp, Rx
  <2>2. /\ Rx \in Nat /\ Rx # 0
        /\ Min(delays["interval"]) * Rx <= stat.delaySum - prev.delaySum
        /\ stat.delaySum - prev.delaySum <= Max(delays["interval"]) * Rx
    BY <2>1, SumBetweenExtremes
  <2>3. AvgDelay = << stat.delaySum - prev.delaySum, Rx >>
    BY <2>2 DEF AvgDelay
  <2> QED BY <2>2, <2>3 DEF IsAverageOf
<1> QED BY <1>1, MetricsInvariant, PTL

\* The average jitter that CheckMetrics prints is at most twice the largest
\* jitter since its call before: there are at most as many samples as packets,
\* and the divisor is one less.
THEOREM IntervalJitterBounded == MetricsSpec => []IntervalJitterAtMostDoubled
<1>1. MetricsInv => IntervalJitterAtMostDoubled
  <2> SUFFICES ASSUME MetricsInv, Prints, jitters["interval"] # {}
               PROVE  AvgJitter[1] <= 2 * Max(jitters["interval"]) * AvgJitter[2]
    BY DEF IntervalJitterAtMostDoubled
  <2> DEFINE n == JitterSamples(stat) - JitterSamples(prev)
             sum == stat.jitterSum - prev.jitterSum
             m == Max(jitters["interval"])
  <2>1. stat \in Stats /\ prev \in Stats /\ prev.rx <= stat.rx
    BY DEF MetricsInv, MetricsTypes
  <2>2. n \in Nat /\ sum \in Nat /\ m \in Nat /\ sum <= m * n
    <3>1. SumsUp(jitters["interval"], n, sum)
      BY DEF MetricsInv, IntervalSumsUp
    <3> QED BY <3>1, SumBetweenExtremes
  <2>3. Rx \in Nat /\ n <= Rx
    BY <2>1 DEF Rx, JitterSamples, Stats
  <2>4. CASE Rx > 1
    <3>1. AvgJitter[1] = sum /\ AvgJitter[2] = Rx - 1
      BY <2>4 DEF AvgJitter
    <3> HIDE DEF n, sum, m
    <3>2. PICK k \in Nat : 2 * (Rx - 1) = n + k
      <4>1. 2 * (Rx - 1) - n \in Nat
        BY <2>2, <2>3, <2>4
      <4> QED BY <2>2, <2>3, <4>1
    <3>3. 2 * m * (Rx - 1) = m * n + m * k
      <4>1. 2 * m * (Rx - 1) = m * (2 * (Rx - 1))
        BY <2>2, <2>3
      <4>2. m * (n + k) = m * n + m * k
        BY <2>2, <3>2
      <4> QED BY <3>2, <4>1, <4>2
    <3>4. m * k \in Nat /\ m * n \in Nat
      BY <2>2, <3>2
    <3>5. sum <= 2 * m * (Rx - 1)
      BY <2>2, <3>3, <3>4
    <3> QED BY <3>1, <3>5 DEF m
  <2>5. CASE ~(Rx > 1)
    BY <2>2, <2>5 DEF AvgJitter
  <2> QED BY <2>4, <2>5
<1> QED BY <1>1, MetricsInvariant, PTL

=============================================================================
