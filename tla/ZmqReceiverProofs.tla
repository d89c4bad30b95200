-------------------------- MODULE ZmqReceiverProofs --------------------------
(***************************************************************************)
(* Theorems about ZmqReceiver and the applications it installs, for any    *)
(* number of them, any messages and places, and any agenda of the driver:  *)
(* type correctness, what stopping the telemetry does to its updates, and  *)
(* whom a stop message reaches.                                            *)
(***************************************************************************)
EXTENDS ZmqReceiver, FiniteSetTheorems, SequenceTheorems, WellFoundedInduction, TLAPS

-----------------------------------------------------------------------------
(***************************************************************************)
(* Lemmas about the operators of the model.                                *)
(***************************************************************************)

\* A function changed at one argument, of its domain or not.
LEMMA ChangedAt ==
  ASSUME NEW D, NEW R, NEW f \in [D -> R], NEW a, NEW v \in R
  PROVE  /\ [f EXCEPT ![a] = v] \in [D -> R]
         /\ \A x \in D : [f EXCEPT ![a] = v][x] = IF x = a THEN v ELSE f[x]
OBVIOUS

\* The handler that takes the least of the applications it has left takes one
\* of them.
LEMMA MinIn ==
  ASSUME NEW S \in SUBSET Nat, S # {}
  PROVE  Min(S) \in S
<1>1. PICK x \in S : \A y \in S : ~(<< y, x >> \in OpToRel(<, Nat))
  BY NatLessThanWellFounded, WFMin
<1>2. ASSUME NEW y \in S PROVE x <= y
  <2>1. ~(<< y, x >> \in OpToRel(<, Nat))
    BY <1>1
  <2>2. ~(y < x)
    BY <2>1 DEF OpToRel
  <2> QED BY <2>2
<1> QED BY <1>2 DEF Min

\* Where a sequence has an element that installs an application.
Installing(s) == {i \in 1 .. Len(s) : Installs(s[i])}

\* There are finitely many.
LEMMA InstallingFinite ==
  ASSUME NEW s \in Seq(Messages)
  PROVE  IsFiniteSet(Installing(s)) /\ Cardinality(Installing(s)) \in Nat
<1>1. Len(s) \in Nat
  BY LenProperties
<1>2. IsFiniteSet(1 .. Len(s))
  BY <1>1, FS_Interval
<1>3. IsFiniteSet(Installing(s))
  BY <1>2, FS_Subset DEF Installing
<1> QED BY <1>3, FS_CardinalityType

\* A message put into the socket counts if it installs an application.
LEMMA InstallingAppend ==
  ASSUME NEW s \in Seq(Messages), NEW m \in Messages
  PROVE  Cardinality(Installing(Append(s, m)))
           = Cardinality(Installing(s)) + (IF Installs(m) THEN 1 ELSE 0)
<1> DEFINE n == Len(s) + 1
<1>1. /\ Len(s) \in Nat /\ Len(Append(s, m)) = n
      /\ \A i \in 1 .. Len(s) : Append(s, m)[i] = s[i]
      /\ Append(s, m)[n] = m
  BY AppendProperties, LenProperties
<1>2. n \notin Installing(s)
  BY <1>1 DEF Installing
<1>3. Installing(Append(s, m)) = IF Installs(m) THEN Installing(s) \cup {n} ELSE Installing(s)
  BY <1>1 DEF Installing
<1>4. IsFiniteSet(Installing(s)) /\ Cardinality(Installing(s)) \in Nat
  BY InstallingFinite
<1>5. Cardinality(Installing(s) \cup {n}) = Cardinality(Installing(s)) + 1
  BY <1>2, <1>4, FS_AddElement
<1> QED BY <1>3, <1>4, <1>5

\* A message taken from the socket no longer counts.
LEMMA InstallingTail ==
  ASSUME NEW s \in Seq(Messages), s # << >>
  PROVE  Cardinality(Installing(s))
           = Cardinality(Installing(Tail(s))) + (IF Installs(Head(s)) THEN 1 ELSE 0)
<1> DEFINE K == Installing(Tail(s))
           L == Installing(s) \ {1}
           f == [i \in K |-> i + 1]
<1>1. /\ Len(s) \in Nat /\ Len(s) > 0 /\ Len(Tail(s)) = Len(s) - 1
      /\ Tail(s) \in Seq(Messages) /\ Head(s) = s[1]
      /\ \A i \in 1 .. Len(Tail(s)) : Tail(s)[i] = s[i + 1]
  BY HeadTailProperties, EmptySeq, LenProperties
<1>2. IsFiniteSet(K) /\ Cardinality(K) \in Nat
  BY <1>1, InstallingFinite
<1>3. f \in Bijection(K, L)
  <2>1. f \in [K -> L]
    BY <1>1 DEF Installing
  <2>2. \A i, j \in K : f[i] = f[j] => i = j
    BY DEF Installing
  <2>3. \A j \in L : \E i \in K : f[i] = j
    <3> TAKE j \in L
    <3>1. j - 1 \in K /\ j = (j - 1) + 1
      BY <1>1 DEF Installing
    <3> QED BY <3>1
  <2> HIDE DEF f, K, L
  <2> QED BY <2>1, <2>2, <2>3 DEF Bijection, Injection, Surjection, IsInjective
<1>4. IsFiniteSet(L) /\ Cardinality(L) = Cardinality(K)
  BY <1>2, <1>3, FS_Bijection DEF ExistsBijection
<1>5. Installing(s) = IF Installs(Head(s)) THEN L \cup {1} ELSE L
  BY <1>1 DEF Installing
<1>6. Cardinality(L \cup {1}) = Cardinality(L) + 1
  BY <1>4, FS_AddElement
<1> HIDE DEF K, L
<1> QED BY <1>2, <1>4, <1>5, <1>6 DEF K

-----------------------------------------------------------------------------
(***************************************************************************)
(* The telemetry applications under both threads.  A straggler needs an    *)
(* application that was started, has been stopped, and whose update was    *)
(* past its test: as nothing starts an application twice, there is no      *)
(* second.                                                                 *)
(***************************************************************************)
StragglersOnlyAfterStop ==
  /\ stragglers \in [Apps -> {0, 1}]
  /\ \A a \in Apps :
       active[a] \/ life[a] # "started" \/ call = At("send", a) => stragglers[a] = 0
  /\ \A a \in Apps : timer[a] => life[a] = "started"
  /\ \A a \in Apps : call.app = a => life[a] = "started"

TelemetryInv == TelemetryTypes /\ StragglersOnlyAfterStop

\* What a step of the receiver or of the simulator does to the telemetry
\* applications.
LEMMA TelemetrySteps ==
  ASSUME [Next]_allVars
  PROVE  \/ UNCHANGED << life, active, timer, stragglers, call >>
         \/ Install(NextIndex) \/ ClearRunning(Min(todo)) \/ CancelSend(Min(todo))
         \/ \E a \in Apps : \/ DoInitialize(a) \/ StartApplication(a) \/ TimerFires(a)
                            \/ CheckRunning(a) \/ SendWithPriority(a) \/ ScheduleNext(a)
<1>1. CASE \E m \in Messages : Publish(m)
  BY <1>1 DEF Publish, eventVars, telemetryVars
<1>2. CASE Run
  BY <1>2
  DEF Run, RunLoopTest, Receive, HandleActors, MoveActor, StartTelemetry, StartVideo,
      StopTelemetry, StopTelemetryClear, StopTelemetryCancel, StopVideo, SendCommandTest,
      SendCommand, HandleUnparsable, Terminate, eventVars, telemetryVars
<1>3. CASE Driver
  BY <1>3
  DEF Driver, StartReceiver, StopReceiver, StopSimulator, CommandStartEvent, CommandStopEvent,
      Join, Destroy, Destructor, StopApplication, eventVars, telemetryVars
<1>4. CASE CommandTimerEvent
  BY <1>4 DEF CommandTimerEvent, telemetryVars
<1>5. ASSUME NEW a \in Apps, TelemetryEvent(a) \/ TelemetryCall(a)
      PROVE  \/ DoInitialize(a) \/ StartApplication(a) \/ TimerFires(a)
             \/ CheckRunning(a) \/ SendWithPriority(a) \/ ScheduleNext(a)
  BY <1>5 DEF TelemetryEvent, TelemetryCall, SendTelemetryUpdate
<1>6. CASE UNCHANGED allVars
  BY <1>6 DEF allVars, eventVars, telemetryVars
<1> QED BY <1>1, <1>2, <1>3, <1>4, <1>5, <1>6 DEF Next, Exited

\* The applications that are there at the start are none.
LEMMA TelemetryInvInit == Init => TelemetryInv
BY DEF Init, TelemetryInit, TelemetryInv, TelemetryTypes, StragglersOnlyAfterStop, NoCall, At,
       Apps

\* Every step keeps the invariant.
LEMMA TelemetryInvStep == TelemetryInv /\ [Next]_allVars => TelemetryInv'
<1> SUFFICES ASSUME TelemetryInv, [Next]_allVars PROVE TelemetryInv'
  OBVIOUS
<1> USE DEF TelemetryInv, TelemetryTypes, StragglersOnlyAfterStop, NoCall, At
<1>1. CASE UNCHANGED << life, active, timer, stragglers, call >>
  BY <1>1
<1>2. ASSUME NEW a, Install(a) PROVE TelemetryInv'
  <2>1. /\ life' \in [Apps -> {"absent", "installed", "initialized", "started"}]
        /\ \A b \in Apps : life'[b] = "started" <=> life[b] = "started"
    BY <1>2, ChangedAt DEF Install
  <2>2. UNCHANGED << active, timer, stragglers, call >>
    BY <1>2 DEF Install
  <2> QED BY <2>1, <2>2
<1>3. ASSUME NEW a, ClearRunning(a) PROVE TelemetryInv'
  <2>1. active' \in [Apps -> BOOLEAN] /\ \A b \in Apps : active'[b] => active[b]
    BY <1>3, ChangedAt DEF ClearRunning
  <2>2. stragglers' \in [Apps -> {0, 1}] /\ \A b \in Apps : stragglers'[b] \in {0, stragglers[b]}
    BY <1>3, ChangedAt DEF ClearRunning
  <2>3. UNCHANGED << life, timer, call >>
    BY <1>3 DEF ClearRunning
  <2> QED BY <2>1, <2>2, <2>3
<1>4. ASSUME NEW a, CancelSend(a) PROVE TelemetryInv'
  <2>1. timer' \in [Apps -> BOOLEAN] /\ \A b \in Apps : timer'[b] => timer[b]
    BY <1>4, ChangedAt DEF CancelSend
  <2>2. UNCHANGED << life, active, stragglers, call >>
    BY <1>4 DEF CancelSend
  <2> QED BY <2>1, <2>2
<1>5. ASSUME NEW a \in Apps, DoInitialize(a) PROVE TelemetryInv'
  BY <1>5 DEF DoInitialize, InEventLoop, Apps
<1>6. ASSUME NEW a \in Apps, StartApplication(a) PROVE TelemetryInv'
  BY <1>6 DEF StartApplication, InEventLoop, Apps
<1>7. ASSUME NEW a \in Apps, TimerFires(a) PROVE TelemetryInv'
  BY <1>7 DEF TimerFires, InEventLoop, Apps
<1>8. ASSUME NEW a \in Apps, CheckRunning(a) PROVE TelemetryInv'
  BY <1>8 DEF CheckRunning, Apps
<1>9. ASSUME NEW a \in Apps, SendWithPriority(a) PROVE TelemetryInv'
  <2>1. stragglers[a] = 0 /\ life[a] = "started"
    BY <1>9 DEF SendWithPriority
  <2>2. stragglers' = [stragglers EXCEPT ![a] = IF active[a] THEN 0 ELSE 1]
    BY <1>9, <2>1 DEF SendWithPriority
  <2>3. UNCHANGED << life, active, timer >> /\ call' = At("schedule", a)
    BY <1>9 DEF SendWithPriority
  <2>4. TelemetryTypes'
    BY <2>2, <2>3
  <2> QED BY <2>1, <2>2, <2>3, <2>4
<1>10. ASSUME NEW a \in Apps, ScheduleNext(a) PROVE TelemetryInv'
  <2>1. life[a] = "started"
    BY <1>10 DEF ScheduleNext
  <2>2. timer' = [timer EXCEPT ![a] = TRUE] /\ UNCHANGED << life, active, stragglers >> /\ call' = NoCall
    BY <1>10 DEF ScheduleNext
  <2> QED BY <2>1, <2>2 DEF Apps
<1> QED
  BY <1>1, <1>2, <1>3, <1>4, <1>5, <1>6, <1>7, <1>8, <1>9, <1>10, TelemetrySteps

\* After StopApplication cleared m_running at most one more update is sent,
\* for any number of applications and any interleaving of the two threads.
THEOREM OneStragglerAtMost == Spec => []AtMostOneStraggler
<1>1. TelemetryInv => AtMostOneStraggler
  BY DEF TelemetryInv, StragglersOnlyAfterStop, AtMostOneStraggler
<1> QED BY <1>1, TelemetryInvInit, TelemetryInvStep, PTL DEF Spec

-----------------------------------------------------------------------------
(***************************************************************************)
(* The receiver thread's life.  It is created once, by the only start      *)
(* event; m_thread is joinable from then until a join; and while the       *)
(* simulator runs events it is joinable only if m_running is set, because  *)
(* StopApplication joins before it returns.                                *)
(***************************************************************************)
StartPending == \E i \in 1 .. Len(agenda) : agenda[i] = "receiverStart"

StartsOnce ==
  /\ \A i, j \in 1 .. Len(agenda) :
       agenda[i] = "receiverStart" /\ agenda[j] = "receiverStart" => i = j
  /\ StartPending => rx = "none" /\ lateMessages = 0
  /\ rx = "none" => ~running /\ ~joinable

JoinsWhatItStops ==
  /\ ~joinable => rx \in {"none", "ended"}
  /\ sim = "events" /\ joinable => running
  /\ sim \in {"joining", "joining at exit"} => joinable /\ ~running
  /\ sim = "exited" => ~joinable
  /\ sim = "aborted" => rx = "ended" /\ joinable

OneLateMessage ==
  /\ running \/ rx = "recv" => lateMessages = 0
  /\ lateMessages <= 1

ThreadInv == ThreadTypes /\ StartsOnce /\ JoinsWhatItStops /\ OneLateMessage

\* What a step does to the threads: nothing, a step inside a handler or out of
\* it, or one of the steps listed.
LEMMA ThreadSteps ==
  ASSUME [Next]_allVars
  PROVE  \/ UNCHANGED << sim, agenda, running, joinable, lateMessages, rx >>
         \/ /\ UNCHANGED << sim, agenda, running, joinable, lateMessages >>
            /\ rx \in {"handle", "move", "clear", "cancel", "command"}
            /\ rx' \in {"check", "move", "clear", "cancel", "command"}
         \/ RunLoopTest \/ Receive \/ Terminate
         \/ StartReceiver \/ StopReceiver \/ StopSimulator \/ Destroy \/ Destructor
         \/ Join("joining", "events") \/ Join("joining at exit", "exited")
         \/ CommandStartEvent \/ CommandStopEvent
<1>1. CASE \E m \in Messages : Publish(m)
  BY <1>1 DEF Publish, simVars, threadVars, rxVars
<1>2. CASE Run
  BY <1>2
  DEF Run, HandleActors, MoveActor, StartTelemetry, StartVideo, StopTelemetry,
      StopTelemetryClear, StopTelemetryCancel, StopVideo, SendCommandTest, SendCommand,
      HandleUnparsable, Handled, simVars, threadVars
<1>3. CASE Driver
  BY <1>3 DEF Driver
<1>4. CASE CommandTimerEvent \/ \E a \in Apps : TelemetryEvent(a) \/ TelemetryCall(a)
  BY <1>4 DEF CommandTimerEvent, TelemetryEvent, TelemetryCall, simVars, threadVars, rxVars
<1>5. CASE UNCHANGED allVars
  BY <1>5 DEF allVars, simVars, threadVars, rxVars
<1> QED BY <1>1, <1>2, <1>3, <1>4, <1>5 DEF Next, Exited

\* The events left once the first has been taken.
LEMMA NextEventTakes ==
  ASSUME ThreadTypes, NEW e, NextEvent(e)
  PROVE  /\ sim = "events" /\ e = agenda[1] /\ Len(agenda) \in Nat \ {0}
         /\ agenda' \in Seq(AgendaEvents) /\ Len(agenda') = Len(agenda) - 1
         /\ \A i \in 1 .. Len(agenda') : agenda'[i] = agenda[i + 1] /\ i + 1 \in 1 .. Len(agenda)
<1>1. agenda \in Seq(AgendaEvents) /\ agenda # << >> /\ agenda' = Tail(agenda)
  BY DEF ThreadTypes, NextEvent
<1>2. Head(agenda) = agenda[1]
  BY <1>1
<1>3. sim = "events" /\ e = agenda[1]
  BY <1>2 DEF NextEvent
<1>4. /\ Len(agenda) \in Nat \ {0} /\ Len(Tail(agenda)) = Len(agenda) - 1
      /\ Tail(agenda) \in Seq(AgendaEvents)
      /\ \A i \in 1 .. Len(Tail(agenda)) : Tail(agenda)[i] = agenda[i + 1]
  BY <1>1, HeadTailProperties, EmptySeq
<1> QED BY <1>1, <1>3, <1>4

\* Before the driver's first event there is no receiver thread.
LEMMA ThreadInvInit == Init => ThreadInv
<1> SUFFICES ASSUME Init PROVE ThreadInv
  OBVIOUS
<1>1. ThreadTypes
  BY ReceiverAssumption DEF Init, ThreadTypes, AgendaEvents
<1>2. StartsOnce
  BY ReceiverAssumption DEF Init, StartsOnce
<1> QED BY <1>1, <1>2 DEF Init, ThreadInv, JoinsWhatItStops, OneLateMessage

\* An event that is not the start of the receiver leaves at most one start.
LEMMA OtherEventKeepsStart ==
  ASSUME ThreadInv, NEW e, NextEvent(e), UNCHANGED << rx, lateMessages, joinable >>,
         running' => running
  PROVE  StartsOnce'
<1>1. /\ Len(agenda) \in Nat \ {0} /\ Len(agenda') = Len(agenda) - 1
      /\ \A i \in 1 .. Len(agenda') : agenda'[i] = agenda[i + 1] /\ i + 1 \in 1 .. Len(agenda)
  BY NextEventTakes DEF ThreadInv
<1>2. \A i, j \in 1 .. Len(agenda') :
        agenda'[i] = "receiverStart" /\ agenda'[j] = "receiverStart" => i = j
  BY <1>1 DEF ThreadInv, StartsOnce
<1>3. StartPending' => StartPending
  BY <1>1 DEF StartPending
<1>4. StartPending' => rx' = "none" /\ lateMessages' = 0
  BY <1>3 DEF ThreadInv, StartsOnce
<1>5. rx' = "none" => ~running' /\ ~joinable'
  BY DEF ThreadInv, StartsOnce
<1> QED BY <1>2, <1>4, <1>5 DEF StartsOnce

\* Every step keeps the invariant.
LEMMA ThreadInvStep == ThreadInv /\ [Next]_allVars => ThreadInv'
<1> SUFFICES ASSUME ThreadInv, [Next]_allVars PROVE ThreadInv'
  OBVIOUS
<1>1. CASE UNCHANGED << sim, agenda, running, joinable, lateMessages, rx >>
  BY <1>1 DEF ThreadInv,
      ThreadTypes, StartsOnce, StartPending, JoinsWhatItStops, OneLateMessage
<1>2. CASE /\ UNCHANGED << sim, agenda, running, joinable, lateMessages >>
           /\ rx \in {"handle", "move", "clear", "cancel", "command"}
           /\ rx' \in {"check", "move", "clear", "cancel", "command"}
  BY <1>2 DEF ThreadInv,
      ThreadTypes, StartsOnce, StartPending, JoinsWhatItStops, OneLateMessage
<1>3. CASE RunLoopTest
  BY <1>3 DEF RunLoopTest, simVars, threadVars, ThreadInv,
      ThreadTypes, StartsOnce, StartPending, JoinsWhatItStops, OneLateMessage
<1>4. CASE Receive
  <2>1. rx = "recv" /\ rx' = "handle" /\ UNCHANGED << sim, agenda, running, joinable >>
    BY <1>4 DEF Receive, simVars
  <2>2. lateMessages = 0
    BY <2>1 DEF ThreadInv, OneLateMessage
  <2>3. lateMessages' = 0 \/ (~running' /\ lateMessages' = lateMessages + 1)
    BY <1>4, <2>2, Zenon DEF Receive
  <2>4. lateMessages' \in {0, 1}
    BY <2>2, <2>3
  <2>5. running' => lateMessages' = 0
    BY <2>3
  <2>6. ThreadTypes'
    <3>1. running' \in BOOLEAN /\ joinable' \in BOOLEAN
      BY <2>1, Zenon DEF ThreadInv, ThreadTypes
    <3>2. sim' = sim /\ agenda' = agenda /\ rx' = "handle"
      BY <2>1
    <3>3. lateMessages' \in Nat
      BY <2>4
    <3> QED BY <3>1, <3>2, <3>3 DEF ThreadInv, ThreadTypes
  <2>7. StartsOnce'
    BY <2>1 DEF ThreadInv, StartsOnce, StartPending
  <2>8. JoinsWhatItStops'
    BY <2>1 DEF ThreadInv, JoinsWhatItStops
  <2>9. OneLateMessage'
    BY <2>1, <2>4, <2>5 DEF OneLateMessage
  <2> QED BY <2>6, <2>7, <2>8, <2>9 DEF ThreadInv
<1>5. CASE Terminate
  BY <1>5 DEF Terminate, threadVars, ThreadInv,
      ThreadTypes, StartsOnce, StartPending, JoinsWhatItStops, OneLateMessage
<1>6. CASE StartReceiver
  <2>1. NextEvent("receiverStart")
    BY <1>6 DEF StartReceiver
  <2>2. /\ sim = "events" /\ agenda[1] = "receiverStart" /\ Len(agenda) \in Nat \ {0}
        /\ agenda' \in Seq(AgendaEvents) /\ Len(agenda') = Len(agenda) - 1
        /\ \A i \in 1 .. Len(agenda') : agenda'[i] = agenda[i + 1] /\ i + 1 \in 1 .. Len(agenda)
    BY <2>1, NextEventTakes DEF ThreadInv
  <2>3. 1 \in 1 .. Len(agenda)
    BY <2>2
  <2>4. lateMessages = 0
    BY <2>2, <2>3 DEF ThreadInv, StartsOnce, StartPending
  <2>5. ~StartPending'
    BY <2>2, <2>3 DEF ThreadInv, StartsOnce, StartPending
  <2>6. /\ rx' = "check" /\ running' = TRUE /\ joinable' = TRUE
        /\ UNCHANGED << sim, lateMessages >>
    BY <1>6 DEF StartReceiver
  <2>7. ThreadTypes'
    BY <2>2, <2>6 DEF ThreadInv, ThreadTypes
  <2>8. StartsOnce'
    BY <2>5, <2>6 DEF StartsOnce, StartPending
  <2> QED BY <2>2, <2>4, <2>6, <2>7, <2>8 DEF ThreadInv, JoinsWhatItStops, OneLateMessage
<1>7. ASSUME NEW e, NextEvent(e), UNCHANGED << rx, lateMessages, joinable >>,
             \/ UNCHANGED << sim, running >>
             \/ running' = FALSE /\ sim' = IF joinable THEN "joining" ELSE "events"
             \/ running' = running /\ sim' = "stopped"
      PROVE  ThreadInv'
  <2>1. sim = "events" /\ agenda' \in Seq(AgendaEvents)
    BY <1>7, NextEventTakes DEF ThreadInv
  <2>2. running \in BOOLEAN /\ joinable \in BOOLEAN
    BY DEF ThreadInv, ThreadTypes
  <2>3. (running' => running) /\ rx' = rx /\ lateMessages' = lateMessages
    <3>1. running' => running
      BY <1>7, Zenon
    <3> QED BY <1>7, <3>1
  <2>4. StartsOnce'
    BY <1>7, <2>3, OtherEventKeepsStart
  <2>5. ThreadTypes'
    BY <1>7, <2>1, <2>2 DEF ThreadInv, ThreadTypes
  <2>6. JoinsWhatItStops'
    BY <1>7, <2>1, <2>2 DEF ThreadInv, JoinsWhatItStops
  <2>7. OneLateMessage'
    BY <2>3 DEF ThreadInv, OneLateMessage
  <2> QED BY <2>4, <2>5, <2>6, <2>7 DEF ThreadInv
<1>8. CASE StopReceiver
  BY <1>7, <1>8 DEF StopReceiver, StopApplication, rxVars
<1>9. CASE StopSimulator
  BY <1>7, <1>9 DEF StopSimulator, threadVars, rxVars
<1>10. CASE CommandStartEvent \/ CommandStopEvent
  BY <1>7, <1>10 DEF CommandStartEvent, CommandStopEvent, threadVars, rxVars
<1>11. CASE Destroy
  BY <1>11 DEF Destroy, threadVars, rxVars, ThreadInv,
      ThreadTypes, StartsOnce, StartPending, JoinsWhatItStops, OneLateMessage
<1>12. CASE Destructor
  BY <1>12 DEF Destructor, StopApplication, rxVars, ThreadInv,
      ThreadTypes, StartsOnce, StartPending, JoinsWhatItStops, OneLateMessage
<1>13. CASE Join("joining", "events") \/ Join("joining at exit", "exited")
  <2>1. /\ rx = "ended" /\ joinable' = FALSE /\ sim' \in {"events", "exited"}
        /\ UNCHANGED << agenda, running, lateMessages, rx >>
    BY <1>13 DEF Join, rxVars
  <2>2. ThreadTypes'
    BY <2>1 DEF ThreadInv, ThreadTypes
  <2>3. StartsOnce'
    BY <2>1 DEF ThreadInv, StartsOnce, StartPending
  <2> QED BY <2>1, <2>2, <2>3 DEF ThreadInv, JoinsWhatItStops, OneLateMessage
<1> QED
  BY <1>1, <1>2, <1>3, <1>4, <1>5, <1>6, <1>8, <1>9, <1>10, <1>11, <1>12, <1>13, ThreadSteps

\* The invariant of the receiver thread holds in every reachable state.
LEMMA ThreadInvariant == Spec => []ThreadInv
BY ThreadInvInit, ThreadInvStep, PTL DEF Spec

\* StopApplication lets at most one message in after it has cleared m_running,
\* whatever the publisher sends and whenever the driver stops the receiver.
THEOREM OneLateMessageAtMost == Spec => []AtMostOneLateMessage
<1>1. ThreadInv => AtMostOneLateMessage
  BY DEF ThreadInv, OneLateMessage, AtMostOneLateMessage
<1> QED BY <1>1, ThreadInvariant, PTL

-----------------------------------------------------------------------------
(***************************************************************************)
(* The message being handled.  Where the thread is in Run determines which *)
(* message it has; outside the handlers it has none.                       *)
(***************************************************************************)
MessageInv ==
  /\ msg \in Messages \cup {NoMessage}
  /\ inbox \in Seq(Messages)
  /\ rx \in {"none", "check", "recv", "ended"} => msg = NoMessage
  /\ rx = "handle" => msg \in Messages
  /\ rx = "move" => \E p \in Places : msg = Actors(p)
  /\ rx \in {"clear", "cancel"} => msg = Stop("Telemetry")
  /\ rx = "command" => msg = Start("ControlCommands")

\* What a step does to the message and to those waiting.
LEMMA MessageSteps ==
  ASSUME [Next]_allVars
  PROVE  \/ UNCHANGED << rx, msg, inbox >>
         \/ Handled /\ UNCHANGED inbox
         \/ \E m \in Messages : Publish(m)
         \/ Receive \/ Terminate \/ StartReceiver
         \/ /\ UNCHANGED << msg, inbox >>
            /\ \/ RunLoopTest \/ HandleActors \/ StopTelemetry \/ StopTelemetryClear
               \/ StopTelemetryCancel \/ SendCommandTest
<1>1. CASE Run
  BY <1>1
  DEF Run, RunLoopTest, HandleActors, MoveActor, StartTelemetry, StartVideo, StopTelemetry,
      StopTelemetryClear, StopTelemetryCancel, StopVideo, SendCommandTest, SendCommand,
      HandleUnparsable
<1>2. CASE Driver
  BY <1>2
  DEF Driver, StopReceiver, StopSimulator, CommandStartEvent, CommandStopEvent,
      Join, Destroy, Destructor, StopApplication, rxVars
<1>3. CASE CommandTimerEvent \/ \E a \in Apps : TelemetryEvent(a) \/ TelemetryCall(a)
  BY <1>3 DEF CommandTimerEvent, TelemetryEvent, TelemetryCall, rxVars
<1>4. CASE UNCHANGED allVars
  BY <1>4 DEF allVars, rxVars
<1> QED BY <1>1, <1>2, <1>3, <1>4 DEF Next, Exited

\* A message that moves actors is one with a place.
LEMMA ActorsHavePlace ==
  ASSUME NEW m \in Messages, m.kind = "actors"
  PROVE  \E p \in Places : m = Actors(p)
BY ReceiverAssumption DEF Start, Stop, Actors, Unparsable, Incomplete

\* There is no message at the start.
LEMMA MessageInvInit == Init => MessageInv
BY EmptySeq DEF Init, MessageInv

\* Every step keeps the invariant.
LEMMA MessageInvStep == ThreadInv /\ MessageInv /\ [Next]_allVars => MessageInv'
<1> SUFFICES ASSUME ThreadInv, MessageInv, [Next]_allVars PROVE MessageInv'
  OBVIOUS
<1>1. CASE UNCHANGED << rx, msg, inbox >>
  BY <1>1 DEF MessageInv
<1>2. CASE Handled /\ UNCHANGED inbox
  BY <1>2 DEF MessageInv, Handled
<1>3. ASSUME NEW m \in Messages, Publish(m) PROVE MessageInv'
  <2>1. inbox' \in Seq(Messages)
    BY <1>3, AppendProperties DEF Publish, MessageInv
  <2> QED BY <1>3, <2>1 DEF Publish, rxVars, MessageInv
<1>4. CASE Receive
  <2>1. msg' \in Messages /\ inbox' \in Seq(Messages)
    BY <1>4, HeadTailProperties DEF Receive, MessageInv
  <2> QED BY <1>4, <2>1 DEF Receive, MessageInv
<1>5. CASE Terminate
  BY <1>5 DEF Terminate, MessageInv
<1>6. CASE StartReceiver
  <2>1. NextEvent("receiverStart")
    BY <1>6 DEF StartReceiver
  <2>2. StartPending
    BY <2>1, NextEventTakes DEF ThreadInv, StartPending
  <2>3. rx = "none"
    BY <2>2 DEF ThreadInv, StartsOnce
  <2> QED BY <1>6, <2>3 DEF StartReceiver, MessageInv
<1>7. CASE UNCHANGED << msg, inbox >> /\ RunLoopTest
  BY <1>7 DEF RunLoopTest, MessageInv
<1>8. CASE UNCHANGED << msg, inbox >> /\ HandleActors
  BY <1>8, ActorsHavePlace DEF HandleActors, MessageInv
<1>9. CASE UNCHANGED << msg, inbox >> /\ StopTelemetry
  <2>1. rx = "handle" /\ msg = Stop("Telemetry") /\ (rx' = "clear" \/ Handled)
    BY <1>9 DEF StopTelemetry
  <2> QED BY <1>2, <1>9, <2>1 DEF MessageInv
<1>10. CASE UNCHANGED << msg, inbox >> /\ StopTelemetryClear
  BY <1>10 DEF StopTelemetryClear, MessageInv
<1>11. CASE UNCHANGED << msg, inbox >> /\ StopTelemetryCancel
  <2>1. rx = "cancel" /\ (rx' = "clear" \/ Handled)
    BY <1>11 DEF StopTelemetryCancel
  <2> QED BY <1>2, <1>11, <2>1 DEF MessageInv
<1>12. CASE UNCHANGED << msg, inbox >> /\ SendCommandTest
  <2>1. rx = "handle" /\ msg = Start("ControlCommands") /\ (rx' = "command" \/ Handled)
    BY <1>12 DEF SendCommandTest
  <2> QED BY <1>2, <1>12, <2>1 DEF MessageInv
<1> QED
  BY <1>1, <1>2, <1>3, <1>4, <1>5, <1>6, <1>7, <1>8, <1>9, <1>10, <1>11, <1>12, MessageSteps

-----------------------------------------------------------------------------
(***************************************************************************)
(* The applications.  They are numbered in the order of their              *)
(* installation; no number is used twice, and none beyond MaxApps because  *)
(* the publisher does not ask for more.                                    *)
(***************************************************************************)
InstalledInOrder == \E n \in 0 .. MaxApps : Installed = 1 .. n

AppInv == AppTypes /\ InstalledInOrder /\ StartsUnderWay <= MaxApps

\* What a step does to the applications and to the messages that install some.
LEMMA AppSteps ==
  ASSUME [Next]_allVars
  PROVE  \/ UNCHANGED appVars /\ (\/ UNCHANGED << msg, inbox >>
                                  \/ msg' = NoMessage /\ UNCHANGED inbox
                                  \/ Receive
                                  \/ \E m \in Messages : Publish(m))
         \/ StartTelemetry \/ StartVideo \/ StopVideo
<1>1. CASE Run
  BY <1>1
  DEF Run, RunLoopTest, HandleActors, MoveActor, StopTelemetry, StopTelemetryClear,
      StopTelemetryCancel, SendCommandTest, SendCommand, HandleUnparsable, Terminate, Handled,
      Receive
<1>2. CASE Driver
  BY <1>2
  DEF Driver, StartReceiver, StopReceiver, StopSimulator, CommandStartEvent, CommandStopEvent,
      Join, Destroy, Destructor, StopApplication, rxVars
<1>3. CASE CommandTimerEvent \/ \E a \in Apps : TelemetryEvent(a) \/ TelemetryCall(a)
  BY <1>3 DEF CommandTimerEvent, TelemetryEvent, TelemetryCall, rxVars
<1>4. CASE \E m \in Messages : Publish(m)
  BY <1>4 DEF Publish
<1>5. CASE UNCHANGED allVars
  BY <1>5 DEF allVars, rxVars
<1> QED BY <1>1, <1>2, <1>3, <1>4, <1>5 DEF Next, Exited

\* How many applications there will be, when those installed are the first n.
LEMMA StartsCounted ==
  ASSUME inbox \in Seq(Messages), NEW n \in Nat, Installed = 1 .. n
  PROVE  /\ NextIndex = n + 1
         /\ Cardinality(Installing(inbox)) \in Nat
         /\ StartsUnderWay = n + Cardinality(Installing(inbox)) + (IF Installs(msg) THEN 1 ELSE 0)
<1>1. Cardinality(Installed) = n
  BY FS_Interval
<1>2. DOMAIN inbox = 1 .. Len(inbox)
  BY LenProperties
<1>3. {i \in DOMAIN inbox : Installs(inbox[i])} = Installing(inbox)
  BY <1>2 DEF Installing
<1>4. Cardinality(Installing(inbox)) \in Nat
  BY InstallingFinite
<1> QED BY <1>1, <1>3, <1>4 DEF NextIndex, StartsUnderWay

\* The same of the next state.
LEMMA StartsCountedNext ==
  ASSUME inbox' \in Seq(Messages), NEW n \in Nat, Installed' = 1 .. n
  PROVE  /\ Cardinality(Installing(inbox')) \in Nat
         /\ StartsUnderWay' = n + Cardinality(Installing(inbox')) + (IF Installs(msg') THEN 1 ELSE 0)
<1>1. Cardinality(Installed') = n
  BY FS_Interval
<1>2. DOMAIN inbox' = 1 .. Len(inbox')
  BY LenProperties
<1>3. {i \in DOMAIN inbox' : Installs(inbox'[i])} = Installing(inbox')
  BY <1>2 DEF Installing
<1>4. Cardinality(Installing(inbox')) \in Nat
  BY InstallingFinite
<1> QED BY <1>1, <1>3, <1>4 DEF StartsUnderWay

\* An application installed at the next index is the last one, and the others
\* keep their kinds.
LEMMA InstallNext ==
  ASSUME AppTypes, NEW n \in Nat, Installed = 1 .. n, n + 1 \in Apps,
         NEW k \in {"Telemetry", "VideoStream"}, kind' = [kind EXCEPT ![n + 1] = k]
  PROVE  /\ kind' \in [Apps -> {"none", "Telemetry", "VideoStream"}]
         /\ Installed' = 1 .. n + 1
         /\ OfKind(k)' = OfKind(k) \cup {n + 1}
         /\ \A o \in {"Telemetry", "VideoStream"} \ {k} : OfKind(o)' = OfKind(o)
<1>1. /\ kind' \in [Apps -> {"none", "Telemetry", "VideoStream"}]
      /\ kind'[n + 1] = k
      /\ \A a \in Apps \ {n + 1} : kind'[a] = kind[a]
  BY DEF AppTypes
<1>2. kind[n + 1] = "none"
  BY DEF Installed
<1>3. Installed' = Installed \cup {n + 1}
  BY <1>1, <1>2 DEF Installed
<1>4. OfKind(k)' = OfKind(k) \cup {n + 1}
  BY <1>1, <1>2 DEF OfKind
<1>5. \A o \in {"Telemetry", "VideoStream"} \ {k} : OfKind(o)' = OfKind(o)
  BY <1>1, <1>2 DEF OfKind
<1> QED BY <1>1, <1>3, <1>4, <1>5

\* There are no applications at the start.
LEMMA AppInvInit == Init => AppInv
<1> SUFFICES ASSUME Init PROVE AppInv
  OBVIOUS
<1>1. AppTypes
  BY DEF Init, AppTypes, OfKind
<1>2. Installed = 1 .. 0 /\ 0 \in 0 .. MaxApps
  BY MaxAppsAssumption DEF Init, Installed
<1>3. Installing(inbox) = {} /\ inbox \in Seq(Messages)
  BY EmptySeq DEF Init, Installing
<1>4. ~Installs(msg)
  BY DEF Init, Installs, NoMessage, Start
<1>5. StartsUnderWay = 0
  BY <1>2, <1>3, <1>4, StartsCounted, FS_EmptySet
<1> QED BY <1>1, <1>2, <1>5, MaxAppsAssumption DEF AppInv, InstalledInOrder

\* Every step keeps the invariant.
LEMMA AppInvStep == ThreadInv /\ MessageInv /\ AppInv /\ [Next]_allVars => AppInv'
<1> SUFFICES ASSUME ThreadInv, MessageInv, AppInv, [Next]_allVars PROVE AppInv'
  OBVIOUS
<1>1. inbox \in Seq(Messages) /\ inbox' \in Seq(Messages)
  BY MessageInvStep DEF MessageInv
<1>2. PICK n \in 0 .. MaxApps : Installed = 1 .. n
  BY DEF AppInv, InstalledInOrder
<1>3. n \in Nat /\ MaxApps \in Nat
  BY MaxAppsAssumption
<1> DEFINE waiting == Cardinality(Installing(inbox))
<1>4. /\ NextIndex = n + 1 /\ waiting \in Nat
      /\ StartsUnderWay = n + waiting + (IF Installs(msg) THEN 1 ELSE 0)
      /\ StartsUnderWay <= MaxApps
  BY <1>1, <1>2, <1>3, StartsCounted DEF AppInv
<1>5. ~Installs(NoMessage)
  BY DEF Installs, NoMessage, Start
<1>6. ASSUME UNCHANGED appVars PROVE AppTypes' /\ InstalledInOrder' /\ Installed' = 1 .. n
  BY <1>2, <1>6 DEF appVars, AppInv, AppTypes, OfKind, InstalledInOrder, Installed
<1>7. ASSUME UNCHANGED appVars,
             \/ UNCHANGED << msg, inbox >>
             \/ msg' = NoMessage /\ UNCHANGED inbox
             \/ Receive
             \/ \E m \in Messages : Publish(m)
      PROVE  AppInv'
  <2>1. Installed' = 1 .. n
    BY <1>6, <1>7
  <2>2. /\ Cardinality(Installing(inbox')) \in Nat
        /\ StartsUnderWay' = n + Cardinality(Installing(inbox')) + (IF Installs(msg') THEN 1 ELSE 0)
    BY <1>1, <1>3, <2>1, StartsCountedNext
  <2>3. CASE UNCHANGED << msg, inbox >>
    BY <1>3, <1>4, <1>6, <1>7, <2>2, <2>3 DEF AppInv
  <2>4. CASE msg' = NoMessage /\ UNCHANGED inbox
    BY <1>3, <1>4, <1>5, <1>6, <1>7, <2>2, <2>4 DEF AppInv
  <2>5. CASE Receive
    <3>1. /\ inbox # << >> /\ inbox' = Tail(inbox) /\ msg' = Head(inbox) /\ msg = NoMessage
      BY <2>5 DEF Receive, MessageInv
    <3>2. waiting = Cardinality(Installing(inbox')) + (IF Installs(msg') THEN 1 ELSE 0)
      BY <1>1, <3>1, InstallingTail
    <3> QED BY <1>3, <1>4, <1>5, <1>6, <1>7, <2>2, <3>1, <3>2 DEF AppInv
  <2>6. ASSUME NEW m \in Messages, Publish(m) PROVE AppInv'
    <3>1. /\ inbox' = Append(inbox, m) /\ msg' = msg
          /\ Installs(m) => StartsUnderWay < MaxApps
      BY <2>6 DEF Publish, rxVars
    <3>2. Cardinality(Installing(inbox')) = waiting + (IF Installs(m) THEN 1 ELSE 0)
      BY <1>1, <3>1, InstallingAppend
    <3>3. StartsUnderWay' = StartsUnderWay + (IF Installs(m) THEN 1 ELSE 0)
      BY <1>3, <1>4, <2>2, <3>1, <3>2
    <3> QED BY <1>3, <1>4, <1>6, <1>7, <3>1, <3>3 DEF AppInv
  <2> QED BY <1>7, <2>3, <2>4, <2>5, <2>6
<1>8. ASSUME NEW k \in {"Telemetry", "VideoStream"}, msg = Start(k),
             kind' = [kind EXCEPT ![NextIndex] = k], msg' = NoMessage, UNCHANGED inbox
      PROVE  /\ kind' \in [Apps -> {"none", "Telemetry", "VideoStream"}]
             /\ OfKind(k)' = OfKind(k) \cup {NextIndex}
             /\ \A o \in {"Telemetry", "VideoStream"} \ {k} : OfKind(o)' = OfKind(o)
             /\ InstalledInOrder' /\ StartsUnderWay' <= MaxApps
  <2>1. Installs(msg)
    BY <1>8 DEF Installs
  <2>2. n + 1 <= MaxApps
    BY <1>3, <1>4, <2>1
  <2>3. n + 1 \in Apps /\ n + 1 \in 0 .. MaxApps /\ n + 1 \in Nat
    BY <1>3, <2>2 DEF Apps
  <2>4. kind' = [kind EXCEPT ![n + 1] = k]
    BY <1>4, <1>8
  <2>5. /\ kind' \in [Apps -> {"none", "Telemetry", "VideoStream"}]
        /\ Installed' = 1 .. n + 1
        /\ OfKind(k)' = OfKind(k) \cup {n + 1}
        /\ \A o \in {"Telemetry", "VideoStream"} \ {k} : OfKind(o)' = OfKind(o)
    BY <1>2, <1>3, <2>3, <2>4, InstallNext DEF AppInv
  <2>6. StartsUnderWay' = n + 1 + Cardinality(Installing(inbox')) + (IF Installs(msg') THEN 1 ELSE 0)
    BY <1>1, <2>3, <2>5, StartsCountedNext
  <2>7. StartsUnderWay' = StartsUnderWay
    BY <1>3, <1>4, <1>5, <1>8, <2>1, <2>6
  <2>8. InstalledInOrder'
    BY <2>3, <2>5 DEF InstalledInOrder
  <2> QED BY <1>4, <2>5, <2>7, <2>8
<1>9. CASE StartTelemetry
  <2>1. /\ msg = Start("Telemetry") /\ msg' = NoMessage
        /\ kind' = [kind EXCEPT ![NextIndex] = "Telemetry"]
        /\ telemetryAppList' = telemetryAppList \cup {NextIndex}
        /\ UNCHANGED << inbox, videoServerAppList, gcsVideoClientAppList, clients, toldClients >>
    BY <1>9 DEF StartTelemetry, Handled
  <2>2. /\ kind' \in [Apps -> {"none", "Telemetry", "VideoStream"}]
        /\ OfKind("Telemetry")' = OfKind("Telemetry") \cup {NextIndex}
        /\ OfKind("VideoStream")' = OfKind("VideoStream")
        /\ InstalledInOrder' /\ StartsUnderWay' <= MaxApps
    BY <1>8, <2>1
  <2>3. AppTypes'
    BY <2>1, <2>2 DEF AppInv, AppTypes
  <2> QED BY <2>2, <2>3 DEF AppInv
<1>10. CASE StartVideo
  <2>1. /\ msg = Start("VideoStream") /\ msg' = NoMessage
        /\ kind' = [kind EXCEPT ![NextIndex] = "VideoStream"]
        /\ videoServerAppList' = videoServerAppList \cup {NextIndex}
        /\ clients' = clients + 1
        /\ gcsVideoClientAppList' = gcsVideoClientAppList \cup {clients + 1}
        /\ UNCHANGED << inbox, telemetryAppList, toldClients >>
    BY <1>10 DEF StartVideo, Handled
  <2>2. /\ kind' \in [Apps -> {"none", "Telemetry", "VideoStream"}]
        /\ OfKind("VideoStream")' = OfKind("VideoStream") \cup {NextIndex}
        /\ OfKind("Telemetry")' = OfKind("Telemetry")
        /\ InstalledInOrder' /\ StartsUnderWay' <= MaxApps
    BY <1>8, <2>1
  <2>3. /\ clients' \in Nat /\ gcsVideoClientAppList' = 1 .. clients'
        /\ toldClients' \subseteq 1 .. clients'
    BY <2>1 DEF AppInv, AppTypes
  <2>4. AppTypes'
    BY <2>1, <2>2, <2>3 DEF AppInv, AppTypes
  <2> QED BY <2>2, <2>4 DEF AppInv
<1>11. CASE StopVideo
  <2>1. /\ UNCHANGED << kind, telemetryAppList, videoServerAppList, gcsVideoClientAppList, clients,
                        inbox >>
        /\ toldClients' = toldClients \cup gcsVideoClientAppList /\ msg' = NoMessage
    BY <1>11 DEF StopVideo, Handled
  <2>2. Installed' = 1 .. n /\ InstalledInOrder'
    BY <1>2, <2>1 DEF Installed, InstalledInOrder
  <2>3. AppTypes'
    BY <2>1 DEF AppInv, AppTypes, OfKind
  <2>4. StartsUnderWay' = n + Cardinality(Installing(inbox')) + (IF Installs(msg') THEN 1 ELSE 0)
    BY <1>1, <1>3, <2>2, StartsCountedNext
  <2>5. StartsUnderWay' <= MaxApps
    BY <1>3, <1>4, <1>5, <2>1, <2>4
  <2> QED BY <2>2, <2>3, <2>5 DEF AppInv
<1> QED BY <1>7, <1>9, <1>10, <1>11, AppSteps

-----------------------------------------------------------------------------
(***************************************************************************)
(* Inside a handler.  A position update that has begun has moved the nodes *)
(* it has not left, and no other state of the thread is in the middle of   *)
(* one, unless an exception has ended the program there; a stop of the     *)
(* telemetry has told the applications it has not left.                    *)
(***************************************************************************)
MovesTogether ==
  IF rx = "move" THEN \A n \in Nodes \ todo : position[n] = msg.at
                 ELSE sim # "aborted" => position[0] = position[1]

TellsInTurn ==
  /\ rx \in {"clear", "cancel"} => telemetryAppList \ todo \subseteq told
  /\ rx = "cancel" => Min(todo) \in told

HandlerInv == TodoTypes /\ MovesTogether /\ TellsInTurn

\* A program that was terminated stays so.
LEMMA AbortLasts ==
  ASSUME ThreadInv, [Next]_allVars, sim = "aborted"
  PROVE  sim' = "aborted"
<1>1. rx = "ended"
  BY DEF ThreadInv, JoinsWhatItStops
<1> QED
  BY <1>1, ThreadSteps
  DEF RunLoopTest, Receive, Terminate, StartReceiver, StopReceiver, StopSimulator, Destroy,
      Destructor, Join, CommandStartEvent, CommandStopEvent, NextEvent

\* What a step does inside the handlers that take several steps.
LEMMA HandlerSteps ==
  ASSUME [Next]_allVars
  PROVE  \/ UNCHANGED << rx, todo, msg, position, told, telemetryAppList >>
         \/ /\ rx \notin {"move", "clear", "cancel"} /\ rx' \notin {"move", "clear", "cancel"}
            /\ UNCHANGED << todo, position >>
            /\ telemetryAppList \subseteq telemetryAppList'
         \/ HandleActors \/ \E n \in Nodes : MoveActor(n)
         \/ StopTelemetry \/ StopTelemetryClear \/ StopTelemetryCancel
         \/ StartReceiver \/ Terminate
<1>1. CASE Run
  BY <1>1
  DEF Run, RunLoopTest, Receive, StartTelemetry, StartVideo, StopVideo, SendCommandTest,
      SendCommand, HandleUnparsable, Handled, appVars
<1>2. CASE Driver
  BY <1>2
  DEF Driver, StopReceiver, StopSimulator, CommandStartEvent, CommandStopEvent, Join, Destroy,
      Destructor, StopApplication, rxVars, appVars, eventVars, telemetryVars
<1>3. CASE CommandTimerEvent
  BY <1>3 DEF CommandTimerEvent, rxVars, appVars, telemetryVars
<1>4. ASSUME NEW a \in Apps, TelemetryEvent(a) \/ TelemetryCall(a)
      PROVE  UNCHANGED << rx, todo, msg, position, told, telemetryAppList >>
  BY <1>4
  DEF TelemetryEvent, TelemetryCall, DoInitialize, StartApplication, TimerFires,
      SendTelemetryUpdate, CheckRunning, SendWithPriority, ScheduleNext, rxVars, appVars
<1>5. CASE \E m \in Messages : Publish(m)
  BY <1>5 DEF Publish, rxVars, appVars, eventVars, telemetryVars
<1>6. CASE UNCHANGED allVars
  BY <1>6 DEF allVars, rxVars, appVars, eventVars, telemetryVars
<1> QED BY <1>1, <1>2, <1>3, <1>4, <1>5, <1>6 DEF Next, Exited

\* The driver puts the nodes in one place.
LEMMA HandlerInvInit == Init => HandlerInv
BY ReceiverAssumption DEF Init, HandlerInv, TodoTypes, MovesTogether, TellsInTurn, Nodes

\* Every step keeps the invariant.
LEMMA HandlerInvStep ==
  ThreadInv /\ MessageInv /\ HandlerInv /\ [Next]_allVars => HandlerInv'
<1> SUFFICES ASSUME ThreadInv, MessageInv, HandlerInv, [Next]_allVars PROVE HandlerInv'
  OBVIOUS
<1>0. /\ sim = "aborted" => sim' = "aborted"
      /\ sim = "aborted" => rx = "ended"
  BY AbortLasts DEF ThreadInv, JoinsWhatItStops
<1>1. CASE UNCHANGED << rx, todo, msg, position, told, telemetryAppList >>
  BY <1>0, <1>1 DEF HandlerInv, TodoTypes, MovesTogether, TellsInTurn
<1>2. CASE /\ rx \notin {"move", "clear", "cancel"} /\ rx' \notin {"move", "clear", "cancel"}
           /\ UNCHANGED << todo, position >>
           /\ telemetryAppList \subseteq telemetryAppList'
  BY <1>0, <1>2 DEF HandlerInv, TodoTypes, MovesTogether, TellsInTurn
<1>3. CASE HandleActors
  BY <1>0, <1>3 DEF HandleActors, HandlerInv, TodoTypes, MovesTogether, TellsInTurn, Nodes
<1>4. ASSUME NEW n \in Nodes, MoveActor(n) PROVE HandlerInv'
  <2>1. /\ rx = "move" /\ position' = [position EXCEPT ![n] = msg.at] /\ todo' = todo \ {n}
        /\ IF todo' = {} THEN rx' = "check" ELSE rx' = rx /\ msg' = msg
    BY <1>4 DEF MoveActor, SetNodePosition, Handled
  <2>2. msg.at \in Places
    BY <2>1 DEF MessageInv, Actors
  <2>3. /\ position \in [Nodes -> Places] /\ todo \subseteq Nodes
        /\ \A k \in Nodes \ todo : position[k] = msg.at
    BY <2>1 DEF HandlerInv, TodoTypes, MovesTogether
  <2>4. position' \in [Nodes -> Places] /\ \A k \in Nodes \ todo' : position'[k] = msg.at
    BY <2>1, <2>2, <2>3
  <2>5. MovesTogether'
    BY <2>1, <2>4 DEF MovesTogether, Nodes
  <2> QED BY <2>1, <2>3, <2>4, <2>5 DEF HandlerInv, TodoTypes, TellsInTurn
<1>5. CASE StopTelemetry
  <2>1. /\ rx = "handle" /\ todo' = telemetryAppList /\ telemetryAppList' = telemetryAppList
        /\ position' = position /\ (IF todo' = {} THEN rx' = "check" ELSE rx' = "clear")
    BY <1>5 DEF StopTelemetry, Handled, appVars
  <2> QED BY <1>0, <2>1 DEF HandlerInv, TodoTypes, MovesTogether, TellsInTurn
<1>6. CASE StopTelemetryClear
  <2>1. /\ rx = "clear" /\ rx' = "cancel" /\ told' = told \cup {Min(todo)}
        /\ UNCHANGED << todo, position, telemetryAppList >>
    BY <1>6 DEF StopTelemetryClear, ClearRunning, appVars
  <2> QED BY <1>0, <2>1 DEF HandlerInv, TodoTypes, MovesTogether, TellsInTurn
<1>7. CASE StopTelemetryCancel
  <2>1. /\ rx = "cancel" /\ todo' = todo \ {Min(todo)} /\ told' = told
        /\ UNCHANGED << position, telemetryAppList >>
        /\ IF todo' = {} THEN rx' = "check" ELSE rx' = "clear"
    BY <1>7 DEF StopTelemetryCancel, CancelSend, Handled, appVars
  <2> QED BY <1>0, <2>1 DEF HandlerInv, TodoTypes, MovesTogether, TellsInTurn
<1>8. CASE StartReceiver
  <2>1. StartPending
    BY <1>8, NextEventTakes DEF StartReceiver, ThreadInv, StartPending
  <2>2. rx = "none" /\ rx' = "check" /\ UNCHANGED << todo, position, telemetryAppList >>
    BY <1>8, <2>1 DEF StartReceiver, ThreadInv, StartsOnce, appVars
  <2> QED BY <1>2, <2>2
<1>9. CASE Terminate
  <2>1. /\ rx = "handle" /\ rx' = "ended" /\ sim' = "aborted"
        /\ UNCHANGED << todo, telemetryAppList >>
    BY <1>9 DEF Terminate, appVars
  <2>2. position' \in [Nodes -> Places]
    BY <1>9 DEF Terminate, HandlerInv, TodoTypes
  <2> QED BY <2>1, <2>2 DEF HandlerInv, TodoTypes, MovesTogether, TellsInTurn
<1> QED BY <1>1, <1>2, <1>3, <1>4, <1>5, <1>6, <1>7, <1>8, <1>9, HandlerSteps

-----------------------------------------------------------------------------
(***************************************************************************)
(* The command application, and all of it together.                        *)
(***************************************************************************)
\* The application that is started sends its first check in the same step.
LEMMA CommandTypesInit == Init => CommandTypes
<1>1. 0 \in 0 .. FastSends
  BY CommandAssumption
<1> QED BY <1>1 DEF Init, CommandInit, CommandTypes

\* Only the three steps of its own change it.
LEMMA CommandTypesStep == CommandTypes /\ [Next]_allVars => CommandTypes'
<1> SUFFICES ASSUME CommandTypes, [Next]_allVars PROVE CommandTypes'
  OBVIOUS
<1>1. FastSends \in Nat
  BY CommandAssumption
<1>2. ASSUME SendCheck
      PROVE  /\ cmdInterval' \in {"0.05 s", "3 s"} /\ cmdSent' \in 0 .. FastSends
             /\ cmdTimer' \in BOOLEAN
  <2>1. cmdSent \in 0 .. FastSends
    BY DEF CommandTypes
  <2>2. cmdSent' = IF cmdSent < FastSends THEN cmdSent + 1 ELSE cmdSent
    BY <1>2 DEF SendCheck
  <2>3. cmdSent' \in 0 .. FastSends
    BY <1>1, <2>1, <2>2
  <2> QED BY <1>2, <2>3 DEF SendCheck
<1>3. CASE UNCHANGED commandVars
  BY <1>3 DEF commandVars, CommandTypes
<1>4. CASE StartCommand
  BY <1>2, <1>4 DEF StartCommand, CommandTypes
<1>5. CASE CommandTimer
  <2>1. cmdRunning' = cmdRunning /\ cmdRunning \in BOOLEAN
    BY <1>5 DEF CommandTimer, CommandTypes
  <2>2. CASE SendCheck
    BY <1>2, <2>1, <2>2, Zenon DEF CommandTypes
  <2>3. CASE cmdTimer' = FALSE /\ UNCHANGED << cmdInterval, cmdSent >>
    BY <2>1, <2>3 DEF CommandTypes
  <2> QED BY <1>5, <2>2, <2>3, Zenon DEF CommandTimer
<1>6. CASE StopCommand
  BY <1>6 DEF StopCommand, CommandTypes
<1>7. UNCHANGED commandVars \/ StartCommand \/ CommandTimer \/ StopCommand
  <2>1. CASE Run
    BY <2>1
    DEF Run, RunLoopTest, Receive, HandleActors, MoveActor, StartTelemetry, StartVideo,
        StopTelemetry, StopTelemetryClear, StopTelemetryCancel, StopVideo, SendCommandTest,
        SendCommand, HandleUnparsable, Terminate, eventVars
  <2>2. CASE Driver
    BY <2>2
    DEF Driver, StartReceiver, StopReceiver, StopSimulator, CommandStartEvent, CommandStopEvent,
        Join, Destroy, Destructor, StopApplication, eventVars
  <2>3. CASE CommandTimerEvent \/ \E a \in Apps : TelemetryEvent(a) \/ TelemetryCall(a)
    BY <2>3 DEF CommandTimerEvent, TelemetryEvent, TelemetryCall
  <2>4. CASE \E m \in Messages : Publish(m)
    BY <2>4 DEF Publish, eventVars
  <2>5. CASE UNCHANGED allVars
    BY <2>5 DEF allVars, eventVars
  <2> QED BY <2>1, <2>2, <2>3, <2>4, <2>5 DEF Next, Exited
<1> QED BY <1>3, <1>4, <1>5, <1>6, <1>7

ReceiverInv ==
  TelemetryInv /\ CommandTypes /\ ThreadInv /\ MessageInv /\ AppInv /\ HandlerInv

\* The parts of the invariant hold together in every reachable state.
THEOREM ReceiverInvariant == Spec => []ReceiverInv
<1>1. Init => ReceiverInv
  BY TelemetryInvInit, CommandTypesInit, ThreadInvInit, MessageInvInit, AppInvInit,
     HandlerInvInit DEF ReceiverInv
<1>2. ReceiverInv /\ [Next]_allVars => ReceiverInv'
  BY TelemetryInvStep, CommandTypesStep, ThreadInvStep, MessageInvStep, AppInvStep,
     HandlerInvStep DEF ReceiverInv
<1> QED BY <1>1, <1>2, PTL DEF Spec

\* Every reachable state has the types of ReceiverTypeOK: the lists name the
\* applications of their kind and no others, and a handler that has begun has
\* something left to do.
THEOREM ReceiverTypesCorrect == Spec => []ReceiverTypeOK
<1>1. ReceiverInv => ReceiverTypeOK
  BY DEF ReceiverInv, ReceiverTypeOK, TelemetryInv, ThreadInv, AppInv, HandlerInv
<1> QED BY <1>1, ReceiverInvariant, PTL

\* When StopApplication has returned the receiver thread is gone, and it has
\* left all nodes where one message put them.
THEOREM StopLeavesNoHalfUpdate == Spec => []StopLeavesWholeUpdate
<1>1. ReceiverInv => StopLeavesWholeUpdate
  <2> SUFFICES ASSUME ThreadInv, HandlerInv, ~joinable, rx # "none"
               PROVE  rx = "ended" /\ position[0] = position[1]
    BY Zenon DEF ReceiverInv, StopLeavesWholeUpdate
  <2>1. rx = "ended" /\ sim # "aborted"
    BY DEF ThreadInv, JoinsWhatItStops
  <2> QED BY <2>1 DEF HandlerInv, MovesTogether
<1> QED BY <1>1, ReceiverInvariant, PTL

\* Only the handlers of the two stop messages tell applications to stop, and
\* only they handle a stop message.
LEMMA StopSteps ==
  ASSUME ReceiverInv, [Next]_allVars
  PROVE  \/ told' = told /\ ~(msg.kind = "stop" /\ Handled)
         \/ StopTelemetry \/ StopTelemetryClear \/ StopTelemetryCancel \/ StopVideo
<1>1. MessageInv
  BY DEF ReceiverInv
<1>2. ASSUME msg' = msg PROVE ~(msg.kind = "stop" /\ Handled)
  BY <1>2 DEF Handled, NoMessage
<1>3. CASE Run
  <2>1. CASE RunLoopTest \/ Receive
    BY <1>1, <2>1
    DEF RunLoopTest, Receive, Handled, NoMessage, MessageInv, eventVars, telemetryVars
  <2>2. CASE HandleActors \/ \E n \in Nodes : MoveActor(n)
    BY <1>1, <2>2 DEF HandleActors, MoveActor, MessageInv, Actors, eventVars, telemetryVars
  <2>3. CASE StartTelemetry \/ StartVideo
    BY <2>3 DEF StartTelemetry, StartVideo, Install, Start, eventVars, telemetryVars
  <2>4. CASE SendCommandTest \/ SendCommand
    BY <1>1, <2>4 DEF SendCommandTest, SendCommand, MessageInv, Start, eventVars, telemetryVars
  <2>5. CASE HandleUnparsable \/ Terminate
    BY <2>5 DEF HandleUnparsable, Terminate, Unparsable, Incomplete, eventVars, telemetryVars
  <2> QED BY <1>3, <2>1, <2>2, <2>3, <2>4, <2>5 DEF Run
<1>4. CASE Driver
  BY <1>2, <1>4
  DEF Driver, StartReceiver, StopReceiver, StopSimulator, CommandStartEvent, CommandStopEvent,
      Join, Destroy, Destructor, StopApplication, rxVars, eventVars, telemetryVars
<1>5. CASE CommandTimerEvent
  BY <1>2, <1>5 DEF CommandTimerEvent, rxVars, telemetryVars
<1>6. ASSUME NEW a \in Apps, TelemetryEvent(a) \/ TelemetryCall(a)
      PROVE  told' = told /\ ~(msg.kind = "stop" /\ Handled)
  BY <1>2, <1>6
  DEF TelemetryEvent, TelemetryCall, DoInitialize, StartApplication, TimerFires,
      SendTelemetryUpdate, CheckRunning, SendWithPriority, ScheduleNext, rxVars
<1>7. CASE \E m \in Messages : Publish(m)
  BY <1>2, <1>7 DEF Publish, rxVars, eventVars, telemetryVars
<1>8. CASE UNCHANGED allVars
  BY <1>2, <1>8 DEF allVars, rxVars, eventVars, telemetryVars
<1> QED BY <1>3, <1>4, <1>5, <1>6, <1>7, <1>8 DEF Next, Exited

\* A stop message reaches every application of its type that was installed
\* before it, whatever the simulator does meanwhile, and no other.
THEOREM StopReaches == Spec => StopReachesAll
<1> DEFINE A == /\ \A a \in told' \ told : msg = Stop(kind[a])
                /\ msg.kind = "stop" /\ Handled => OfKind(msg.app) \subseteq told'
                /\ msg = Stop("VideoStream") /\ Handled => 1 .. clients \subseteq toldClients'
<1>1. ASSUME ReceiverInv, [Next]_allVars PROVE A
  <2>1. /\ telemetryAppList = OfKind("Telemetry") /\ videoServerAppList = OfKind("VideoStream")
        /\ gcsVideoClientAppList = 1 .. clients
    BY <1>1 DEF ReceiverInv, AppInv, AppTypes
  <2>2. ASSUME rx = "clear" \/ rx = "cancel"
        PROVE  /\ msg = Stop("Telemetry") /\ Min(todo) \in OfKind("Telemetry")
               /\ telemetryAppList \ todo \subseteq told /\ (rx = "cancel" => Min(todo) \in told)
    <3>1. todo \subseteq telemetryAppList /\ todo # {}
      BY <1>1, <2>2 DEF ReceiverInv, HandlerInv, TodoTypes
    <3>2. todo \in SUBSET Nat
      BY <2>1, <3>1 DEF OfKind, Apps
    <3>3. Min(todo) \in todo
      BY <3>1, <3>2, MinIn
    <3>4. msg = Stop("Telemetry")
      BY <1>1, <2>2 DEF ReceiverInv, MessageInv
    <3>5. telemetryAppList \ todo \subseteq told /\ (rx = "cancel" => Min(todo) \in told)
      BY <1>1, <2>2 DEF ReceiverInv, HandlerInv, TellsInTurn
    <3> QED BY <2>1, <3>1, <3>3, <3>4, <3>5
  <2>3. CASE told' = told /\ ~(msg.kind = "stop" /\ Handled)
    BY <2>3 DEF Stop
  <2>4. CASE StopTelemetry
    <3>1. /\ msg = Stop("Telemetry") /\ told' = told
          /\ todo' = telemetryAppList /\ (Handled => todo' = {})
      BY <2>4 DEF StopTelemetry, Handled, NoMessage, Stop, eventVars, telemetryVars
    <3> QED BY <2>1, <3>1 DEF Stop
  <2>5. CASE StopTelemetryClear
    <3>1. rx = "clear" /\ rx' = "cancel" /\ told' = told \cup {Min(todo)}
      BY <2>5 DEF StopTelemetryClear, ClearRunning
    <3> QED BY <2>2, <3>1 DEF Handled, OfKind
  <2>6. CASE StopTelemetryCancel
    <3>1. /\ rx = "cancel" /\ told' = told /\ todo' = todo \ {Min(todo)}
          /\ Handled => todo' = {}
      BY <2>6 DEF StopTelemetryCancel, CancelSend, Handled
    <3>2. Handled => telemetryAppList \subseteq told'
      BY <2>2, <3>1
    <3> QED BY <2>1, <2>2, <3>1, <3>2 DEF Stop
  <2>7. CASE StopVideo
    <3>1. /\ msg = Stop("VideoStream") /\ toldClients' = toldClients \cup gcsVideoClientAppList
          /\ told' = told \cup (videoServerAppList \cap OfKind("VideoStream"))
      BY <2>7 DEF StopVideo
    <3> QED BY <2>1, <3>1 DEF Stop, OfKind
  <2> QED BY <1>1, <2>3, <2>4, <2>5, <2>6, <2>7, StopSteps
<1>2. ReceiverInv /\ [Next]_allVars => [A]_allVars
  BY <1>1
<1> QED BY <1>2, ReceiverInvariant, PTL DEF Spec, StopReachesAll

=============================================================================
