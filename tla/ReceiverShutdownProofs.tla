----------------------- MODULE ReceiverShutdownProofs ------------------------
(***************************************************************************)
(* Theorems about the end of a simulation with a receiver in it, for every *)
(* agenda of a driver that stops the receiver before it takes away what    *)
(* the receiver's handlers use: before the simulator stops and the nodes   *)
(* are destroyed, before the command application stops.  The agenda of     *)
(* test.cc is one; that of test_zmq.cc is not, and the run late_stop shows *)
(* what happens there.                                                     *)
(***************************************************************************)
EXTENDS ZmqReceiverProofs

\* Of the events s, each e that comes after a start of the receiver has a stop
\* of the receiver between the two.
StopsBefore(e, s) ==
  \A k \in 1 .. Len(s) : \A i \in 1 .. k - 1 :
    s[k] = e /\ s[i] = "receiverStart" => \E j \in i + 1 .. k - 1 : s[j] = "receiverStop"

\* Of the events s, each e has a stop of the receiver before it.
StoppedFirst(e, s) ==
  \A k \in 1 .. Len(s) : s[k] = e => \E j \in 1 .. k - 1 : s[j] = "receiverStop"

\* What is left of the agenda is in order, and the receiver, when it is there,
\* is stopped before the next e.
InOrder(e) ==
  /\ StopsBefore(e, agenda)
  /\ joinable /\ sim = "events" => StoppedFirst(e, agenda)

-----------------------------------------------------------------------------
(***************************************************************************)
(* The order is an invariant.                                              *)
(***************************************************************************)

\* What an event leaves of the agenda is in order.
LEMMA EventKeepsOrder ==
  ASSUME ThreadInv, NEW first, NextEvent(first), NEW e, StopsBefore(e, agenda)
  PROVE  /\ StopsBefore(e, agenda')
         /\ first = "receiverStart" => StoppedFirst(e, agenda')
         /\ first # "receiverStop" /\ StoppedFirst(e, agenda) => StoppedFirst(e, agenda')
         /\ StoppedFirst(e, agenda) => first # e
<1>1. /\ first = agenda[1] /\ Len(agenda) \in Nat \ {0} /\ Len(agenda') = Len(agenda) - 1
      /\ \A i \in 1 .. Len(agenda') : agenda'[i] = agenda[i + 1] /\ i + 1 \in 1 .. Len(agenda)
  BY NextEventTakes DEF ThreadInv
<1>2. StopsBefore(e, agenda')
  <2> SUFFICES ASSUME NEW k \in 1 .. Len(agenda'), NEW i \in 1 .. k - 1,
                      agenda'[k] = e, agenda'[i] = "receiverStart"
               PROVE  \E j \in i + 1 .. k - 1 : agenda'[j] = "receiverStop"
    BY DEF StopsBefore
  <2>1. /\ k + 1 \in 1 .. Len(agenda) /\ i + 1 \in 1 .. (k + 1) - 1
        /\ agenda[k + 1] = e /\ agenda[i + 1] = "receiverStart"
    BY <1>1
  <2>2. PICK j \in (i + 1) + 1 .. (k + 1) - 1 : agenda[j] = "receiverStop"
    BY <2>1 DEF StopsBefore
  <2>3. j - 1 \in i + 1 .. k - 1 /\ j - 1 \in 1 .. Len(agenda') /\ (j - 1) + 1 = j
    BY <1>1
  <2> QED BY <1>1, <2>2, <2>3
<1>3. ASSUME first = "receiverStart" PROVE StoppedFirst(e, agenda')
  <2> SUFFICES ASSUME NEW k \in 1 .. Len(agenda'), agenda'[k] = e
               PROVE  \E j \in 1 .. k - 1 : agenda'[j] = "receiverStop"
    BY DEF StoppedFirst
  <2>1. /\ k + 1 \in 1 .. Len(agenda) /\ 1 \in 1 .. (k + 1) - 1
        /\ agenda[k + 1] = e /\ agenda[1] = "receiverStart"
    BY <1>1, <1>3
  <2>2. PICK j \in 1 + 1 .. (k + 1) - 1 : agenda[j] = "receiverStop"
    BY <2>1 DEF StopsBefore
  <2>3. j - 1 \in 1 .. k - 1 /\ j - 1 \in 1 .. Len(agenda') /\ (j - 1) + 1 = j
    BY <1>1
  <2> QED BY <1>1, <2>2, <2>3
<1>4. ASSUME first # "receiverStop", StoppedFirst(e, agenda) PROVE StoppedFirst(e, agenda')
  <2> SUFFICES ASSUME NEW k \in 1 .. Len(agenda'), agenda'[k] = e
               PROVE  \E j \in 1 .. k - 1 : agenda'[j] = "receiverStop"
    BY DEF StoppedFirst
  <2>1. k + 1 \in 1 .. Len(agenda) /\ agenda[k + 1] = e
    BY <1>1
  <2>2. PICK j \in 1 .. (k + 1) - 1 : agenda[j] = "receiverStop"
    BY <1>4, <2>1 DEF StoppedFirst
  <2>3. j # 1
    BY <1>1, <1>4, <2>2
  <2>4. j - 1 \in 1 .. k - 1 /\ j - 1 \in 1 .. Len(agenda') /\ (j - 1) + 1 = j
    BY <1>1, <2>3
  <2> QED BY <1>1, <2>2, <2>4
<1>5. ASSUME StoppedFirst(e, agenda), first = e PROVE FALSE
  <2>1. 1 \in 1 .. Len(agenda) /\ agenda[1] = e
    BY <1>1, <1>5
  <2>2. PICK j \in 1 .. 1 - 1 : agenda[j] = "receiverStop"
    BY <1>5, <2>1 DEF StoppedFirst
  <2> QED BY <2>2
<1> QED BY <1>2, <1>3, <1>4, <1>5

\* At the start the whole agenda is left, and there is no receiver thread.
LEMMA InOrderInit == ASSUME NEW e PROVE Init /\ StopsBefore(e, Agenda) => InOrder(e)
BY DEF Init, InOrder

\* Every step keeps the order.
LEMMA InOrderStep ==
  ASSUME NEW e, ThreadInv, InOrder(e), [Next]_allVars
  PROVE  InOrder(e)'
<1>1. ASSUME agenda' = agenda, joinable' /\ sim' = "events" => joinable /\ sim = "events"
      PROVE  InOrder(e)'
  BY <1>1 DEF InOrder, StopsBefore, StoppedFirst
<1>2. CASE UNCHANGED << sim, agenda, running, joinable, lateMessages >>
  BY <1>1, <1>2
<1>3. CASE RunLoopTest \/ Receive
  BY <1>1, <1>3 DEF RunLoopTest, Receive, simVars, threadVars
<1>4. CASE Terminate
  BY <1>1, <1>4 DEF Terminate, threadVars
<1>5. CASE Destroy
  BY <1>1, <1>5 DEF Destroy, threadVars
<1>6. CASE Destructor
  BY <1>1, <1>6 DEF Destructor, StopApplication
<1>7. CASE Join("joining", "events") \/ Join("joining at exit", "exited")
  BY <1>1, <1>7 DEF Join
<1>8. CASE StartReceiver
  BY <1>8, EventKeepsOrder DEF StartReceiver, InOrder
<1>9. CASE StopReceiver
  <2>1. NextEvent("receiverStop") /\ (sim' = IF joinable THEN "joining" ELSE "events")
        /\ joinable' = joinable
    BY <1>9 DEF StopReceiver, StopApplication
  <2>2. ~(joinable' /\ sim' = "events")
    BY <2>1
  <2> QED BY <2>1, <2>2, EventKeepsOrder DEF InOrder
<1>10. ASSUME NEW first, NextEvent(first), first # "receiverStop", joinable' = joinable
       PROVE  InOrder(e)'
  <2>1. sim = "events"
    BY <1>10 DEF NextEvent
  <2> QED BY <1>10, <2>1, EventKeepsOrder DEF InOrder
<1>11. CASE StopSimulator
  BY <1>10, <1>11 DEF StopSimulator, threadVars
<1>12. CASE CommandStartEvent \/ CommandStopEvent
  BY <1>10, <1>12 DEF CommandStartEvent, CommandStopEvent, threadVars
<1> QED
  BY <1>2, <1>3, <1>4, <1>5, <1>6, <1>7, <1>8, <1>9, <1>11, <1>12, ThreadSteps

-----------------------------------------------------------------------------
(***************************************************************************)
(* A driver that stops the receiver before the simulator.  No thread is    *)
(* left when Simulator::Run returns, so that the destruction of the nodes  *)
(* and the writing of the results have the program to themselves.          *)
(***************************************************************************)
NoThreadAfterRun ==
  InOrder("simulatorStop")
    /\ (sim \in {"stopped", "destroyed", "joining at exit", "exited"} => ~joinable)

\* Every step keeps it.
LEMMA NoThreadAfterRunStep ==
  ThreadInv /\ NoThreadAfterRun /\ [Next]_allVars => NoThreadAfterRun'
<1> SUFFICES ASSUME ThreadInv, NoThreadAfterRun, [Next]_allVars PROVE NoThreadAfterRun'
  OBVIOUS
<1> DEFINE After == {"stopped", "destroyed", "joining at exit", "exited"}
<1>1. InOrder("simulatorStop")'
  BY InOrderStep DEF NoThreadAfterRun
<1>2. ASSUME joinable' = joinable, sim' \in After => sim \in After PROVE NoThreadAfterRun'
  BY <1>1, <1>2 DEF NoThreadAfterRun
<1>3. ASSUME sim' \notin After \/ ~joinable' PROVE NoThreadAfterRun'
  BY <1>1, <1>3 DEF NoThreadAfterRun
<1>4. CASE UNCHANGED << sim, agenda, running, joinable, lateMessages >>
  BY <1>2, <1>4
<1>5. CASE RunLoopTest \/ Receive
  BY <1>2, <1>5 DEF RunLoopTest, Receive, simVars, threadVars
<1>6. CASE Terminate
  BY <1>3, <1>6 DEF Terminate
<1>7. CASE Destroy
  BY <1>2, <1>7 DEF Destroy, threadVars
<1>8. CASE Destructor
  <2>1. sim = "destroyed" /\ joinable' = joinable
    BY <1>8 DEF Destructor, StopApplication
  <2> QED BY <1>2, <2>1
<1>9. CASE Join("joining", "events") \/ Join("joining at exit", "exited")
  BY <1>3, <1>9 DEF Join
<1>10. CASE StartReceiver \/ CommandStartEvent \/ CommandStopEvent
  <2>1. sim' = "events"
    BY <1>10 DEF StartReceiver, CommandStartEvent, CommandStopEvent, NextEvent
  <2> QED BY <1>3, <2>1
<1>11. CASE StopReceiver
  <2>1. sim' \in {"joining", "events"}
    BY <1>11 DEF StopReceiver, StopApplication
  <2> QED BY <1>3, <2>1
<1>12. CASE StopSimulator
  <2>1. NextEvent("simulatorStop") /\ joinable' = joinable /\ sim = "events"
    BY <1>12 DEF StopSimulator, NextEvent, threadVars
  <2>2. ~joinable
    BY <2>1, EventKeepsOrder DEF NoThreadAfterRun, InOrder
  <2> QED BY <1>3, <2>1, <2>2
<1> QED
  BY <1>4, <1>5, <1>6, <1>7, <1>8, <1>9, <1>10, <1>11, <1>12, ThreadSteps

\* It holds in every reachable state, under such a driver.
LEMMA NoThreadAfterRunInvariant ==
  StopsBefore("simulatorStop", Agenda) /\ Spec => [](ThreadInv /\ NoThreadAfterRun)
<1> SUFFICES ASSUME StopsBefore("simulatorStop", Agenda)
             PROVE  Spec => [](ThreadInv /\ NoThreadAfterRun)
  OBVIOUS
<1>1. Init => NoThreadAfterRun
  BY InOrderInit DEF Init, NoThreadAfterRun
<1> QED BY <1>1, ThreadInvInit, ThreadInvStep, NoThreadAfterRunStep, PTL DEF Spec

\* If the receiver is stopped before the simulator, no message is handled once
\* the nodes are destroyed.
THEOREM NothingHandledAfterDestroy ==
  StopsBefore("simulatorStop", Agenda) /\ Spec => []NoHandlingAfterDestroy
<1>1. ThreadInv /\ NoThreadAfterRun => NoHandlingAfterDestroy
  BY DEF ThreadInv, NoThreadAfterRun, JoinsWhatItStops, NoHandlingAfterDestroy, NodesGone, Handling
<1> QED BY <1>1, NoThreadAfterRunInvariant, PTL

\* Nothing happens any more in a program that has been terminated.
LEMMA AbortedStops == ThreadInv /\ sim = "aborted" /\ [Next]_allVars => UNCHANGED allVars
<1> SUFFICES ASSUME ThreadInv, sim = "aborted", Next PROVE UNCHANGED allVars
  OBVIOUS
<1>1. rx = "ended"
  BY DEF ThreadInv, JoinsWhatItStops
<1>2. ~(\E m \in Messages : Publish(m))
  BY <1>1 DEF Publish
<1>3. ~Run
  BY <1>1
  DEF Run, RunLoopTest, Receive, HandleActors, MoveActor, StartTelemetry, StartVideo,
      StopTelemetry, StopTelemetryClear, StopTelemetryCancel, StopVideo, SendCommandTest,
      SendCommand, HandleUnparsable, Terminate
<1>4. ~Driver
  BY DEF Driver, StartReceiver, StopReceiver, StopSimulator, CommandStartEvent, CommandStopEvent,
         NextEvent, Join, Destroy, Destructor
<1>5. ~(CommandTimerEvent \/ \E a \in Apps : TelemetryEvent(a) \/ TelemetryCall(a))
  BY DEF CommandTimerEvent, TelemetryEvent, TelemetryCall
<1> QED BY <1>2, <1>3, <1>4, <1>5 DEF Next, Exited

\* Only an incomplete message terminates the program.
LEMMA OnlyTerminateAborts ==
  ThreadInv /\ [Next]_allVars /\ sim # "aborted" /\ sim' = "aborted" => Terminate
<1> SUFFICES ASSUME [Next]_allVars, sim # "aborted", sim' = "aborted", ~Terminate PROVE FALSE
  OBVIOUS
<1>1. CASE sim' = sim
  BY <1>1
<1>2. CASE RunLoopTest \/ Receive
  BY <1>2 DEF RunLoopTest, Receive, simVars
<1>3. CASE StartReceiver \/ CommandStartEvent \/ CommandStopEvent
  BY <1>3 DEF StartReceiver, CommandStartEvent, CommandStopEvent
<1>4. CASE StopReceiver \/ Destructor
  BY <1>4 DEF StopReceiver, Destructor, StopApplication
<1>5. CASE StopSimulator \/ Destroy \/ Join("joining", "events") \/ Join("joining at exit", "exited")
  BY <1>5 DEF StopSimulator, Destroy, Join
<1> QED BY <1>1, <1>2, <1>3, <1>4, <1>5, ThreadSteps

\* If the receiver is stopped before the simulator, a message that lacks a
\* field brings the program down only while the receiver is running or being
\* stopped.
THEOREM AbortsOnlyWhileReceiving ==
  StopsBefore("simulatorStop", Agenda) /\ Spec => AbortsWhileReceiving
<1> SUFFICES ASSUME StopsBefore("simulatorStop", Agenda) PROVE Spec => AbortsWhileReceiving
  OBVIOUS
<1>1. ThreadInv /\ NoThreadAfterRun /\ [Next]_allVars
        => [sim' = "aborted" => running \/ sim = "joining"]_allVars
  <2> SUFFICES ASSUME ThreadInv, NoThreadAfterRun, [Next]_allVars, sim # "aborted",
                      sim' = "aborted"
               PROVE  running \/ sim = "joining"
    BY AbortedStops
  <2>1. rx = "handle"
    BY OnlyTerminateAborts DEF Terminate
  <2>2. joinable
    BY <2>1 DEF ThreadInv, JoinsWhatItStops
  <2>3. sim \in {"events", "joining"}
    BY <2>2 DEF ThreadInv, ThreadTypes, NoThreadAfterRun
  <2> QED BY <2>2, <2>3 DEF ThreadInv, JoinsWhatItStops
<1> QED
  BY <1>1, NoThreadAfterRunInvariant, PTL DEF Spec, AbortsWhileReceiving

-----------------------------------------------------------------------------
(***************************************************************************)
(* A driver that stops the receiver before the command application.  The   *)
(* receiver thread tests m_running and sends later, without a lock; what   *)
(* saves it is that the application is not stopped while there is a        *)
(* receiver thread.                                                        *)
(***************************************************************************)
TestStillHolds == InOrder("commandStop") /\ (rx = "command" => cmdRunning)

\* Every step keeps it.
LEMMA TestStillHoldsStep ==
  ThreadInv /\ TestStillHolds /\ [Next]_allVars => TestStillHolds'
<1> SUFFICES ASSUME ThreadInv, TestStillHolds, [Next]_allVars PROVE TestStillHolds'
  OBVIOUS
<1>1. InOrder("commandStop")'
  BY InOrderStep DEF TestStillHolds
<1>2. ASSUME cmdRunning => cmdRunning', rx' = "command" => rx = "command" \/ cmdRunning'
      PROVE  TestStillHolds'
  BY <1>1, <1>2 DEF TestStillHolds
<1>3. CASE Run
  <2>1. CASE SendCommandTest
    BY <1>2, <2>1 DEF SendCommandTest, Handled, eventVars, commandVars
  <2>2. CASE ~SendCommandTest
    BY <1>2, <1>3, <2>2
    DEF Run, RunLoopTest, Receive, HandleActors, MoveActor, StartTelemetry, StartVideo,
        StopTelemetry, StopTelemetryClear, StopTelemetryCancel, StopVideo, SendCommand,
        HandleUnparsable, Terminate, Handled, eventVars, commandVars
  <2> QED BY <2>1, <2>2
<1>4. CASE CommandStopEvent
  <2>1. NextEvent("commandStop") /\ sim = "events" /\ rx' = rx
    BY <1>4 DEF CommandStopEvent, NextEvent, rxVars
  <2>2. ~joinable
    BY <2>1, EventKeepsOrder DEF TestStillHolds, InOrder
  <2>3. rx' # "command"
    BY <2>1, <2>2 DEF ThreadInv, JoinsWhatItStops
  <2> QED BY <1>1, <2>3 DEF TestStillHolds
<1>5. CASE CommandStartEvent
  BY <1>2, <1>5 DEF CommandStartEvent, StartCommand
<1>6. CASE Driver /\ ~CommandStartEvent /\ ~CommandStopEvent
  <2>1. UNCHANGED commandVars
    BY <1>6
    DEF Driver, StartReceiver, StopReceiver, StopSimulator, Join, Destroy, Destructor,
        StopApplication, eventVars
  <2>2. cmdRunning' = cmdRunning
    BY <2>1 DEF commandVars
  <2>3. rx' = rx \/ rx' = "check"
    BY <1>6
    DEF Driver, StartReceiver, StopReceiver, StopSimulator, Join, Destroy, Destructor,
        StopApplication, rxVars
  <2>4. cmdRunning => cmdRunning'
    BY <2>2, Zenon
  <2>5. rx' = "command" => rx = "command" \/ cmdRunning'
    BY <2>3
  <2> QED BY <1>2, <2>4, <2>5
<1>7. CASE CommandTimerEvent
  BY <1>2, <1>7 DEF CommandTimerEvent, CommandTimer, rxVars
<1>8. CASE \E a \in Apps : TelemetryEvent(a) \/ TelemetryCall(a)
  BY <1>2, <1>8 DEF TelemetryEvent, TelemetryCall, rxVars, commandVars
<1>9. CASE \E m \in Messages : Publish(m)
  BY <1>2, <1>9 DEF Publish, rxVars, eventVars, commandVars
<1>10. CASE UNCHANGED allVars
  BY <1>2, <1>10 DEF allVars, rxVars, eventVars, commandVars
<1> QED BY <1>3, <1>4, <1>5, <1>6, <1>7, <1>8, <1>9, <1>10 DEF Next, Exited

\* If the receiver is stopped before the command application, a command goes
\* out only while the application is running.
THEOREM CommandsOnlyWhileRunning ==
  StopsBefore("commandStop", Agenda) /\ Spec => CommandsWhileRunning
<1> SUFFICES ASSUME StopsBefore("commandStop", Agenda) PROVE Spec => CommandsWhileRunning
  OBVIOUS
<1>1. Init => TestStillHolds
  BY InOrderInit DEF Init, TestStillHolds
<1>2. TestStillHolds => (SendCommand => cmdRunning)
  BY DEF TestStillHolds, SendCommand
<1> QED
  BY <1>1, <1>2, ThreadInvInit, ThreadInvStep, TestStillHoldsStep, PTL
  DEF Spec, CommandsWhileRunning

=============================================================================
