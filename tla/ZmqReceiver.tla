----------------------------- MODULE ZmqReceiver -----------------------------
(***************************************************************************)
(* ZmqReceiverApp (zmq_receiver_app.cc) and the driver program around it.  *)
(*                                                                         *)
(* StartApplication creates a receiver thread that runs Run: it blocks in  *)
(* recv, handles the message and looks at m_running again.  The simulator  *)
(* thread calls StopApplication, which clears m_running and joins the      *)
(* receiver thread.  Handlers move nodes, install applications, stop them  *)
(* and make the command application send, while the simulator thread runs  *)
(* the applications' events (UavTelemetry, UavCommand).  There is no lock  *)
(* between the two threads.                                                *)
(*                                                                         *)
(* The driver's own schedule is the constant Agenda: when the receiver and *)
(* the command application start and stop and when Simulator::Run returns, *)
(* in the order of the simulator's event list.  After that the             *)
(* driver destroys the simulation, and at the end of main the destructor   *)
(* of ZmqReceiverApp calls StopApplication once more.                      *)
(*                                                                         *)
(* The video applications are ns-3's; of them the model keeps which are    *)
(* installed and for which StopApplication has been called.                *)
(*                                                                         *)
(* Of the publisher it is assumed that an actors message names both nodes  *)
(* and puts them in one place, unless it lacks a field; the branches that  *)
(* pass over an actor (an id that is no number, of an unknown type or of   *)
(* no node) are left out.  So is the branch for a recv without a result:   *)
(* a blocking recv has none only after an error of the socket.             *)
(***************************************************************************)
EXTENDS UavTelemetry, UavCommand, Sequences, FiniteSets, FiniteSetsExt

CONSTANTS
  Messages,   \* what the publisher may send under the receiver's topic
  Places,     \* the positions it may report
  HomePlace,  \* where the driver puts the nodes
  Agenda,     \* the driver's events in the order the simulator runs them
  MaxInbox    \* bound of the model on messages waiting in the socket

Nodes == {0, 1}  \* the ground station and the UAV

AgendaEvents ==
  {"receiverStart", "receiverStop", "commandStart", "commandStop", "simulatorStop"}

Start(app) == [kind |-> "start", app |-> app]
Stop(app) == [kind |-> "stop", app |-> app]
Actors(place) == [kind |-> "actors", at |-> place]
Unparsable == [kind |-> "unparsable"]
Incomplete == [kind |-> "incomplete"]  \* lacks a field the handler reads
NoMessage == [kind |-> "none"]

ASSUME ReceiverAssumption ==
  /\ HomePlace \in Places
  /\ Messages \subseteq {Unparsable, Incomplete, Start("Telemetry"), Stop("Telemetry"),
                         Start("VideoStream"), Stop("VideoStream"),
                         Start("ControlCommands")}
                        \cup {Actors(p) : p \in Places}
  /\ Agenda \in Seq(AgendaEvents)
  \* ns-3 starts an application once.
  /\ \A i, j \in 1 .. Len(Agenda) :
       Agenda[i] = "receiverStart" /\ Agenda[j] = "receiverStart" => i = j
  /\ MaxInbox \in Nat \ {0}

VARIABLES
  sim,               \* what the simulator (main) thread is doing
  agenda,            \* the events of Agenda not yet run
  running,           \* ZmqReceiverApp::m_running
  joinable,          \* m_thread is set and joinable
  rx,                \* where the receiver thread is in Run
  todo,              \* the nodes or applications its handler has left
  msg,               \* m_message, while it is being handled
  inbox,             \* the messages waiting in the socket
  kind,              \* the type of each application of the UAV node
  telemetryAppList,  \* m_telemetryAppList: positions among kind
  videoServerAppList,     \* m_videoServerAppList, likewise
  gcsVideoClientAppList,  \* m_gcsVideoClientAppList: numbers of clients
  clients,           \* how many video clients the ground station has
  toldClients,       \* history: the clients StopApplication was called for
  position,          \* the position of each node's mobility model
  lateMessages       \* history: messages received after m_running was cleared

appVars == << kind, telemetryAppList, videoServerAppList,
              gcsVideoClientAppList, clients, toldClients >>
simVars == << sim, agenda >>
threadVars == << running, joinable, lateMessages >>
rxVars == << rx, todo, msg, position >>
eventVars == << telemetryVars, commandVars >>
allVars == << eventVars, simVars, threadVars, rxVars, appVars, inbox >>

Init ==
  /\ TelemetryInit
  /\ CommandInit
  /\ sim = "events"
  /\ agenda = Agenda
  /\ running = FALSE
  /\ joinable = FALSE
  /\ rx = "none"
  /\ todo = {}
  /\ msg = NoMessage
  /\ inbox = << >>
  /\ kind = [a \in Apps |-> "none"]
  /\ telemetryAppList = {}
  /\ videoServerAppList = {}
  /\ gcsVideoClientAppList = {}
  /\ clients = 0
  /\ toldClients = {}
  /\ position = [n \in Nodes |-> HomePlace]
  /\ lateMessages = 0

Installed == {a \in Apps : kind[a] # "none"}
OfKind(app) == {a \in Apps : kind[a] = app}
NextIndex == Cardinality(Installed) + 1
NodesGone == sim \in {"destroyed", "joining at exit", "exited"}
Handling == rx \in {"handle", "move", "clear", "cancel", "command"}

-----------------------------------------------------------------------------
(***************************************************************************)
(* The publisher, another process.  What it sends before the receiver has  *)
(* subscribed is lost, and what it sends after the thread ended is not     *)
(* read.  It starts no more applications than the model has.               *)
(***************************************************************************)
Installs(m) == m \in {Start("Telemetry"), Start("VideoStream")}

StartsUnderWay ==
  Cardinality(Installed)
    + Cardinality({i \in DOMAIN inbox : Installs(inbox[i])})
    + (IF Installs(msg) THEN 1 ELSE 0)

Publish(m) ==
  /\ rx \notin {"none", "ended"}
  /\ Len(inbox) < MaxInbox
  /\ Installs(m) => StartsUnderWay < MaxApps
  /\ inbox' = Append(inbox, m)
  /\ UNCHANGED << eventVars, simVars, threadVars, rxVars, appVars >>

-----------------------------------------------------------------------------
(***************************************************************************)
(* The receiver thread.                                                    *)
(***************************************************************************)
\* The thread goes back to the head of Run's loop.
Handled ==
  /\ rx' = "check"
  /\ msg' = NoMessage

LoopForever ==
  /\ rx = "check"
  /\ rx' = "recv"
  /\ UNCHANGED << eventVars, simVars, threadVars, appVars, todo, msg, inbox, position >>

RunLoopTest ==
  /\ rx = "check"
  /\ rx' = IF running THEN "recv" ELSE "ended"
  /\ UNCHANGED << eventVars, simVars, threadVars, appVars, todo, msg, inbox, position >>

\* recv blocks until there is a message, whatever m_running says by then; it
\* does not come back without one.
Receive ==
  /\ rx = "recv"
  /\ inbox # << >>
  /\ msg' = Head(inbox)
  /\ inbox' = Tail(inbox)
  /\ rx' = "handle"
  /\ lateMessages' = IF running THEN lateMessages ELSE lateMessages + 1
  /\ UNCHANGED << eventVars, simVars, running, joinable, appVars, todo, position >>

HandleActors ==
  /\ rx = "handle" /\ msg.kind = "actors"
  /\ rx' = "move"
  /\ todo' = Nodes
  /\ UNCHANGED << eventVars, simVars, threadVars, appVars, msg, inbox, position >>

\* Every node of the drivers has a mobility model.
SetNodePosition(n, at) == position' = [position EXCEPT ![n] = at]

\* One actor of the message; the message lists them in any order.
MoveActor(n) ==
  /\ rx = "move"
  /\ n \in todo
  /\ SetNodePosition(n, msg.at)
  /\ todo' = todo \ {n}
  /\ IF todo' = {} THEN Handled ELSE UNCHANGED << rx, msg >>
  /\ UNCHANGED << eventVars, simVars, threadVars, appVars, inbox >>

IndexReadLate ==
  /\ rx = "handle" /\ msg = Start("Telemetry")
  /\ Install(NextIndex)
  /\ kind' = [kind EXCEPT ![NextIndex] = "Telemetry"]
  /\ telemetryAppList' = telemetryAppList \cup {NextIndex + 1}
  /\ Handled
  /\ UNCHANGED << commandVars, simVars, threadVars, videoServerAppList,
                  gcsVideoClientAppList, clients, toldClients, todo, inbox, position >>

\* The list is the receiver thread's own, and the simulator thread sees the
\* application only once AddApplication has added it.
StartTelemetry ==
  /\ rx = "handle" /\ msg = Start("Telemetry")
  /\ Install(NextIndex)
  /\ kind' = [kind EXCEPT ![NextIndex] = "Telemetry"]
  /\ telemetryAppList' = telemetryAppList \cup {NextIndex}
  /\ Handled
  /\ UNCHANGED << commandVars, simVars, threadVars, videoServerAppList,
                  gcsVideoClientAppList, clients, toldClients, todo, inbox, position >>

\* A server at the UAV and a client at the ground station.
StartVideo ==
  /\ rx = "handle" /\ msg = Start("VideoStream")
  /\ kind' = [kind EXCEPT ![NextIndex] = "VideoStream"]
  /\ videoServerAppList' = videoServerAppList \cup {NextIndex}
  /\ clients' = clients + 1
  /\ gcsVideoClientAppList' = gcsVideoClientAppList \cup {clients + 1}
  /\ Handled
  /\ UNCHANGED << eventVars, simVars, threadVars, telemetryAppList, toldClients,
                  todo, inbox, position >>

StopTelemetry ==
  /\ rx = "handle" /\ msg = Stop("Telemetry")
  /\ todo' = telemetryAppList
  /\ IF todo' = {} THEN Handled ELSE rx' = "clear" /\ UNCHANGED msg
  /\ UNCHANGED << eventVars, simVars, threadVars, appVars, inbox, position >>

StopTelemetryClear ==
  /\ rx = "clear"
  /\ ClearRunning(Min(todo))
  /\ rx' = "cancel"
  /\ UNCHANGED << commandVars, simVars, threadVars, appVars, todo, msg, inbox, position >>

StopFirstOnly ==
  /\ rx = "cancel"
  /\ CancelSend(Min(todo))
  /\ todo' = {}
  /\ Handled
  /\ UNCHANGED << commandVars, simVars, threadVars, appVars, inbox, position >>

StopTelemetryCancel ==
  /\ rx = "cancel"
  /\ CancelSend(Min(todo))
  /\ todo' = todo \ {Min(todo)}
  /\ IF todo' = {} THEN Handled ELSE rx' = "clear" /\ UNCHANGED msg
  /\ UNCHANGED << commandVars, simVars, threadVars, appVars, inbox, position >>

\* The DynamicCast lets the call through for video servers only.
StopVideo ==
  /\ rx = "handle" /\ msg = Stop("VideoStream")
  /\ told' = told \cup (videoServerAppList \cap OfKind("VideoStream"))
  /\ toldClients' = toldClients \cup gcsVideoClientAppList
  /\ Handled
  /\ UNCHANGED << life, active, timer, stragglers, call, commandVars, simVars,
                  threadVars, kind, telemetryAppList, videoServerAppList,
                  gcsVideoClientAppList, clients, todo, inbox, position >>

\* SendCommand(PRIO_CRITICAL): test m_running, then send.
SendCommandTest ==
  /\ rx = "handle" /\ msg = Start("ControlCommands")
  /\ IF cmdRunning THEN rx' = "command" /\ UNCHANGED msg ELSE Handled
  /\ UNCHANGED << eventVars, simVars, threadVars, appVars, todo, inbox, position >>

SendCommand ==
  /\ rx = "command"
  /\ Handled
  /\ UNCHANGED << eventVars, simVars, threadVars, appVars, todo, inbox, position >>

\* A parse error is caught.
HandleUnparsable ==
  /\ rx = "handle" /\ msg = Unparsable
  /\ Handled
  /\ UNCHANGED << eventVars, simVars, threadVars, appVars, todo, inbox, position >>

\* No other exception is: it leaves the thread's function, and the whole
\* program is terminated.  If the message is one of actors, those before the
\* one that lacks a field have been moved.
Terminate ==
  /\ rx = "handle" /\ msg = Incomplete
  /\ \E moved \in SUBSET Nodes, at \in Places :
       position' = [n \in Nodes |-> IF n \in moved THEN at ELSE position[n]]
  /\ sim' = "aborted"
  /\ rx' = "ended"
  /\ msg' = NoMessage
  /\ UNCHANGED << eventVars, agenda, threadVars, appVars, todo, inbox >>

Run ==
  \/ RunLoopTest
  \/ Receive
  \/ HandleActors \/ \E n \in Nodes : MoveActor(n)
  \/ StartTelemetry \/ StartVideo
  \/ StopTelemetry \/ StopTelemetryClear \/ StopTelemetryCancel
  \/ StopVideo
  \/ SendCommandTest \/ SendCommand
  \/ HandleUnparsable \/ Terminate

-----------------------------------------------------------------------------
(***************************************************************************)
(* The simulator thread: the driver's events and the end of main.          *)
(***************************************************************************)
NextEvent(e) ==
  /\ sim = "events"
  /\ InEventLoop
  /\ agenda # << >> /\ Head(agenda) = e
  /\ agenda' = Tail(agenda)

StartReceiver ==
  /\ NextEvent("receiverStart")
  /\ running' = TRUE
  /\ joinable' = TRUE
  /\ rx' = "check"
  /\ UNCHANGED << eventVars, sim, lateMessages, appVars, todo, msg, position, inbox >>

StopWithoutJoin(waiting, after) ==
  /\ running' = FALSE
  /\ sim' = after
  /\ UNCHANGED << eventVars, joinable, lateMessages, rxVars, appVars, inbox >>

JoinWithoutStop(waiting, after) ==
  /\ sim' = IF joinable THEN waiting ELSE after
  /\ UNCHANGED << eventVars, running, joinable, lateMessages, rxVars, appVars, inbox >>

\* ZmqReceiverApp::StopApplication up to the join.
StopApplication(waiting, after) ==
  /\ running' = FALSE
  /\ sim' = IF joinable THEN waiting ELSE after
  /\ UNCHANGED << eventVars, joinable, lateMessages, rxVars, appVars, inbox >>

StopReceiver ==
  /\ NextEvent("receiverStop")
  /\ StopApplication("joining", "events")

ImpatientJoin(waiting, after) ==
  /\ sim = waiting
  /\ joinable' = FALSE
  /\ sim' = after
  /\ UNCHANGED << eventVars, agenda, running, lateMessages, rxVars, appVars, inbox >>

\* The join returns when the receiver thread has ended.
Join(waiting, after) ==
  /\ sim = waiting
  /\ rx = "ended"
  /\ joinable' = FALSE
  /\ sim' = after
  /\ UNCHANGED << eventVars, agenda, running, lateMessages, rxVars, appVars, inbox >>

\* Simulator::Stop's event: Run returns and no event runs any more.
StopSimulator ==
  /\ NextEvent("simulatorStop")
  /\ sim' = "stopped"
  /\ UNCHANGED << eventVars, threadVars, rxVars, appVars, inbox >>

Destroy ==
  /\ sim = "stopped"
  /\ sim' = "destroyed"
  /\ UNCHANGED << eventVars, agenda, threadVars, rxVars, appVars, inbox >>

\* The destructor of ZmqReceiverApp, at the end of main.
Destructor ==
  /\ sim = "destroyed"
  /\ StopApplication("joining at exit", "exited")
  /\ UNCHANGED agenda

CommandStartEvent ==
  /\ NextEvent("commandStart")
  /\ StartCommand
  /\ UNCHANGED << telemetryVars, sim, threadVars, rxVars, appVars, inbox >>

CommandStopEvent ==
  /\ NextEvent("commandStop")
  /\ StopCommand
  /\ UNCHANGED << telemetryVars, sim, threadVars, rxVars, appVars, inbox >>

Driver ==
  \/ StartReceiver \/ StopReceiver \/ StopSimulator
  \/ CommandStartEvent \/ CommandStopEvent
  \/ Join("joining", "events")
  \/ Destroy \/ Destructor \/ Join("joining at exit", "exited")

CommandTimerEvent ==
  /\ sim = "events"
  /\ InEventLoop
  /\ CommandTimer
  /\ UNCHANGED << telemetryVars, simVars, threadVars, rxVars, appVars, inbox >>

TelemetryEvent(a) ==
  /\ sim = "events"
  /\ DoInitialize(a) \/ StartApplication(a) \/ TimerFires(a)
  /\ UNCHANGED << commandVars, simVars, threadVars, rxVars, appVars, inbox >>

TelemetryCall(a) ==
  /\ sim = "events"
  /\ SendTelemetryUpdate(a)
  /\ UNCHANGED << commandVars, simVars, threadVars, rxVars, appVars, inbox >>

Exited ==
  /\ sim \in {"exited", "aborted"} /\ rx \in {"none", "ended"}
  /\ UNCHANGED allVars

Next ==
  \/ \E m \in Messages : Publish(m)
  \/ Run
  \/ Driver
  \/ CommandTimerEvent
  \/ \E a \in Apps : TelemetryEvent(a) \/ TelemetryCall(a)
  \/ Exited

\* Both threads make progress.  Events run in time order and each round of
\* the telemetry timers advances the time, so that every event comes up.
ThreadFairness ==
  /\ WF_allVars(Run)
  /\ SF_allVars(Driver)
  /\ \A a \in Apps : WF_allVars(TelemetryCall(a)) /\ SF_allVars(TelemetryEvent(a))

\* The publisher may fall silent.
Spec == Init /\ [][Next]_allVars /\ ThreadFairness

\* The publisher keeps publishing.
BusyPublisherSpec == Spec /\ WF_allVars(\E m \in Messages : Publish(m))

-----------------------------------------------------------------------------
(***************************************************************************)
(* Properties.                                                             *)
(***************************************************************************)

ThreadTypes ==
  /\ sim \in {"events", "joining", "stopped", "destroyed", "joining at exit", "exited",
              "aborted"}
  /\ agenda \in Seq(AgendaEvents)
  /\ running \in BOOLEAN /\ joinable \in BOOLEAN /\ lateMessages \in Nat
  /\ rx \in {"none", "check", "recv", "handle", "move", "clear", "cancel", "command", "ended"}

TodoTypes ==
  /\ todo \subseteq (IF rx = "move" THEN Nodes ELSE telemetryAppList)
  /\ rx \in {"move", "clear", "cancel"} => todo # {}
  /\ position \in [Nodes -> Places]

AppTypes ==
  /\ kind \in [Apps -> {"none", "Telemetry", "VideoStream"}]
  /\ telemetryAppList = OfKind("Telemetry") /\ videoServerAppList = OfKind("VideoStream")
  /\ clients \in Nat /\ gcsVideoClientAppList = 1 .. clients /\ toldClients \subseteq 1 .. clients

\* The lists name the applications of their kind and no others, and a handler
\* that has begun has something left to do.
ReceiverTypeOK == TelemetryTypes /\ CommandTypes /\ ThreadTypes /\ TodoTypes /\ AppTypes

\* StopApplication lets the handler that is running finish and at most one
\* more message in: the one recv was blocked for.
AtMostOneLateMessage == lateMessages <= 1

\* Once StopApplication has returned the receiver thread is gone, and it has
\* not left a position update half applied.  (An exception in the middle of
\* one does, but no StopApplication returns after it.)
StopLeavesWholeUpdate ==
  ~running /\ ~joinable /\ rx # "none" =>
    rx = "ended" /\ position[0] = position[1]

\* A stop message reaches every application of its type that was installed
\* before it, and no application of another type.
StopReachesAll ==
  [][/\ \A a \in told' \ told : msg = Stop(kind[a])
     /\ msg.kind = "stop" /\ Handled => OfKind(msg.app) \subseteq told'
     /\ msg = Stop("VideoStream") /\ Handled => 1 .. clients \subseteq toldClients']_allVars

\* A command goes out only while the command application is running, although
\* the receiver thread tests m_running before it sends and holds no lock.
CommandsWhileRunning == [][SendCommand => cmdRunning]_allVars

\* Simulator::Destroy destroys the nodes; no message is handled after it.
NoHandlingAfterDestroy == NodesGone => ~Handling

\* A message that lacks a field brings the program down only while the receiver
\* is running or being stopped, never later, when the results are written.
AbortsWhileReceiving == [][sim' = "aborted" => running \/ sim = "joining"]_allVars

\* The program ends: no join waits forever.
SimulationEnds == <>(sim \in {"exited", "aborted"})

=============================================================================
