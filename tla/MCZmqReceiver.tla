---------------------------- MODULE MCZmqReceiver ----------------------------
(***************************************************************************)
(* Model-checking instances of ZmqReceiver.                                *)
(***************************************************************************)
EXTENDS ZmqReceiver

\* test.cc: the receiver stops at 300 s, then the command application, whose
\* stop event was scheduled after it; the simulator stops at 300.01 s.
TestAgenda ==
  << "commandStart", "receiverStart", "receiverStop", "commandStop", "simulatorStop" >>

\* test_zmq.cc: both stop at 300 s, and Simulator::Stop was scheduled first,
\* before Run; the application's stop event is scheduled when it initializes.
TestZmqAgenda == << "receiverStart", "simulatorStop", "receiverStop" >>

\* The time before anything stops.
EndlessAgenda == << "receiverStart" >>

LifecycleMessages ==
  {Unparsable, Incomplete, Start("Telemetry"), Stop("Telemetry"),
   Start("ControlCommands")}
    \cup {Actors(p) : p \in Places}

StopMessages ==
  {Start("Telemetry"), Stop("Telemetry"), Start("VideoStream"), Stop("VideoStream")}

=============================================================================
