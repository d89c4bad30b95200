---------------------------- MODULE UavTelemetry -----------------------------
(***************************************************************************)
(* UavTelemetry (uav/uav-telemetry.cc): an application that sends a packet *)
(* and schedules its next one, until it is stopped.                        *)
(*                                                                         *)
(* Its callers are two threads.  The simulator thread runs the events of   *)
(* the application (Initialize, StartApplication, the timer); the receiver *)
(* thread of ZmqReceiverApp installs applications and calls                *)
(* StopApplication directly.  Nothing is locked, so a call is split        *)
(* between its accesses to state the two threads share: m_running and the  *)
(* scheduler's entry for m_sendEvent.                                      *)
(*                                                                         *)
(* An application is known by its position among those installed.          *)
(***************************************************************************)
EXTENDS Integers

CONSTANT MaxApps  \* bound of the model on the applications installed

ASSUME MaxAppsAssumption == MaxApps \in Nat

VARIABLES
  life,       \* how far ns-3 has brought each application
  active,     \* UavTelemetry::m_running
  timer,      \* m_sendEvent is waiting in the scheduler
  stragglers, \* history: packets sent since StopApplication cleared m_running
  told,       \* history: the applications StopApplication has been called for
  call        \* where the simulator thread is inside a telemetry call

telemetryVars == << life, active, timer, stragglers, told, call >>

Apps == 1 .. MaxApps
NoCall == [at |-> "none", app |-> 0]
At(step, a) == [at |-> step, app |-> a]
InEventLoop == call = NoCall

TelemetryInit ==
  /\ life = [a \in Apps |-> "absent"]
  /\ active = [a \in Apps |-> FALSE]
  /\ timer = [a \in Apps |-> FALSE]
  /\ stragglers = [a \in Apps |-> 0]
  /\ told = {}
  /\ call = NoCall

-----------------------------------------------------------------------------

\* CreateObject and AddApplication; the socket has been set, so DoInitialize
\* never finds it missing.
Install(a) ==
  /\ life[a] = "absent"
  /\ life' = [life EXCEPT ![a] = "installed"]
  /\ UNCHANGED << active, timer, stragglers, told, call >>

\* The Initialize event schedules StartApplication.
DoInitialize(a) ==
  /\ InEventLoop
  /\ life[a] = "installed"
  /\ life' = [life EXCEPT ![a] = "initialized"]
  /\ UNCHANGED << active, timer, stragglers, told, call >>

StartApplication(a) ==
  /\ InEventLoop
  /\ life[a] = "initialized"
  /\ life' = [life EXCEPT ![a] = "started"]
  /\ active' = [active EXCEPT ![a] = TRUE]
  /\ call' = At("check", a)
  /\ UNCHANGED << timer, stragglers, told >>

TimerFires(a) ==
  /\ InEventLoop
  /\ timer[a]
  /\ timer' = [timer EXCEPT ![a] = FALSE]
  /\ call' = At("check", a)
  /\ UNCHANGED << life, active, stragglers, told >>

(***************************************************************************)
(* SendTelemetryUpdate: test m_running, send, schedule the next update.    *)
(***************************************************************************)
UncheckedSend(a) ==
  /\ call = At("check", a)
  /\ call' = At("send", a)
  /\ UNCHANGED << life, active, timer, stragglers, told >>

CheckRunning(a) ==
  /\ call = At("check", a)
  /\ call' = IF active[a] THEN At("send", a) ELSE NoCall
  /\ UNCHANGED << life, active, timer, stragglers, told >>

SendWithPriority(a) ==
  /\ call = At("send", a)
  /\ stragglers' = [stragglers EXCEPT ![a] = IF active[a] THEN 0 ELSE @ + 1]
  /\ call' = At("schedule", a)
  /\ UNCHANGED << life, active, timer, told >>

NotRescheduled(a) ==
  /\ call = At("schedule", a)
  /\ call' = NoCall
  /\ UNCHANGED << life, active, timer, stragglers, told >>

ScheduleNext(a) ==
  /\ call = At("schedule", a)
  /\ timer' = [timer EXCEPT ![a] = TRUE]
  /\ call' = NoCall
  /\ UNCHANGED << life, active, stragglers, told >>

SendTelemetryUpdate(a) ==
  \/ CheckRunning(a)
  \/ SendWithPriority(a)
  \/ ScheduleNext(a)

(***************************************************************************)
(* StopApplication: clear m_running, then cancel a waiting m_sendEvent.    *)
(* IsRunning and Cancel are one step: where IsRunning says no there is no  *)
(* other access, and where it says yes Cancel acts by itself on what       *)
(* m_sendEvent is by then, an event that has run or one that is waiting.   *)
(***************************************************************************)
ClearRunning(a) ==
  /\ active' = [active EXCEPT ![a] = FALSE]
  /\ stragglers' = [stragglers EXCEPT ![a] = 0]
  /\ told' = told \cup {a}
  /\ UNCHANGED << life, timer, call >>

CancelSend(a) ==
  /\ timer' = [timer EXCEPT ![a] = FALSE]
  /\ UNCHANGED << life, active, stragglers, told, call >>

-----------------------------------------------------------------------------

TelemetryTypes ==
  /\ life \in [Apps -> {"absent", "installed", "initialized", "started"}]
  /\ active \in [Apps -> BOOLEAN]
  /\ timer \in [Apps -> BOOLEAN]
  /\ call \in {NoCall} \cup {At(s, a) : s \in {"check", "send", "schedule"}, a \in Apps}

\* Application a may send again without being started again.
MaySend(a) == active[a] \/ call = At("send", a)

\* After StopApplication cleared m_running, at most one more packet goes out,
\* the one whose send had already passed its test of m_running, however the
\* two threads interleave.  A packet sent while m_running is set starts the
\* count again: of a stop that the start event undoes nothing is said here.
AtMostOneStraggler == \A a \in Apps : stragglers[a] <= 1

\* An application stopped after it was started falls silent for good.
StopSilences ==
  \A a \in Apps : life[a] = "started" /\ ~active[a] ~> []~MaySend(a)

\* A running application sends again and again until it is told to stop
\* itself: stopping one never takes the next update from another.
KeepsSending == \A a \in Apps : active[a] ~> call = At("send", a) \/ a \in told

\* Documented (the log line "Stop telemetry app"): an application that was
\* told to stop is stopped.
ToldMeansStopped == \A a \in told : ~active[a]

=============================================================================
