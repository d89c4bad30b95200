----------------------------- MODULE UavCommand ------------------------------
(***************************************************************************)
(* UavCommand (uav/uav-command.cc): a command application at the ground    *)
(* station.  It sends a command check periodically, in short intervals     *)
(* first and in long ones after FastSends checks, and it sends a command   *)
(* when SendCommand is called.                                             *)
(*                                                                         *)
(* Its own events and its start and stop all run on the simulator thread;  *)
(* SendCommand is called from the receiver thread and reads m_running,     *)
(* sends, and changes nothing.  So only SendCommand is split.              *)
(***************************************************************************)
EXTENDS Integers

CONSTANT FastSends  \* 50 in the code

ASSUME CommandAssumption == FastSends \in Nat \ {0}

VARIABLES
  cmdRunning,   \* UavCommand::m_running
  cmdInterval,  \* m_interval
  cmdSent,      \* m_sent, counted up to FastSends: more makes no difference
  cmdTimer      \* m_sendEvent is waiting in the scheduler

commandVars == << cmdRunning, cmdInterval, cmdSent, cmdTimer >>

CommandInit ==
  /\ cmdRunning = FALSE
  /\ cmdInterval = "3 s"
  /\ cmdSent = 0
  /\ cmdTimer = FALSE

\* The body of SendCommandCheck once m_running is known to be set.
SendCheck ==
  /\ cmdInterval' = IF cmdSent >= FastSends THEN "3 s" ELSE "0.05 s"
  /\ cmdSent' = IF cmdSent < FastSends THEN cmdSent + 1 ELSE cmdSent
  /\ cmdTimer' = TRUE

StartCommand ==
  /\ cmdRunning' = TRUE
  /\ SendCheck

\* m_sendEvent fires: SendCommandCheck tests m_running.
CommandTimer ==
  /\ cmdTimer
  /\ IF cmdRunning
       THEN SendCheck
       ELSE cmdTimer' = FALSE /\ UNCHANGED << cmdInterval, cmdSent >>
  /\ UNCHANGED cmdRunning

StopCommand ==
  /\ cmdRunning' = FALSE
  /\ cmdTimer' = FALSE
  /\ UNCHANGED << cmdInterval, cmdSent >>

CommandTypes ==
  /\ cmdRunning \in BOOLEAN /\ cmdTimer \in BOOLEAN /\ cmdSent \in 0 .. FastSends
  /\ cmdInterval \in {"0.05 s", "3 s"}

=============================================================================
