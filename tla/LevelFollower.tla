---------------------------- MODULE LevelFollower ----------------------------
(***************************************************************************)
(* What the adaptation of the video level promises, without frames,        *)
(* buffers or packets: one party chooses a level, a step up or down at a   *)
(* time, and the other takes over its choices, in the order chosen, some   *)
(* time later.  A choice may get lost on the way.                          *)
(***************************************************************************)
EXTENDS Integers, Sequences

CONSTANT Levels  \* the levels there are, numbers

VARIABLES
  chosen,   \* the level the one party has chosen
  pending,  \* its choices that the other has not taken over yet
  followed  \* the level the other party uses

Init ==
  /\ chosen \in Levels
  /\ pending = << >>
  /\ followed = chosen

Choose ==
  /\ chosen' \in Levels \cap {chosen - 1, chosen + 1}
  /\ pending' = Append(pending, chosen')
  /\ UNCHANGED followed

Follow ==
  /\ pending # << >>
  /\ followed' = Head(pending)
  /\ pending' = Tail(pending)
  /\ UNCHANGED chosen

Lose ==
  /\ pending # << >>
  /\ pending' = Tail(pending)
  /\ UNCHANGED << chosen, followed >>

Next == Choose \/ Follow \/ Lose

Steps == Init /\ [][Next]_<< chosen, pending, followed >>

Spec == Steps /\ WF_<< chosen, pending, followed >>(Follow)

=============================================================================
