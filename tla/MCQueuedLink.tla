---------------------------- MODULE MCQueuedLink -----------------------------
(***************************************************************************)
(* Model-checking instances of QueuedLink with the code's own numbers.     *)
(***************************************************************************)
EXTENDS QueuedLink

MCWeightVectors == {DefaultWeights}

EmergencyWeights == ModeWeights.EMERGENCY

\* Every weight is a multiple of 5 percent of 12500 bytes, which is 625; the
\* weights of class 0 are multiples of 10 percent.
EvenSizes == [p \in Priorities |-> IF p = 0 THEN 1250 ELSE 625]

MCPackets ==
  {[tag |-> p, size |-> EvenSizes[p]] : p \in Priorities}

=============================================================================
