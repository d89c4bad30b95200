-------------------------- MODULE MCPriorityTxQueue --------------------------
(***************************************************************************)
(* Model-checking instance of PriorityTxQueue: cycle budgets of 10 and 20  *)
(* bytes instead of 12500.  In LOW_BANDWIDTH mode a cycle of 20 gives      *)
(* shares of 8, 6, 4 and 2 bytes, which these packets can spend exactly;   *)
(* in every other configuration some share cannot be spent.                *)
(***************************************************************************)
EXTENDS PriorityTxQueue

MCPackets ==
  {[tag |-> 0, size |-> 8], [tag |-> 1, size |-> 6], [tag |-> NoTag, size |-> 4],
   [tag |-> 3, size |-> 2]}

\* The vector test_congestion.cc shows for SetQueueWeights.
MCWeightVectors == {<< 50, 30, 15, 5 >>}

=============================================================================
