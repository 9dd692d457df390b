-------------------------- MODULE MCBranchPredictor --------------------------
EXTENDS BranchPredictor

(* Two targets, one of them the address that follows the branch at 8.      *)
MCOutcomes == {[taken |-> TRUE, targetPc |-> 12], [taken |-> TRUE, targetPc |-> 64],
               [taken |-> FALSE, targetPc |-> 64]}
=============================================================================
