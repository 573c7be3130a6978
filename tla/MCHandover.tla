----------------------------- MODULE MCHandover -----------------------------
(* Instances of Handover for TLC. *)
EXTENDS Handover, TLC

CallSymmetry == Permutations(Call)
AgentSymmetry == Permutations(Agent)
Symmetry == CallSymmetry \union AgentSymmetry
=============================================================================
