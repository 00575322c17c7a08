--------------------------- MODULE MCPolicyService ---------------------------
(* Two collectors, alike, and two policies of which one is expected.         *)
EXTENDS PolicyService, TLC

MCSymmetry == Permutations(Clients)
=============================================================================
