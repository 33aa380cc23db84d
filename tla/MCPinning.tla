----------------------------- MODULE MCPinning -----------------------------
(* Symmetry for checking Pinning, whose properties are all safety.          *)
EXTENDS Pinning, TLC

Symmetry == Permutations(CPUs) \cup Permutations(VMs) \cup Permutations(Tasks)
              \cup Permutations(Handlers)

=============================================================================
