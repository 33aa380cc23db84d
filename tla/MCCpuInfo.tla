----------------------------- MODULE MCCpuInfo -----------------------------
(* CpuInfo with VMs and Update goroutines that are interchangeable. *)
EXTENDS CpuInfo

Symmetry == Permutations(VMs) \cup Permutations(Updaters)
=============================================================================
