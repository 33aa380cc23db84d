---------------------------- MODULE AffinityMap ----------------------------
(***************************************************************************)
(* What pkg/cpuinfo promises its callers, without saying how: a set of     *)
(* ranked CPUs, and for each VM the set of CPUs it has been granted.       *)
(* Replacing the ranked CPUs withdraws every grant.  A VM gets a new grant *)
(* only when it holds none or asks for another number of CPUs, and a grant *)
(* is a non-empty set of CPUs that are ranked at that moment.              *)
(* CpuInfo implements this specification.                                  *)
(***************************************************************************)
EXTENDS Naturals, FiniteSets

CONSTANTS
    CPUs,      \* every logical CPU the host can ever have
    VMs        \* the VM ids

VARIABLES
    ranked,    \* the CPUs of the present ranking
    granted    \* per VM the CPUs granted to it, {} when there is no grant

vars == <<ranked, granted>>

NoGrants == [v \in VMs |-> {}]

Init ==
    /\ ranked = {}
    /\ granted = NoGrants

\* The host was measured again.
Rebuild ==
    /\ ranked' \in SUBSET CPUs
    /\ granted' = NoGrants

\* VM v is given the CPUs S.
Grant(v, S) ==
    /\ S # {}
    /\ S \subseteq ranked
    /\ Cardinality(S) # Cardinality(granted[v])
    /\ granted' = [granted EXCEPT ![v] = S]
    /\ UNCHANGED ranked

Next ==
    \/ Rebuild
    \/ \E v \in VMs, S \in SUBSET CPUs : Grant(v, S)

Spec == Init /\ [][Next]_vars

=============================================================================
