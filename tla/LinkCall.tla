------------------------------ MODULE LinkCall ------------------------------
(***************************************************************************)
(* What a caller of measureSingleLink sees: each of two goroutines tries   *)
(* once to lock itself to its CPU, in either order, and when both have     *)
(* tried the call returns, with a latency if both succeeded and with an    *)
(* error otherwise.  LinkMeasure implements this; Measurement is built     *)
(* on it.                                                                  *)
(***************************************************************************)
Threads == {0, 1}

VARIABLES
    trying,    \* the goroutines that have not tried to lock yet
    failed,    \* one of them could not
    outcome    \* "running", "latency" or "error"

vars == <<trying, failed, outcome>>

Init == trying = Threads /\ failed = FALSE /\ outcome = "running"

Lock(t, success) ==
    /\ t \in trying
    /\ trying' = trying \ {t}
    /\ failed' = (failed \/ ~success)
    /\ UNCHANGED outcome

Return ==
    /\ trying = {} /\ outcome = "running"
    /\ outcome' = IF failed THEN "error" ELSE "latency"
    /\ UNCHANGED <<trying, failed>>

Next == Return \/ \E t \in Threads, success \in BOOLEAN : Lock(t, success)

Fairness == WF_vars(Next)

Spec == Init /\ [][Next]_vars
FairSpec == Spec /\ Fairness

=============================================================================
