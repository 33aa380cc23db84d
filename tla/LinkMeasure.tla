---------------------------- MODULE LinkMeasure ----------------------------
(***************************************************************************)
(* measureSingleLink of pkg/cpuinfo/cpuinfo.go: the latency between two    *)
(* CPUs is measured by two goroutines, each locked to one of them, that    *)
(* pass a signal to and fro.  They meet at a barrier before they start, so *)
(* that neither starts when the other could not be locked to its CPU.      *)
(*                                                                         *)
(* Thread 0 waits for signal 0 and stores 1, thread 1 the other way round. *)
(* One action per access to what they share (firstErr under its mutex, the *)
(* barrier, signal), and the waits have no other way out than the signal.  *)
(* The measured time is left out.                                          *)
(***************************************************************************)
EXTENDS Integers

CONSTANT
    Iterations    \* how often the signal goes to and fro

ASSUME LinkAssumption == Iterations \in Nat

Threads == {0, 1}
Other(t) == 1 - t

VARIABLES
    pc,         \* per goroutine, where it is: see Steps
    signal,     \* the atomic signal
    firstErr,   \* an error has been recorded in firstErr
    barrier,    \* goroutines the barrier still waits for
    k,          \* per goroutine the loop variable: signals it has passed
    result      \* the call: "running", "latency" or "error"

vars == <<pc, signal, firstErr, barrier, k, result>>

Steps == {"lock", "record", "leave", "arrive", "barrier", "check", "load",
          "store", "done"}

Init ==
    /\ pc = [t \in Threads |-> "lock"]
    /\ signal = 0
    /\ firstErr = FALSE
    /\ barrier = 2
    /\ k = [t \in Threads |-> 0]
    /\ result = "running"

Goto(t, step) == pc' = [pc EXCEPT ![t] = step]

\* lockToCPU succeeds or fails (the CPU is offline or not allowed).
Lock(t) ==
    /\ pc[t] = "lock"
    /\ Goto(t, "arrive") \/ Goto(t, "record")
    /\ UNCHANGED <<signal, firstErr, barrier, k, result>>

\* The error is recorded, under errMutex, before the barrier is passed.
Record(t) ==
    /\ pc[t] = "record"
    /\ firstErr' = TRUE
    /\ Goto(t, "leave")
    /\ UNCHANGED <<signal, barrier, k, result>>

LeaveNoDone(t) ==
    /\ pc[t] = "leave"
    /\ Goto(t, "done")
    /\ UNCHANGED <<signal, firstErr, barrier, k, result>>

\* barrier.Done() and return after a failed lockToCPU
Leave(t) ==
    /\ pc[t] = "leave"
    /\ barrier' = barrier - 1
    /\ Goto(t, "done")
    /\ UNCHANGED <<signal, firstErr, k, result>>

\* barrier.Done()
Arrive(t) ==
    /\ pc[t] = "arrive"
    /\ barrier' = barrier - 1
    /\ Goto(t, "barrier")
    /\ UNCHANGED <<signal, firstErr, k, result>>

PassEarly(t) ==
    /\ pc[t] = "barrier"
    /\ barrier <= 1
    /\ Goto(t, "check")
    /\ UNCHANGED <<signal, firstErr, barrier, k, result>>

\* barrier.Wait() returns
Pass(t) ==
    /\ pc[t] = "barrier"
    /\ barrier = 0
    /\ Goto(t, "check")
    /\ UNCHANGED <<signal, firstErr, barrier, k, result>>

\* firstErr is read without its mutex, and the loop entered if Iterations > 0.
Check(t) ==
    /\ pc[t] = "check"
    /\ Goto(t, IF firstErr \/ Iterations = 0 THEN "done" ELSE "load")
    /\ UNCHANGED <<signal, firstErr, barrier, k, result>>

LoadNoWait(t) ==
    /\ pc[t] = "load"
    /\ Goto(t, "store")
    /\ UNCHANGED <<signal, firstErr, barrier, k, result>>

\* atomic.LoadInt32(&signal): spin until it is this goroutine's turn.
Load(t) ==
    /\ pc[t] = "load"
    /\ signal = t
    /\ Goto(t, "store")
    /\ UNCHANGED <<signal, firstErr, barrier, k, result>>

StoreOneMore(t) ==
    /\ pc[t] = "store"
    /\ signal' = Other(t)
    /\ k' = [k EXCEPT ![t] = @ + 1]
    /\ Goto(t, IF k[t] + 1 <= Iterations THEN "load" ELSE "done")
    /\ UNCHANGED <<firstErr, barrier, result>>

\* atomic.StoreInt32(&signal, ...): the turn goes to the other one.
Store(t) ==
    /\ pc[t] = "store"
    /\ signal' = Other(t)
    /\ k' = [k EXCEPT ![t] = @ + 1]
    /\ Goto(t, IF k[t] + 1 < Iterations THEN "load" ELSE "done")
    /\ UNCHANGED <<firstErr, barrier, result>>

\* wg.Wait() returns, firstErr is read again and the call returns.
Return ==
    /\ result = "running"
    /\ \A t \in Threads : pc[t] = "done"
    /\ result' = IF firstErr THEN "error" ELSE "latency"
    /\ UNCHANGED <<pc, signal, firstErr, barrier, k>>

Step(t) ==
    \/ Lock(t) \/ Record(t) \/ Leave(t) \/ Arrive(t) \/ Pass(t)
    \/ Check(t) \/ Load(t) \/ Store(t)

\* The call has returned: nothing more happens.
Returned == result # "running" /\ UNCHANGED vars

Next == (\E t \in Threads : Step(t)) \/ Return \/ Returned

Fairness == (\A t \in Threads : WF_vars(Step(t))) /\ WF_vars(Return)

Spec == Init /\ [][Next]_vars
FairSpec == Spec /\ Fairness

-----------------------------------------------------------------------------
(* Properties                                                              *)

\* Every variable has its type.
TypeOK ==
    /\ pc \in [Threads -> Steps]
    /\ signal \in {0, 1}
    /\ firstErr \in BOOLEAN
    /\ barrier \in 0 .. 2
    /\ k \in [Threads -> 0 .. Iterations]
    /\ result \in {"running", "latency", "error"}

Measuring(t) == pc[t] \in {"load", "store"}
Failed(t) == pc[t] \in {"record", "leave"}

\* Neither goroutine spins on the signal unless both are locked to their
\* CPUs: with a partner that left, it would spin for ever.
NobodySpinsAlone ==
    \A t \in Threads : Measuring(t) => ~firstErr /\ ~Failed(Other(t))

\* The two take turns: a latency is returned only after exactly Iterations
\* round trips, and an error only if no signal was passed at all.
FullMeasurement ==
    /\ k[1] <= k[0] /\ k[0] <= k[1] + 1
    /\ result = "latency" => \A t \in Threads : k[t] = Iterations
    /\ result = "error" => \A t \in Threads : k[t] = 0

\* What the caller sees is one attempt per goroutine and, in the end, the
\* outcome that follows from the two: an error exactly if a CPU could not be
\* locked.  That the call returns at all is part of it: nothing in the code
\* would ever stop a goroutine that spins.
Call == INSTANCE LinkCall WITH
    trying <- { t \in Threads : pc[t] = "lock" },
    failed <- firstErr \/ \E t \in Threads : pc[t] = "record",
    outcome <- result

ImplementsLinkCall == Call!FairSpec

=============================================================================
