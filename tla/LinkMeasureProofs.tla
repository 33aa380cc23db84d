------------------------- MODULE LinkMeasureProofs -------------------------
(***************************************************************************)
(* Proofs about LinkMeasure, for every number of iterations.  That the     *)
(* call returns needs fairness and is left to the model checker; that it   *)
(* neither hangs nor goes on for ever is proved.                           *)
(***************************************************************************)
EXTENDS LinkMeasure, TLAPS

\* The goroutine has not called barrier.Done yet.
Before(t) == pc[t] \in {"lock", "record", "leave", "arrive"}

\* The barrier counts the goroutines before it.
BarrierCounts ==
    \A t \in Threads :
        /\ Before(t) /\ Before(Other(t)) => barrier = 2
        /\ Before(t) /\ ~Before(Other(t)) => barrier = 1
        /\ ~Before(t) /\ ~Before(Other(t)) => barrier = 0

\* What a goroutine knows where it stands: an error is recorded before the
\* goroutine that met it leaves, and one that measures, or has measured,
\* found none when both had passed the barrier.
Where(t) ==
    /\ pc[t] = "leave" => firstErr
    /\ pc[t] = "check" => barrier = 0
    /\ Measuring(t) => barrier = 0 /\ ~firstErr /\ k[t] < Iterations
    /\ pc[t] = "store" => signal = t
    /\ pc[t] = "done" /\ ~firstErr => barrier = 0 /\ k[t] = Iterations
    /\ ~Measuring(t) /\ pc[t] # "done" => k[t] = 0
    /\ firstErr => k[t] = 0

\* Thread 0 is a signal ahead exactly while it is the turn of thread 1.
Alternate == k[0] = k[1] + signal

\* What the call returns.
Outcome ==
    /\ result # "running" => \A t \in Threads : pc[t] = "done"
    /\ result = "latency" => ~firstErr
    /\ result = "error" => firstErr

IInv ==
    /\ TypeOK
    /\ BarrierCounts
    /\ \A t \in Threads : Where(t)
    /\ Alternate
    /\ Outcome

\* There are two goroutines.
LEMMA TwoThreads ==
    \A t \in Threads : /\ Other(t) \in Threads
                       /\ Other(t) # t
                       /\ Other(Other(t)) = t
                       /\ \A u \in Threads : u = t \/ u = Other(t)
  BY DEF Threads, Other

\* A call that has just been made satisfies the invariant.
LEMMA InitInvariant == Init => IInv
<1> SUFFICES ASSUME Init PROVE IInv
  OBVIOUS
<1>1. TypeOK
  <2>1. k \in [Threads -> 0 .. Iterations]
    BY LinkAssumption DEF Init
  <2>2. barrier \in 0 .. 2 /\ signal \in {0, 1}
    BY DEF Init
  <2> QED
    BY <2>1, <2>2 DEF Init, TypeOK, Steps
<1>2. BarrierCounts
  BY TwoThreads DEF Init, BarrierCounts, Before
<1>3. \A t \in Threads : Where(t)
  BY DEF Init, Where, Measuring
<1>4. Alternate
  BY DEF Init, Alternate, Threads
<1>5. Outcome
  BY DEF Init, Outcome
<1> QED
  BY <1>1, <1>2, <1>3, <1>4, <1>5 DEF IInv

\* lockToCPU succeeds or fails, and either way the barrier is still ahead.
LEMMA LockInvariant == ASSUME IInv, NEW t \in Threads, Lock(t) PROVE IInv'
  BY TwoThreads
     DEF IInv, TypeOK, Steps, BarrierCounts, Before, Where, Measuring,
         Alternate, Outcome, Lock, Goto

\* An error is recorded by a goroutine that is still before the barrier, so
\* nobody has passed a signal.
LEMMA RecordInvariant == ASSUME IInv, NEW t \in Threads, Record(t) PROVE IInv'
  BY TwoThreads
     DEF IInv, TypeOK, Steps, BarrierCounts, Before, Where, Measuring,
         Alternate, Outcome, Record, Goto

\* A goroutine that leaves has recorded its error.
LEMMA LeaveInvariant == ASSUME IInv, NEW t \in Threads, Leave(t) PROVE IInv'
  BY TwoThreads
     DEF IInv, TypeOK, Steps, BarrierCounts, Before, Where, Measuring,
         Alternate, Outcome, Leave, Goto

\* A goroutine arrives: its partner has measured nothing before that.
LEMMA ArriveInvariant == ASSUME IInv, NEW t \in Threads, Arrive(t) PROVE IInv'
<1>1. /\ t \in Threads /\ Other(t) \in Threads /\ Other(t) # t
      /\ Other(Other(t)) = t
      /\ \A u \in Threads : u = t \/ u = Other(t)
  BY TwoThreads
<1>2. /\ pc[t] = "arrive" /\ pc' = [pc EXCEPT ![t] = "barrier"]
      /\ barrier' = barrier - 1
      /\ UNCHANGED <<signal, firstErr, k, result>>
  BY DEF Arrive, Goto
<1>3. pc'[t] = "barrier" /\ pc'[Other(t)] = pc[Other(t)]
  BY <1>1, <1>2 DEF IInv, TypeOK
<1>4. /\ Before(t) /\ ~Before(t)'
      /\ Before(Other(t))' <=> Before(Other(t))
  BY <1>2, <1>3 DEF Before
<1>5. /\ Before(Other(t)) => barrier = 2
      /\ ~Before(Other(t)) => barrier = 1
  BY <1>1, <1>4 DEF IInv, BarrierCounts
<1>6. TypeOK'
  BY <1>2, <1>5 DEF IInv, TypeOK, Steps
<1>7. BarrierCounts'
  <2>1. /\ Before(Other(t)) => barrier' = 1
        /\ ~Before(Other(t)) => barrier' = 0
    BY <1>2, <1>5
  <2>2. ASSUME NEW u \in Threads
        PROVE  /\ Before(u)' /\ Before(Other(u))' => barrier' = 2
               /\ Before(u)' /\ ~Before(Other(u))' => barrier' = 1
               /\ ~Before(u)' /\ ~Before(Other(u))' => barrier' = 0
    <3>1. CASE u = t
      BY <1>4, <2>1, <3>1
    <3>2. CASE u = Other(t)
      BY <1>1, <1>4, <2>1, <3>2
    <3> QED
      BY <1>1, <3>1, <3>2
  <2> QED
    BY <2>2 DEF BarrierCounts
<1>8. \A u \in Threads : Where(u)'
  <2>1. Where(t)'
    BY <1>2, <1>3 DEF IInv, Where, Measuring
  <2>2. pc[Other(t)] = "check" \/ Measuring(Other(t))
        \/ (pc[Other(t)] = "done" /\ ~firstErr) => barrier = 0
    BY <1>1 DEF IInv, Where
  <2>3. Where(Other(t))'
    BY <1>1, <1>2, <1>3, <1>5, <2>2 DEF IInv, Where, Measuring
  <2> QED
    BY <1>1, <2>1, <2>3
<1>9. Alternate' /\ Outcome'
  BY <1>1, <1>2, <1>3 DEF IInv, Alternate, Outcome
<1> QED
  BY <1>6, <1>7, <1>8, <1>9 DEF IInv

\* The barrier is passed only at 0, and then stays there.
LEMMA PassInvariant == ASSUME IInv, NEW t \in Threads, Pass(t) PROVE IInv'
  BY TwoThreads
     DEF IInv, TypeOK, Steps, BarrierCounts, Before, Where, Measuring,
         Alternate, Outcome, Pass, Goto

\* A goroutine that finds no error after the barrier can rely on that.
LEMMA CheckInvariant == ASSUME IInv, NEW t \in Threads, Check(t) PROVE IInv'
  BY TwoThreads, LinkAssumption
     DEF IInv, TypeOK, Steps, BarrierCounts, Before, Where, Measuring,
         Alternate, Outcome, Check, Goto

\* It is this goroutine's turn, and stays so until it stores.
LEMMA LoadInvariant == ASSUME IInv, NEW t \in Threads, Load(t) PROVE IInv'
  BY TwoThreads
     DEF IInv, TypeOK, Steps, BarrierCounts, Before, Where, Measuring,
         Alternate, Outcome, Load, Goto

\* The turn goes over: only the goroutine whose turn it is can store, so
\* the other is not at its store.
LEMMA StoreInvariant == ASSUME IInv, NEW t \in Threads, Store(t) PROVE IInv'
<1>1. /\ t \in Threads /\ Other(t) \in Threads /\ Other(t) # t
      /\ \A u \in Threads : u = t \/ u = Other(t)
  BY TwoThreads
<1>2. /\ pc[t] = "store"
      /\ signal' = Other(t)
      /\ k' = [k EXCEPT ![t] = k[t] + 1]
      /\ pc' = [pc EXCEPT ![t] = IF k[t] + 1 < Iterations THEN "load" ELSE "done"]
      /\ UNCHANGED <<firstErr, barrier, result>>
  BY DEF Store, Goto
<1>3. /\ pc'[t] = IF k[t] + 1 < Iterations THEN "load" ELSE "done"
      /\ k'[t] = k[t] + 1
      /\ pc'[Other(t)] = pc[Other(t)] /\ k'[Other(t)] = k[Other(t)]
  BY <1>1, <1>2 DEF IInv, TypeOK
<1>4. signal = t /\ barrier = 0 /\ ~firstErr /\ k[t] < Iterations
  BY <1>1, <1>2 DEF IInv, Where, Measuring
<1>5. k[t] + 1 \in 0 .. Iterations
  BY <1>1, <1>4, LinkAssumption DEF IInv, TypeOK
<1>6. TypeOK'
  <2>1. pc' \in [Threads -> Steps] /\ k' \in [Threads -> 0 .. Iterations]
    BY <1>2, <1>5 DEF IInv, TypeOK, Steps
  <2>2. signal' \in {0, 1}
    BY <1>1, <1>2 DEF Threads
  <2> QED
    BY <1>2, <2>1, <2>2 DEF IInv, TypeOK
<1>7. BarrierCounts'
  <2>1. \A u \in Threads : Before(u)' <=> Before(u)
    BY <1>1, <1>2, <1>3 DEF Before
  <2> QED
    BY <1>2, <2>1, TwoThreads DEF IInv, BarrierCounts
<1>8. \A u \in Threads : Where(u)'
  <2>1. Where(t)'
    BY <1>2, <1>3, <1>4, <1>5, LinkAssumption DEF Where, Measuring
  <2>2. pc[Other(t)] # "store"
    BY <1>1, <1>4 DEF IInv, Where
  <2>3. Where(Other(t))'
    BY <1>1, <1>2, <1>3, <2>2 DEF IInv, Where, Measuring
  <2> QED
    BY <1>1, <2>1, <2>3
<1>9. Alternate'
  <2>1. k[0] \in Nat /\ k[1] \in Nat
    BY LinkAssumption DEF IInv, TypeOK, Threads
  <2>2. CASE t = 0
    BY <1>1, <1>2, <1>3, <1>4, <2>1, <2>2 DEF IInv, Alternate, Other
  <2>3. CASE t = 1
    BY <1>1, <1>2, <1>3, <1>4, <2>1, <2>3 DEF IInv, Alternate, Other
  <2> QED
    BY <2>2, <2>3 DEF Threads
<1>10. Outcome'
  BY <1>1, <1>2 DEF IInv, Outcome
<1> QED
  BY <1>6, <1>7, <1>8, <1>9, <1>10 DEF IInv

\* wg.Wait returns and so does the call: both goroutines are done.
LEMMA ReturnInvariant == IInv /\ Return => IInv'
  BY DEF IInv, TypeOK, BarrierCounts, Before, Where, Measuring, Alternate,
         Outcome, Return

\* Every step keeps the invariant.
LEMMA NextInvariant == IInv /\ [Next]_vars => IInv'
<1>1. IInv /\ UNCHANGED vars => IInv'
  BY DEF vars, IInv, TypeOK, BarrierCounts, Before, Where, Measuring,
         Alternate, Outcome
<1> QED
  BY <1>1, LockInvariant, RecordInvariant, LeaveInvariant, ArriveInvariant,
     PassInvariant, CheckInvariant, LoadInvariant, StoreInvariant,
     ReturnInvariant DEF Next, Step, Returned

\* IInv is an inductive invariant of measureSingleLink.
THEOREM Invariance == Spec => []IInv
  BY InitInvariant, NextInvariant, PTL DEF Spec

\* The barrier stays in range (a negative one would be a panic) and no
\* goroutine passes more than Iterations signals.
THEOREM TypeCorrect == Spec => []TypeOK
<1>1. IInv => TypeOK
  BY DEF IInv
<1> QED
  BY <1>1, Invariance, PTL

\* No goroutine ever waits for the signal of one that has failed or will fail.
THEOREM NeverAlone == Spec => []NobodySpinsAlone
<1>1. IInv => NobodySpinsAlone
  <2> SUFFICES ASSUME IInv, NEW t \in Threads, Measuring(t)
               PROVE  ~firstErr /\ ~Failed(Other(t))
    BY DEF NobodySpinsAlone
  <2>1. barrier = 0 /\ ~firstErr
    BY DEF IInv, Where
  <2>2. ~Before(Other(t))
    BY <2>1, TwoThreads DEF IInv, BarrierCounts
  <2> QED
    BY <2>1, <2>2 DEF Failed, Before
<1> QED
  BY <1>1, Invariance, PTL

\* A latency is the time of exactly Iterations round trips; an error means
\* that none was made.
THEOREM LatencyIsOfAll == Spec => []FullMeasurement
<1>1. IInv => FullMeasurement
  <2> SUFFICES ASSUME IInv PROVE FullMeasurement
    OBVIOUS
  <2>1. k[1] <= k[0] /\ k[0] <= k[1] + 1
    BY LinkAssumption DEF IInv, TypeOK, Alternate, Threads
  <2>2. result = "latency" => \A t \in Threads : k[t] = Iterations
    BY DEF IInv, Outcome, Where
  <2>3. result = "error" => \A t \in Threads : k[t] = 0
    BY DEF IInv, Outcome, Where
  <2> QED
    BY <2>1, <2>2, <2>3 DEF FullMeasurement
<1> QED
  BY <1>1, Invariance, PTL

-----------------------------------------------------------------------------
(* Why the call returns: as long as goroutines run, one of them is not     *)
(* waiting, and what each can still do runs out.                           *)

\* The guard of the goroutine's next action: it waits only at the barrier and
\* for the signal.
Waits(t) == (pc[t] = "barrier" /\ barrier # 0) \/ (pc[t] = "load" /\ signal # t)

\* Goroutine t is not done, but waits only for itself to be scheduled.
CanGoOn(t) == pc[t] # "done" /\ ~Waits(t)

\* The actions that t can still take.
Work(t) ==
    LET rest == Iterations - k[t]
    IN  CASE pc[t] = "done"    -> 0
          [] pc[t] = "leave"   -> 1
          [] pc[t] = "record"  -> 2
          [] pc[t] = "store"   -> rest + rest
          [] pc[t] = "load"    -> rest + rest + 1
          [] pc[t] = "check"   -> rest + rest + 2
          [] pc[t] = "barrier" -> rest + rest + 3
          [] pc[t] = "arrive"  -> rest + rest + 4
          [] pc[t] = "lock"    -> rest + rest + 5

\* The two never wait for each other: at the barrier it is the one that is still
\* before it, at the signal the one whose turn it is, that can go on.
LEMMA OneGoesOn ==
    ASSUME IInv, NEW t \in Threads, pc[t] # "done"
    PROVE  CanGoOn(t) \/ CanGoOn(Other(t))
<1> SUFFICES ASSUME Waits(t), ~CanGoOn(Other(t)) PROVE FALSE
  BY DEF CanGoOn
<1>0. Other(t) \in Threads /\ Other(Other(t)) = t
  BY TwoThreads
<1>1. pc[Other(t)] = "done" \/ Waits(Other(t))
  BY DEF CanGoOn
<1>2. ~Before(t) /\ ~Before(Other(t))
  BY <1>1 DEF Waits, Before
<1>3. barrier = 0
  BY <1>2 DEF IInv, BarrierCounts
<1>4. pc[t] = "load" /\ signal = Other(t)
  BY <1>3 DEF Waits, IInv, TypeOK, Threads, Other
<1>5. pc[Other(t)] = "done"
  BY <1>0, <1>1, <1>3, <1>4 DEF Waits
<1>6. ~firstErr /\ k[t] < Iterations
  BY <1>4 DEF IInv, Where, Measuring
<1>7. k[Other(t)] = Iterations
  BY <1>0, <1>5, <1>6 DEF IInv, Where
<1>8. k[0] \in Nat /\ k[1] \in Nat /\ k[0] = k[1] + signal
  BY LinkAssumption DEF IInv, TypeOK, Alternate, Threads
<1>9. CASE t = 0
  BY <1>4, <1>6, <1>7, <1>8, <1>9 DEF Other
<1>10. CASE t = 1
  BY <1>4, <1>6, <1>7, <1>8, <1>10 DEF Other
<1> QED
  BY <1>9, <1>10 DEF Threads

\* An action of a goroutine uses up some of its work, and none of the other's.
LEMMA WorkDone ==
    ASSUME IInv, NEW t \in Threads, NEW u \in Threads, Step(u), pc'[t] # pc[t]
    PROVE  Work(t)' < Work(t)
<1> DEFINE rest == Iterations - k[t]
<1>1. t = u
  BY DEF IInv, TypeOK, Step, Lock, Record, Leave, Arrive, Pass, Check, Load, Store, Goto
<1>2. k[t] \in 0 .. Iterations /\ rest \in Nat /\ Iterations \in Nat
  BY LinkAssumption DEF IInv, TypeOK
<1>3. ASSUME pc[t] # "store" PROVE k'[t] = k[t]
  BY <1>1, <1>3 DEF Step, Lock, Record, Leave, Arrive, Pass, Check, Load, Store
<1>4. CASE Lock(t)
  BY <1>2, <1>3, <1>4 DEF Lock, Goto, IInv, TypeOK, Work
<1>5. CASE Record(t)
  BY <1>2, <1>3, <1>5 DEF Record, Goto, IInv, TypeOK, Work
<1>6. CASE Leave(t)
  BY <1>2, <1>3, <1>6 DEF Leave, Goto, IInv, TypeOK, Work
<1>7. CASE Arrive(t) \/ Pass(t) \/ Load(t)
  BY <1>2, <1>3, <1>7 DEF Arrive, Pass, Load, Goto, IInv, TypeOK, Work
<1>8. CASE Check(t)
  BY <1>2, <1>3, <1>8 DEF Check, Goto, IInv, TypeOK, Work
<1>9. CASE Store(t)
  <2>1. k[t] < Iterations /\ k'[t] = k[t] + 1 /\ pc[t] = "store"
    BY <1>9 DEF Store, IInv, TypeOK, Where, Measuring
  <2>2. pc'[t] \in {"load", "done"}
    BY <1>9 DEF Store, Goto, IInv, TypeOK
  <2> QED
    BY <1>2, <2>1, <2>2 DEF Work
<1> QED
  BY <1>1, <1>4, <1>5, <1>6, <1>7, <1>8, <1>9 DEF Step

\* Whatever CPUs fail and however the goroutines are scheduled, a call that has
\* not returned never hangs: one of its goroutines can go on, or both are done.
THEOREM NeverStuck == Spec => [](\A t \in Threads : pc[t] # "done" => \E u \in Threads : CanGoOn(u))
<1>1. IInv => \A t \in Threads : pc[t] # "done" => \E u \in Threads : CanGoOn(u)
  BY OneGoesOn, TwoThreads
<1> QED
  BY <1>1, Invariance, PTL

\* And it does not go on for ever: a goroutine moves only by using up its work,
\* which is never more than 2 * Iterations + 5 actions for each.
THEOREM WorkRunsOut == Spec => [][\A t \in Threads : pc'[t] # pc[t] => Work(t)' < Work(t)]_vars
<1>1. IInv /\ [Next]_vars => [\A t \in Threads : pc'[t] # pc[t] => Work(t)' < Work(t)]_vars
  <2> SUFFICES ASSUME IInv, Next, NEW t \in Threads, pc'[t] # pc[t]
               PROVE  Work(t)' < Work(t)
    OBVIOUS
  <2>1. ~Return /\ ~Returned
    BY DEF Return, Returned, vars
  <2> QED
    BY <2>1, WorkDone DEF Next
<1> QED
  BY <1>1, Invariance, PTL DEF Spec

-----------------------------------------------------------------------------
(* LinkMeasure implements LinkCall (but for its fairness)                  *)

Untried == { t \in Threads : pc[t] = "lock" }
SomeFailed == firstErr \/ \E t \in Threads : pc[t] = "record"

\* A call that has just been made is one of LinkCall.
LEMMA CallInit == Init => Call!Init
<1> SUFFICES ASSUME Init PROVE Call!Init
  OBVIOUS
<1>1. Untried = Call!Threads
  BY DEF Init, Untried, Threads, Call!Threads
<1>2. ~SomeFailed
  BY DEF Init, SomeFailed
<1> QED
  BY <1>1, <1>2 DEF Init, Call!Init, Untried, SomeFailed

\* Locking is an attempt; it fails if the goroutine goes on to record an error.
LEMMA CallLock ==
    ASSUME IInv, NEW t \in Threads, Lock(t)
    PROVE  \E success \in BOOLEAN : Call!Lock(t, success)
<1>1. /\ pc[t] = "lock" /\ pc'[t] \in {"arrive", "record"}
      /\ \A u \in Threads \ {t} : pc'[u] = pc[u]
      /\ UNCHANGED <<firstErr, result>>
  BY DEF Lock, Goto, IInv, TypeOK
<1>2. t \in Untried /\ Untried' = Untried \ {t}
  BY <1>1 DEF Untried
<1>3. SomeFailed \in BOOLEAN /\ SomeFailed' \in BOOLEAN
  BY <1>1 DEF SomeFailed, IInv, TypeOK
<1>4. CASE pc'[t] = "arrive"
  <2>1. SomeFailed' = (SomeFailed \/ ~TRUE)
    BY <1>1, <1>3, <1>4 DEF SomeFailed
  <2>2. Call!Lock(t, TRUE)
    BY <1>1, <1>2, <2>1 DEF Call!Lock, Untried, SomeFailed
  <2> QED
    BY <2>2
<1>5. CASE pc'[t] = "record"
  <2>1. SomeFailed' = (SomeFailed \/ ~FALSE)
    BY <1>1, <1>3, <1>5 DEF SomeFailed
  <2>2. Call!Lock(t, FALSE)
    BY <1>1, <1>2, <2>1 DEF Call!Lock, Untried, SomeFailed
  <2> QED
    BY <2>2
<1> QED
  BY <1>1, <1>4, <1>5

\* The steps between the attempts and the end of the call do not show.
LEMMA CallStutter ==
    ASSUME IInv, NEW t \in Threads,
           Record(t) \/ Leave(t) \/ Arrive(t) \/ Pass(t) \/ Check(t) \/ Load(t) \/ Store(t)
    PROVE  UNCHANGED Call!vars
<1>1. /\ pc[t] # "lock" /\ pc'[t] \notin {"lock", "record"}
      /\ \A u \in Threads \ {t} : pc'[u] = pc[u]
      /\ result' = result
  BY DEF Record, Leave, Arrive, Pass, Check, Load, Store, Goto, IInv, TypeOK, Steps
<1>2. Untried' = Untried
  BY <1>1 DEF Untried
<1>3. CASE Record(t)
  <2>1. SomeFailed /\ SomeFailed' /\ firstErr' = TRUE /\ pc[t] = "record"
    BY <1>3 DEF Record, SomeFailed
  <2>2. SomeFailed' = SomeFailed
    BY <2>1 DEF SomeFailed, IInv, TypeOK
  <2> QED
    BY <1>1, <1>2, <2>2 DEF Call!vars, Untried, SomeFailed
<1>4. CASE ~Record(t)
  <2>1. firstErr' = firstErr /\ pc[t] # "record"
    BY <1>4 DEF Record, Leave, Arrive, Pass, Check, Load, Store
  <2>2. SomeFailed' = SomeFailed
    BY <1>1, <2>1 DEF SomeFailed
  <2> QED
    BY <1>1, <1>2, <2>2 DEF Call!vars, Untried, SomeFailed
<1> QED
  BY <1>3, <1>4

\* The call returns what follows from the two attempts.
LEMMA CallReturn == ASSUME IInv, Return PROVE Call!Return
<1>1. /\ result = "running" /\ \A t \in Threads : pc[t] = "done"
      /\ result' = IF firstErr THEN "error" ELSE "latency"
      /\ UNCHANGED <<pc, firstErr>>
  BY DEF Return
<1>2. Untried = {} /\ Untried' = Untried
  BY <1>1 DEF Untried
<1>3. SomeFailed = firstErr /\ SomeFailed' = SomeFailed
  BY <1>1 DEF SomeFailed, IInv, TypeOK
<1> QED
  BY <1>1, <1>2, <1>3 DEF Call!Return, Untried, SomeFailed

\* Every step is an attempt, the return, or does not show.
LEMMA CallNext == IInv /\ [Next]_vars => [Call!Next]_(Call!vars)
<1> SUFFICES ASSUME IInv, [Next]_vars PROVE [Call!Next]_(Call!vars)
  OBVIOUS
<1>1. ASSUME NEW t \in Threads, Lock(t) PROVE Call!Next
  <2>1. t \in Call!Threads
    BY DEF Threads, Call!Threads
  <2> QED
    BY <1>1, <2>1, CallLock DEF Call!Next
<1>2. ASSUME NEW t \in Threads, Step(t), ~Lock(t) PROVE UNCHANGED Call!vars
  BY <1>2, CallStutter DEF Step
<1>3. CASE Return
  BY <1>3, CallReturn DEF Call!Next
<1>4. CASE UNCHANGED vars
  BY <1>4 DEF vars, Call!vars
<1> QED
  BY <1>1, <1>2, <1>3, <1>4 DEF Next, Returned

\* What the caller of measureSingleLink sees are the steps of LinkCall: it
\* returns only after both goroutines have tried, and with an error exactly
\* if one could not be locked.
THEOREM Refinement == Spec => Call!Spec
  BY CallInit, CallNext, Invariance, PTL DEF Spec, Call!Spec

=============================================================================
