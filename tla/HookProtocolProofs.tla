------------------------ MODULE HookProtocolProofs -------------------------
(***************************************************************************)
(* Proofs about HookProtocol, for every set of VMs, every number of        *)
(* retries and all times.  That the hook ends needs fairness and is left   *)
(* to the model checker; that it can delay a VM only so long is proved.    *)
(***************************************************************************)
EXTENDS HookProtocol, TLAPS

USE HookAssumption

\* The states of a hook: those that callService begins and ends with, and
\* one after a failed attempt, which starts no more than SocketRetry retries.
LEMMA ConstantHooks == Done \in HookStates /\ Call \in HookStates
BY DEF Done, Call, HookState, HookStates

LEMMA WaitingHook ==
    \A r \in HookStates : HookState("wait", r.try, SocketTimeout, Deadline) \in HookStates
BY DEF HookState, HookStates

LEMMA FailedHook == \A r \in HookStates : Failed(r) \in HookStates
<1>1. SUFFICES ASSUME NEW r \in HookStates PROVE Failed(r) \in HookStates
    OBVIOUS
<1>2. CASE r.try < SocketRetry
  <2>1. r.try + 1 \in 0 .. SocketRetry
    BY <1>2 DEF HookStates
  <2>2. QED
    BY <1>2, <2>1 DEF Failed, HookState, HookStates
<1>3. CASE ~(r.try < SocketRetry)
    BY <1>3, ConstantHooks DEF Failed
<1>4. QED
    BY <1>2, <1>3

LEMMA Minus1Stays == \A n \in Nat : \A k \in 0 .. n : Minus1(k) \in 0 .. n
BY DEF Minus1

LEMMA TickedHook ==
    \A r \in HookStates :
        [r EXCEPT !.left = Minus1(@), !.due = Minus1(@)] \in HookStates
<1>1. SUFFICES ASSUME NEW r \in HookStates
               PROVE  [r EXCEPT !.left = Minus1(@), !.due = Minus1(@)] \in HookStates
    OBVIOUS
<1>2. /\ SocketSleep + SocketTimeout \in Nat /\ Deadline \in Nat
      /\ r.left \in 0 .. SocketSleep + SocketTimeout /\ r.due \in 0 .. Deadline
    BY DEF HookStates
<1>3. /\ Minus1(r.left) \in 0 .. SocketSleep + SocketTimeout
      /\ Minus1(r.due) \in 0 .. Deadline
    BY <1>2, Minus1Stays
<1>4. QED
    BY <1>3 DEF HookStates

LEMMA TickedDone == [Done EXCEPT !.left = Minus1(@), !.due = Minus1(@)] = Done
<1>1. Minus1(0) = 0
    BY DEF Minus1
<1>2. Done.left = 0 /\ Done.due = 0
    BY DEF Done, HookState
<1>3. QED
    BY <1>1, <1>2 DEF Done, HookState

LEMMA WokenHook == \A r \in HookStates : [r EXCEPT !.at = "dial"] \in HookStates
BY DEF HookStates

-----------------------------------------------------------------------------
LEMMA TypeStep == TypeOK /\ [Next]_vars => TypeOK'
<1> SUFFICES ASSUME TypeOK, [Next]_vars PROVE TypeOK'
  OBVIOUS
<1> USE DEF TypeOK, serviceVars
<1>1. ASSUME NEW v \in VMs, PreStart(v) PROVE TypeOK'
  BY <1>1, ConstantHooks DEF PreStart, Becomes
<1>2. ASSUME NEW v \in VMs, PostStart(v) PROVE TypeOK'
  BY <1>2, ConstantHooks DEF PostStart, Becomes
<1>3. ASSUME NEW v \in VMs, StopVM(v) PROVE TypeOK'
  BY <1>3 DEF StopVM
<1>4. ASSUME NEW v \in VMs, GuestDies(v) PROVE TypeOK'
  BY <1>4 DEF GuestDies
<1>5. ASSUME NEW v \in VMs, Dial(v) PROVE TypeOK'
  BY <1>5, WaitingHook, FailedHook DEF Dial, Becomes
<1>6. ASSUME NEW v \in VMs, Wake(v) PROVE TypeOK'
  BY <1>6, WokenHook DEF Wake, Becomes
<1>7. ASSUME NEW v \in VMs, TimeOut(v) PROVE TypeOK'
  BY <1>7, FailedHook DEF TimeOut, Becomes
<1>8. ASSUME NEW v \in VMs, AnswerPing(v) PROVE TypeOK'
  BY <1>8, FailedHook, ConstantHooks DEF AnswerPing, Becomes
<1>9. ASSUME NEW v \in VMs, AnswerUpdate(v) PROVE TypeOK'
  BY <1>9, FailedHook, ConstantHooks DEF AnswerUpdate, Becomes
<1>10. ASSUME NEW v \in VMs, ServeAbandoned(v) PROVE TypeOK'
  BY <1>10 DEF ServeAbandoned
<1>11. CASE Ready
  BY <1>11 DEF Ready
<1>12. CASE RankingFails
  BY <1>12 DEF RankingFails, Starting
<1>13. CASE Crash
  BY <1>13, FailedHook DEF Crash, Ends, Starting
<1>14. CASE Shutdown
  BY <1>14, FailedHook DEF Shutdown, Ends, Starting
<1>15. CASE StartService
  BY <1>15 DEF StartService
<1>16. CASE Tick
  <2>1. left' \in 0 .. MaxRanking
    BY <1>16, Minus1Stays DEF Tick
  <2>2. hook' \in [VMs -> HookStates]
    BY <1>16, TickedHook DEF Tick
  <2>3. QED
    BY <1>16, <2>1, <2>2 DEF Tick
<1>17. CASE UNCHANGED vars
  BY <1>17 DEF vars
<1>18. QED
  BY <1>1, <1>2, <1>3, <1>4, <1>5, <1>6, <1>7, <1>8, <1>9, <1>10, <1>11,
     <1>12, <1>13, <1>14, <1>15, <1>16, <1>17 DEF Next, Hook

\* Every variable has its type, and no call of the service makes more than
\* SocketRetry + 1 attempts, for every configuration.
THEOREM TypeCorrect == Spec => []TypeOK
<1>1. Init => TypeOK
    BY ConstantHooks DEF Init, TypeOK
<1>2. QED
    BY <1>1, TypeStep, PTL DEF Spec

-----------------------------------------------------------------------------
(* A VM that starts while the CPUs are ranked for the first time: what the *)
(* hook has slept, and what is left of the calculation, add up to no more  *)
(* than MaxRanking.                                                        *)

\* The ticks that a call has slept before its n-th retry.
Slept(n) == n * SocketSleep

\* What the hook of v has slept since pre-start, if no attempt got through.
Elapsed(v) ==
    (IF stage[v] = "post-start" THEN Slept(SocketRetry) ELSE 0)
      + (IF hook[v].at = "dial" THEN Slept(hook[v].try)
         ELSE IF hook[v].at = "sleep" THEN Slept(hook[v].try) - hook[v].left
         ELSE Slept(SocketRetry))

\* Only a service that serves has requests.
WaitsForServing == \A v \in VMs : hook[v].at = "wait" => service = "serving"

OneDone == \A v \in VMs : hook[v].at = "done" => hook[v] = Done

Undisturbed(v) == v \in Starting /\ v \notin disturbed

InTime ==
    \A v \in VMs : Undisturbed(v) =>
        /\ service # "off"
        /\ service = "ranking" => left + Elapsed(v) <= MaxRanking

\* A VM that does not start has no hook.
OffIsDone == \A v \in VMs : stage[v] = "off" => hook[v] = Done

\* A guest that does not run during post-start has died while it started.
DeadDisturbed ==
    \A v \in VMs : stage[v] = "post-start" /\ hook[v] # Done /\ v \notin alive
                        => v \in disturbed

\* Only a hook that has ended has been told ok.
ToldWhenDone == \A v \in VMs : v \in ok => stage[v] = "post-start" /\ hook[v] = Done

\* What holds for every configuration.
CInv ==
    /\ TypeOK /\ WaitsForServing /\ OneDone /\ OffIsDone
    /\ DeadDisturbed /\ ToldWhenDone

IInv == CInv /\ InTime /\ ServedAfterStart

LEMMA SleptNat == \A n \in Nat : Slept(n) \in Nat
BY DEF Slept

LEMMA SleptNext == \A n \in Nat : Slept(n + 1) = Slept(n) + SocketSleep
BY DEF Slept

LEMMA SleptNone == Slept(0) = 0
BY DEF Slept

\* In time, as far as v goes.
InTimeOf(v) ==
    Undisturbed(v) =>
        /\ service # "off"
        /\ service = "ranking" => left + Elapsed(v) <= MaxRanking

\* A step that leaves the hook and the stage of v and the service alone.
LEMMA InTimeFrame ==
    \A v \in VMs :
        /\ InTimeOf(v)
        /\ UNCHANGED <<service, left, hook[v], stage[v]>>
        /\ v \in disturbed => v \in disturbed'
        => InTimeOf(v)'
BY DEF InTimeOf, Elapsed, Undisturbed, Starting

\* An attempt that fails costs a sleep, and the last one nothing.
LEMMA ElapsedFailed ==
    ASSUME TypeOK, NEW v \in VMs, hook[v].at = "dial",
           hook'[v] = Failed(hook[v]), stage'[v] = stage[v]
    PROVE  Elapsed(v)' = Elapsed(v)
<1>1. /\ hook[v] \in HookStates /\ hook[v].try \in 0 .. SocketRetry
      /\ Slept(hook[v].try) \in Nat
    BY SleptNat DEF TypeOK, HookStates
<1>2. CASE hook[v].try < SocketRetry
  <2>1. /\ hook'[v].at = "sleep" /\ hook'[v].left = SocketSleep
        /\ hook'[v].try = hook[v].try + 1
    BY <1>2 DEF Failed, HookState
  <2>2. Slept(hook'[v].try) - hook'[v].left = Slept(hook[v].try)
    BY <2>1, <1>1, SleptNext
  <2>3. QED
    BY <2>1, <2>2 DEF Elapsed
<1>3. CASE ~(hook[v].try < SocketRetry)
  <2>1. hook'[v].at = "done" /\ hook[v].try = SocketRetry
    BY <1>1, <1>3 DEF Failed, Done, HookState
  <2>2. QED
    BY <2>1 DEF Elapsed
<1>4. QED
    BY <1>2, <1>3

\* The invariant for the VM that an action is about.  While the CPUs are
\* ranked, a request cannot be waiting, so only Dial and Wake matter.
LEMMA InTimeDial ==
    ASSUME TypeOK, NEW v \in VMs, InTimeOf(v), Dial(v)
    PROVE  InTimeOf(v)'
<1>1. UNCHANGED <<service, left, stage, disturbed>>
    BY DEF Dial, serviceVars
<1>2. Undisturbed(v)' => Undisturbed(v)
    BY <1>1 DEF Undisturbed, Starting, Dial, Done, HookState
<1>3. ASSUME service = "ranking" PROVE Elapsed(v)' = Elapsed(v)
  <2>1. hook[v].at = "dial" /\ hook'[v] = Failed(hook[v]) /\ stage'[v] = stage[v]
    BY <1>3 DEF Dial, Becomes, TypeOK
  <2>2. QED
    BY <2>1, ElapsedFailed
<1>4. QED
    BY <1>1, <1>2, <1>3 DEF InTimeOf

LEMMA InTimeWake ==
    ASSUME TypeOK, NEW v \in VMs, InTimeOf(v), Wake(v)
    PROVE  InTimeOf(v)'
<1>1. /\ hook[v].at = "sleep" /\ hook[v].left = 0
      /\ hook'[v].at = "dial" /\ hook'[v].try = hook[v].try
    BY DEF Wake, Becomes, TypeOK, HookStates
<1>2. Slept(hook[v].try) \in Nat
    BY SleptNat DEF TypeOK, HookStates
<1>3. Slept(hook[v].try) - 0 = Slept(hook[v].try)
    BY <1>2
<1>4. UNCHANGED <<service, left, stage, disturbed>>
    BY DEF Wake, serviceVars
<1>5. Elapsed(v)' = Elapsed(v)
    BY <1>1, <1>3, <1>4 DEF Elapsed
<1>6. Undisturbed(v)' => Undisturbed(v)
    BY <1>1, <1>4 DEF Undisturbed, Starting, Done, HookState
<1>7. QED
    BY <1>4, <1>5, <1>6 DEF InTimeOf

\* A tick takes one from the calculation and adds one to a sleep.
LEMMA InTimeTick ==
    ASSUME TypeOK, OneDone, WaitsForServing, NEW v \in VMs, InTimeOf(v), Tick
    PROVE  InTimeOf(v)'
<1>1. UNCHANGED <<service, stage, disturbed>>
    BY DEF Tick
<1>2. hook'[v] = [hook[v] EXCEPT !.left = Minus1(@), !.due = Minus1(@)]
    BY DEF Tick
<1>3. hook[v] \in HookStates
    BY DEF TypeOK
<1>4. /\ hook'[v].at = hook[v].at /\ hook'[v].try = hook[v].try
      /\ hook'[v].left = Minus1(hook[v].left)
    BY <1>2, <1>3 DEF HookStates
<1>5. hook[v].at # "dial" /\ (hook[v].at = "sleep" => hook[v].left # 0)
    BY DEF Tick, Due
<1>6. Undisturbed(v)' => Undisturbed(v)
  <2>1. hook'[v] # Done => hook[v] # Done
    BY <1>2, TickedDone
  <2>2. QED
    BY <1>1, <2>1 DEF Undisturbed, Starting
<1>7. ASSUME service = "ranking", left + Elapsed(v) <= MaxRanking
      PROVE  left' + Elapsed(v)' <= MaxRanking
  <2> DEFINE base == IF stage[v] = "post-start" THEN Slept(SocketRetry) ELSE 0
  <2>1. base \in Nat /\ Slept(hook[v].try) \in Nat /\ Slept(SocketRetry) \in Nat
    BY <1>3, SleptNat DEF HookStates
  <2>2. left \in Nat /\ left' = left - 1
    <3>1. left \in Nat
      BY DEF TypeOK
    <3>2. left > 0 /\ left' = Minus1(left)
      BY <1>7 DEF Tick
    <3>3. QED
      BY <3>1, <3>2 DEF Minus1
  <2>3. CASE hook[v].at = "sleep"
    <3>1. hook[v].left \in Nat /\ hook'[v].left = hook[v].left - 1
      BY <1>3, <1>4, <1>5, <2>3 DEF HookStates, Minus1
    <3>2. Elapsed(v) = base + (Slept(hook[v].try) - hook[v].left)
      BY <2>3 DEF Elapsed
    <3>3. Elapsed(v)' = base + (Slept(hook[v].try) - (hook[v].left - 1))
      BY <2>3, <3>1, <1>1, <1>4 DEF Elapsed
    <3>4. QED
      BY <1>7, <2>1, <2>2, <3>1, <3>2, <3>3
  <2>4. CASE hook[v].at # "sleep"
    <3>1. Elapsed(v) = base + Slept(SocketRetry)
      BY <2>4, <1>5 DEF Elapsed
    <3>2. Elapsed(v)' = base + Slept(SocketRetry)
      BY <2>4, <1>1, <1>4, <1>5 DEF Elapsed
    <3>3. QED
      BY <1>7, <2>1, <2>2, <3>1, <3>2
  <2>5. QED
    BY <2>3, <2>4
<1>8. QED
  <2>1. SUFFICES ASSUME Undisturbed(v)', service = "ranking"
                 PROVE  left' + Elapsed(v)' <= MaxRanking
    BY <1>1, <1>6 DEF InTimeOf
  <2>2. left + Elapsed(v) <= MaxRanking
    BY <1>6, <2>1 DEF InTimeOf
  <2>3. QED
    BY <1>7, <2>1, <2>2

LEMMA FailedAt ==
    \A r \in HookStates : Failed(r).at \in {"sleep", "done"}
                        /\ (Failed(r).at = "done" => Failed(r) = Done)
BY DEF Failed, Done, HookState

LEMMA EndedHook ==
    ASSUME TypeOK, Ends, NEW v \in VMs
    PROVE  /\ hook'[v] = IF hook[v].at = "wait" THEN Failed(hook[v]) ELSE hook[v]
           /\ hook[v] \in HookStates
BY DEF TypeOK, Ends

LEMMA WaitsStep == TypeOK /\ WaitsForServing /\ [Next]_vars => WaitsForServing'
<1> SUFFICES ASSUME TypeOK, WaitsForServing, [Next]_vars, NEW v \in VMs, hook'[v].at = "wait"
             PROVE  service' = "serving"
    BY DEF WaitsForServing
<1> USE DEF serviceVars
<1>0. hook[v] \in HookStates /\ hook \in [VMs -> HookStates]
    BY DEF TypeOK
<1>1. ASSUME NEW w \in VMs, PreStart(w) \/ PostStart(w) PROVE service' = "serving"
    BY <1>1, <1>0 DEF PreStart, PostStart, Becomes, Call, Done, HookState, WaitsForServing
<1>2. ASSUME NEW w \in VMs, Dial(w) \/ TimeOut(w) PROVE service' = "serving"
    BY <1>2, <1>0, FailedAt DEF Dial, TimeOut, Becomes, WaitsForServing
<1>3. ASSUME NEW w \in VMs, Wake(w) PROVE service' = "serving"
    BY <1>3, <1>0 DEF Wake, Becomes, HookStates, WaitsForServing
<1>4. ASSUME NEW w \in VMs, AnswerPing(w) \/ AnswerUpdate(w) PROVE service' = "serving"
    BY <1>4 DEF AnswerPing, AnswerUpdate, WaitsForServing
<1>5. ASSUME NEW w \in VMs, StopVM(w) \/ GuestDies(w) \/ ServeAbandoned(w)
      PROVE  service' = "serving"
    BY <1>5 DEF StopVM, GuestDies, ServeAbandoned, WaitsForServing
<1>6. CASE Ready \/ RankingFails \/ StartService
    BY <1>6 DEF Ready, RankingFails, StartService, WaitsForServing
<1>7. CASE Crash \/ Shutdown
    BY <1>7, EndedHook, FailedAt DEF Crash, Shutdown
<1>8. CASE Tick
    BY <1>8, <1>0 DEF Tick, HookStates, WaitsForServing
<1>9. CASE UNCHANGED vars
    BY <1>9 DEF vars, WaitsForServing
<1>10. QED
    BY <1>1, <1>2, <1>3, <1>4, <1>5, <1>6, <1>7, <1>8, <1>9 DEF Next, Hook

LEMMA OneDoneStep == TypeOK /\ OneDone /\ [Next]_vars => OneDone'
<1> SUFFICES ASSUME TypeOK, OneDone, [Next]_vars, NEW v \in VMs, hook'[v].at = "done"
             PROVE  hook'[v] = Done
    BY DEF OneDone
<1> USE DEF serviceVars
<1>0. hook[v] \in HookStates /\ hook \in [VMs -> HookStates]
    BY DEF TypeOK
<1>1. ASSUME NEW w \in VMs, PreStart(w) \/ PostStart(w) PROVE hook'[v] = Done
    BY <1>1, <1>0 DEF PreStart, PostStart, Becomes, Call, HookState, OneDone
<1>2. ASSUME NEW w \in VMs, Dial(w) \/ TimeOut(w) PROVE hook'[v] = Done
    BY <1>2, <1>0, FailedAt DEF Dial, TimeOut, Becomes, HookState, OneDone
<1>3. ASSUME NEW w \in VMs, Wake(w) PROVE hook'[v] = Done
    BY <1>3, <1>0 DEF Wake, Becomes, HookStates, OneDone
<1>4. ASSUME NEW w \in VMs, AnswerPing(w) \/ AnswerUpdate(w) PROVE hook'[v] = Done
    BY <1>4, <1>0, FailedAt DEF AnswerPing, AnswerUpdate, Becomes, OneDone
<1>5. ASSUME NEW w \in VMs, StopVM(w) \/ GuestDies(w) \/ ServeAbandoned(w)
      PROVE  hook'[v] = Done
    BY <1>5 DEF StopVM, GuestDies, ServeAbandoned, OneDone
<1>6. CASE Ready \/ RankingFails \/ StartService
    BY <1>6 DEF Ready, RankingFails, StartService, OneDone
<1>7. CASE Crash \/ Shutdown
    BY <1>7, EndedHook, FailedAt DEF Crash, Shutdown, OneDone
<1>8. CASE Tick
  <2>1. hook'[v] = [hook[v] EXCEPT !.left = Minus1(@), !.due = Minus1(@)]
    BY <1>8 DEF Tick
  <2>2. hook[v].at = "done"
    BY <2>1, <1>0 DEF HookStates
  <2>3. QED
    BY <2>1, <2>2, TickedDone DEF OneDone
<1>9. CASE UNCHANGED vars
    BY <1>9 DEF vars, OneDone
<1>10. QED
    BY <1>1, <1>2, <1>3, <1>4, <1>5, <1>6, <1>7, <1>8, <1>9 DEF Next, Hook

LEMMA OffIsDoneStep == TypeOK /\ OffIsDone /\ [Next]_vars => OffIsDone'
<1> SUFFICES ASSUME TypeOK, OffIsDone, [Next]_vars, NEW v \in VMs, stage'[v] = "off"
             PROVE  hook'[v] = Done
    BY DEF OffIsDone
<1> USE DEF serviceVars
<1>0. hook[v] \in HookStates /\ hook \in [VMs -> HookStates]
    BY DEF TypeOK
<1>1. Done.at = "done"
    BY DEF Done, HookState
<1>2. ASSUME NEW w \in VMs, PreStart(w) \/ PostStart(w) \/ StopVM(w) PROVE hook'[v] = Done
    BY <1>0, <1>2 DEF PreStart, PostStart, StopVM, Becomes, TypeOK, OffIsDone
<1>3. ASSUME NEW w \in VMs, Dial(w) \/ Wake(w) PROVE hook'[v] = Done
    BY <1>0, <1>1, <1>3 DEF Dial, Wake, Becomes, OffIsDone
<1>4. ASSUME NEW w \in VMs, TimeOut(w) \/ AnswerPing(w) \/ AnswerUpdate(w)
      PROVE  hook'[v] = Done
    BY <1>0, <1>1, <1>4 DEF TimeOut, AnswerPing, AnswerUpdate, Becomes, OffIsDone
<1>5. ASSUME NEW w \in VMs, GuestDies(w) \/ ServeAbandoned(w) PROVE hook'[v] = Done
    BY <1>5 DEF GuestDies, ServeAbandoned, OffIsDone
<1>6. CASE Ready \/ RankingFails \/ StartService \/ UNCHANGED vars
    BY <1>6 DEF Ready, RankingFails, StartService, vars, OffIsDone
<1>7. CASE Crash \/ Shutdown
    BY <1>1, <1>7, EndedHook DEF Crash, Shutdown, Ends, OffIsDone
<1>8. CASE Tick
    BY <1>8, TickedDone DEF Tick, OffIsDone
<1>9. QED
    BY <1>2, <1>3, <1>4, <1>5, <1>6, <1>7, <1>8 DEF Next, Hook

LEMMA DeadStep == TypeOK /\ OneDone /\ DeadDisturbed /\ [Next]_vars => DeadDisturbed'
<1> SUFFICES ASSUME TypeOK, OneDone, DeadDisturbed, [Next]_vars, NEW v \in VMs,
                    stage'[v] = "post-start", hook'[v] # Done, v \notin alive'
             PROVE  v \in disturbed'
    BY DEF DeadDisturbed
<1> USE DEF serviceVars
<1>0. hook[v] \in HookStates /\ hook \in [VMs -> HookStates]
    BY DEF TypeOK
<1>1. ASSUME NEW w \in VMs, PreStart(w) \/ PostStart(w) \/ StopVM(w)
      PROVE  v \in disturbed'
    BY <1>1 DEF PreStart, PostStart, StopVM, Becomes, TypeOK, DeadDisturbed
<1>2. ASSUME NEW w \in VMs, GuestDies(w) PROVE v \in disturbed'
    BY <1>2 DEF GuestDies, Starting, DeadDisturbed
<1>3. ASSUME NEW w \in VMs, Dial(w) \/ Wake(w) \/ TimeOut(w) \/ AnswerPing(w) \/ AnswerUpdate(w)
      PROVE  v \in disturbed'
  <2>0. hook[w].at # "done"
    BY <1>3 DEF Dial, Wake, TimeOut, AnswerPing, AnswerUpdate
  <2>1. hook[w] # Done
    BY <2>0 DEF Done, HookState
  <2>2. hook[v] # Done
    BY <1>3, <2>1 DEF Dial, Wake, TimeOut, AnswerPing, AnswerUpdate, Becomes, TypeOK
  <2>3. UNCHANGED <<stage, alive>> /\ (v \in disturbed => v \in disturbed')
    BY <1>3 DEF Dial, Wake, TimeOut, AnswerPing, AnswerUpdate
  <2>4. QED
    BY <2>2, <2>3 DEF DeadDisturbed
<1>4. ASSUME NEW w \in VMs, ServeAbandoned(w) PROVE v \in disturbed'
    BY <1>4 DEF ServeAbandoned, DeadDisturbed
<1>5. CASE Ready \/ RankingFails \/ StartService
    BY <1>5 DEF Ready, RankingFails, StartService, DeadDisturbed
<1>6. CASE Crash \/ Shutdown
  <2>1. /\ hook'[v] = IF hook[v].at = "wait" THEN Failed(hook[v]) ELSE hook[v]
        /\ UNCHANGED <<stage, alive>> /\ (v \in disturbed => v \in disturbed')
    BY <1>6, EndedHook DEF Crash, Shutdown, Ends
  <2>2. hook[v] # Done
    BY <2>1 DEF Done, HookState
  <2>3. QED
    BY <2>1, <2>2 DEF DeadDisturbed
<1>7. CASE Tick
  <2>1. hook[v] # Done
    BY <1>7, TickedDone DEF Tick
  <2>2. QED
    BY <1>7, <2>1 DEF Tick, DeadDisturbed
<1>8. CASE UNCHANGED vars
    BY <1>8 DEF vars, DeadDisturbed
<1>9. QED
    BY <1>1, <1>2, <1>3, <1>4, <1>5, <1>6, <1>7, <1>8 DEF Next, Hook

LEMMA ToldStep == TypeOK /\ ToldWhenDone /\ [Next]_vars => ToldWhenDone'
<1> SUFFICES ASSUME TypeOK, ToldWhenDone, [Next]_vars, NEW v \in VMs, v \in ok'
             PROVE  stage'[v] = "post-start" /\ hook'[v] = Done
    BY DEF ToldWhenDone
<1>1. v \in ok => stage[v] = "post-start" /\ hook[v] = Done
    BY DEF ToldWhenDone
<1>2. ASSUME NEW w \in VMs, PreStart(w) \/ PostStart(w)
      PROVE  stage'[v] = "post-start" /\ hook'[v] = Done
    BY <1>1, <1>2 DEF PreStart, PostStart, Becomes, TypeOK
<1>3. ASSUME NEW w \in VMs, StopVM(w) PROVE stage'[v] = "post-start" /\ hook'[v] = Done
    BY <1>1, <1>3 DEF StopVM, TypeOK
<1>4. ASSUME NEW w \in VMs, GuestDies(w) \/ ServeAbandoned(w)
      PROVE  stage'[v] = "post-start" /\ hook'[v] = Done
    BY <1>1, <1>4 DEF GuestDies, ServeAbandoned
<1>5. ASSUME NEW w \in VMs, Dial(w) \/ Wake(w) \/ TimeOut(w) \/ AnswerPing(w)
      PROVE  stage'[v] = "post-start" /\ hook'[v] = Done
  <2>0. ok' = ok /\ hook[w].at # "done"
    BY <1>5 DEF Dial, Wake, TimeOut, AnswerPing
  <2>1. v # w
    BY <1>1, <2>0 DEF Done, HookState
  <2>2. QED
    BY <1>1, <1>5, <2>1 DEF Dial, Wake, TimeOut, AnswerPing, Becomes, TypeOK
<1>6. ASSUME NEW w \in VMs, AnswerUpdate(w)
      PROVE  stage'[v] = "post-start" /\ hook'[v] = Done
  <2>1. CASE v = w
    <3>1. v \notin ok /\ stage[v] = "post-start"
      <4>1. stage[v] = "post-start" /\ hook[v].at = "wait"
        BY <1>6, <2>1 DEF AnswerUpdate, Updates
      <4>2. QED
        BY <1>1, <4>1 DEF Done, HookState
    <3>2. QED
      BY <1>6, <2>1, <3>1 DEF AnswerUpdate, Becomes, TypeOK
  <2>2. CASE v # w
    BY <1>1, <1>6, <2>2 DEF AnswerUpdate, Becomes, TypeOK
  <2>3. QED
    BY <2>1, <2>2
<1>7. CASE Ready \/ RankingFails \/ StartService
    BY <1>1, <1>7 DEF Ready, RankingFails, StartService
<1>8. CASE Crash \/ Shutdown
  <2>1. /\ hook'[v] = IF hook[v].at = "wait" THEN Failed(hook[v]) ELSE hook[v]
        /\ UNCHANGED <<stage, ok>>
    BY <1>8, EndedHook DEF Crash, Shutdown, Ends
  <2>2. QED
    BY <1>1, <2>1 DEF Done, HookState
<1>9. CASE Tick
    BY <1>1, <1>9, TickedDone DEF Tick
<1>10. CASE UNCHANGED vars
    BY <1>1, <1>10 DEF vars
<1>11. QED
    BY <1>2, <1>3, <1>4, <1>5, <1>6, <1>7, <1>8, <1>9, <1>10 DEF Next, Hook

\* The part of the invariant that holds for every configuration.
LEMMA CInvariance == Spec => []CInv
<1>1. Init => CInv
    BY ConstantHooks DEF Init, CInv, TypeOK, WaitsForServing, OneDone, OffIsDone, DeadDisturbed,
                         ToldWhenDone, Done, HookState
<1>2. CInv /\ [Next]_vars => CInv'
    BY TypeStep, WaitsStep, OneDoneStep, OffIsDoneStep, DeadStep, ToldStep DEF CInv
<1>3. QED
    BY <1>1, <1>2, PTL DEF Spec

\* The hook ends only with an answer in time, ok for post-start and then only
\* with the guest served or dead, or after the last attempt, whatever requests
\* are abandoned, repeated, answered late or cut off.
THEOREM NoEarlyEnds == Spec => NoEarlyEnd
<1> DEFINE Kept == \A v \in VMs : hook[v] # Done /\ hook'[v] = Done =>
         \/ /\ Answered(v)
            /\ Updates(v) => v \in ok' /\ (v \in alive => v \in served')
         \/ hook[v].try = SocketRetry /\ v \notin ok'
<1>1. CInv /\ [Next]_vars => [Kept]_vars
  <2> SUFFICES ASSUME CInv, Next, NEW v \in VMs, hook[v] # Done, hook'[v] = Done
               PROVE  \/ /\ Answered(v)
                         /\ Updates(v) => v \in ok' /\ (v \in alive => v \in served')
                      \/ hook[v].try = SocketRetry /\ v \notin ok'
    OBVIOUS
  <2>0. hook[v] \in HookStates /\ hook \in [VMs -> HookStates] /\ v \notin ok
    BY DEF CInv, TypeOK, ToldWhenDone
  <2>1. Failed(hook[v]) = Done => hook[v].try = SocketRetry
    BY <2>0 DEF Failed, Done, HookState, HookStates
  <2>2. ASSUME NEW w \in VMs, \/ PreStart(w) \/ PostStart(w) \/ StopVM(w)
                              \/ GuestDies(w) \/ ServeAbandoned(w)
        PROVE  FALSE
  <3>1. stage[v] # "off"
    BY DEF CInv, OffIsDone
  <3>2. QED
    BY <2>0, <2>2, <3>1 DEF PreStart, PostStart, StopVM, GuestDies, ServeAbandoned,
                      Becomes, Call, Done, HookState
  <2>3. ASSUME NEW w \in VMs, Dial(w) \/ Wake(w) \/ TimeOut(w)
        PROVE  hook[v].try = SocketRetry /\ v \notin ok'
    <3>1. v = w /\ ok' = ok
      BY <2>0, <2>3 DEF Dial, Wake, TimeOut, Becomes
    <3>2. hook'[v] = Failed(hook[v])
      BY <2>0, <2>3, <3>1 DEF Dial, Wake, TimeOut, Becomes, HookStates, Done, HookState
    <3>3. QED
      BY <2>0, <2>1, <3>1, <3>2
  <2>4. ASSUME NEW w \in VMs, AnswerPing(w) \/ AnswerUpdate(w)
        PROVE  \/ /\ Answered(v)
                  /\ Updates(v) => v \in ok' /\ (v \in alive => v \in served')
               \/ hook[v].try = SocketRetry /\ v \notin ok'
    <3>1. v = w /\ hook[v].at = "wait" /\ service' = "serving"
      BY <2>0, <2>4 DEF AnswerPing, AnswerUpdate, Becomes, CInv, WaitsForServing, serviceVars
    <3>2. CASE AnswerPing(v)
      BY <2>0, <2>1, <3>1, <3>2 DEF AnswerPing, Accepted, Becomes, Answered
    <3>3. CASE AnswerUpdate(v)
      BY <2>0, <2>1, <3>1, <3>3 DEF AnswerUpdate, Accepted, Becomes, Answered
    <3>4. QED
      BY <2>4, <3>1, <3>2, <3>3
  <2>5. CASE Ready \/ RankingFails \/ StartService
    BY <2>5 DEF Ready, RankingFails, StartService
  <2>6. CASE Crash \/ Shutdown
    <3>1. /\ hook'[v] = IF hook[v].at = "wait" THEN Failed(hook[v]) ELSE hook[v]
          /\ ok' = ok
      BY <2>6, EndedHook DEF Crash, Shutdown, Ends, CInv
    <3>2. QED
      BY <2>0, <2>1, <3>1
  <2>7. CASE Tick
    <3>1. hook'[v].at = hook[v].at
      BY <2>0, <2>7 DEF Tick, HookStates
    <3>2. hook[v].at = "done"
      BY <3>1 DEF Done, HookState
    <3>3. QED
      BY <3>2 DEF CInv, OneDone
  <2>8. QED
    BY <2>2, <2>3, <2>4, <2>5, <2>6, <2>7 DEF Next, Hook
<1>2. QED
    BY <1>1, CInvariance, PTL DEF Spec, NoEarlyEnd

\* A VM that a step finds starting, and undisturbed until then, is disturbed
\* if the service ends.
LEMMA InTimeEnds ==
    ASSUME TypeOK, OneDone, NEW v \in VMs, Ends
    PROVE  ~Undisturbed(v)'
<1>1. /\ hook'[v] = IF hook[v].at = "wait" THEN Failed(hook[v]) ELSE hook[v]
      /\ stage'[v] = stage[v] /\ disturbed' = disturbed \cup Starting
    BY EndedHook DEF Ends
<1>2. hook'[v] # Done => hook[v] # Done
    BY <1>1 DEF Done, HookState
<1>3. v \in Starting' => v \in Starting
    BY <1>1, <1>2 DEF Starting
<1>4. QED
    BY <1>1, <1>3 DEF Undisturbed

LEMMA InTimeStart ==
    ASSUME TypeOK, PingOnPreStart, NEW v \in VMs, PreStart(v)
    PROVE  InTimeOf(v)'
<1>1. /\ hook'[v] = Call /\ stage'[v] = "pre-start"
      /\ service' = service /\ left' = left
      /\ service = "off" => v \in disturbed'
    BY DEF PreStart, Becomes, TypeOK, serviceVars
<1>2. hook'[v].at = "dial" /\ hook'[v].try = 0
    BY <1>1 DEF Call, HookState
<1>3. Elapsed(v)' = 0
    BY <1>1, <1>2, SleptNone DEF Elapsed
<1>4. left' + 0 <= MaxRanking
    BY <1>1 DEF TypeOK
<1>5. QED
    BY <1>1, <1>3, <1>4 DEF InTimeOf, Undisturbed

LEMMA InTimePostStart ==
    ASSUME TypeOK, NEW v \in VMs, InTimeOf(v), PostStart(v)
    PROVE  InTimeOf(v)'
<1>1. /\ hook[v] = Done /\ stage[v] = "pre-start"
      /\ hook'[v] = Call /\ stage'[v] = "post-start"
      /\ service' = service /\ left' = left /\ disturbed' = disturbed
    BY DEF PostStart, Becomes, TypeOK, serviceVars
<1>2. hook[v].at = "done" /\ hook'[v].at = "dial" /\ hook'[v].try = 0
    BY <1>1 DEF Call, Done, HookState
<1>3. Elapsed(v) = 0 + Slept(SocketRetry)
    BY <1>1, <1>2 DEF Elapsed
<1>4. Elapsed(v)' = Slept(SocketRetry) + 0
    BY <1>1, <1>2, SleptNone DEF Elapsed
<1>5. Elapsed(v)' = Elapsed(v)
    BY <1>3, <1>4, SleptNat
<1>6. Undisturbed(v)' => Undisturbed(v)
    BY <1>1 DEF Undisturbed, Starting
<1>7. QED
    BY <1>1, <1>5, <1>6 DEF InTimeOf

LEMMA InTimeStep ==
    TypeOK /\ WaitsForServing /\ OneDone /\ InTime /\ PingOnPreStart /\ [Next]_vars => InTime'
<1> SUFFICES ASSUME TypeOK, WaitsForServing, OneDone, InTime, PingOnPreStart,
                    [Next]_vars, NEW v \in VMs
             PROVE  InTimeOf(v)'
    BY DEF InTime, InTimeOf
<1>0. InTimeOf(v)
    BY DEF InTime, InTimeOf
<1>1. ASSUME NEW w \in VMs, w # v,
             PreStart(w) \/ PostStart(w) \/ StopVM(w) \/ Dial(w) \/ Wake(w)
               \/ TimeOut(w) \/ AnswerPing(w) \/ AnswerUpdate(w)
      PROVE  InTimeOf(v)'
  <2>1. /\ UNCHANGED <<service, left, hook[v], stage[v]>>
        /\ v \in disturbed => v \in disturbed'
    BY <1>1 DEF PreStart, PostStart, StopVM, Dial, Wake, TimeOut, AnswerPing,
                AnswerUpdate, Becomes, serviceVars, TypeOK
  <2>2. QED
    BY <2>1, <1>0, InTimeFrame
<1>2. ASSUME NEW w \in VMs, GuestDies(w) \/ ServeAbandoned(w) PROVE InTimeOf(v)'
  <2>1. /\ UNCHANGED <<service, left, hook[v], stage[v]>>
        /\ v \in disturbed => v \in disturbed'
    BY <1>2 DEF GuestDies, ServeAbandoned, serviceVars
  <2>2. QED
    BY <2>1, <1>0, InTimeFrame
<1>3. CASE PreStart(v)
    BY <1>3, InTimeStart
<1>4. CASE PostStart(v)
    BY <1>4, <1>0, InTimePostStart
<1>5. CASE StopVM(v)
    BY <1>5 DEF StopVM, TypeOK, InTimeOf, Undisturbed, Starting
<1>6. CASE Dial(v)
    BY <1>6, <1>0, InTimeDial
<1>7. CASE Wake(v)
    BY <1>7, <1>0, InTimeWake
<1>8. CASE TimeOut(v) \/ AnswerPing(v) \/ AnswerUpdate(v)
    BY <1>8 DEF TimeOut, AnswerPing, AnswerUpdate, serviceVars, WaitsForServing, InTimeOf
<1>9. CASE Ready
    BY <1>9 DEF Ready, InTimeOf
<1>10. CASE RankingFails
    BY <1>10 DEF RankingFails, InTimeOf, Undisturbed, Starting
<1>11. CASE Crash \/ Shutdown
    BY <1>11, InTimeEnds DEF Crash, Shutdown, InTimeOf
<1>12. CASE StartService
    BY <1>12, <1>0 DEF StartService, InTimeOf, Undisturbed, Starting
<1>13. CASE Tick
    BY <1>13, <1>0, InTimeTick
<1>14. CASE UNCHANGED vars
  <2>1. /\ UNCHANGED <<service, left, hook[v], stage[v]>>
        /\ v \in disturbed => v \in disturbed'
    BY <1>14 DEF vars
  <2>2. QED
    BY <2>1, <1>0, InTimeFrame
<1>15. QED
    BY <1>1, <1>2, <1>3, <1>4, <1>5, <1>6, <1>7, <1>8, <1>9, <1>10, <1>11, <1>12,
       <1>13, <1>14 DEF Next, Hook

\* The attempts of the two phases outlast the first calculation.
AttemptsOutlastRanking ==
    PingOnPreStart /\ MaxRanking < Slept(SocketRetry) + Slept(SocketRetry)

\* The only way to end without having been served, and undisturbed, would be
\* to run out of attempts while the CPUs are ranked.
LEMMA ServedDial ==
    ASSUME TypeOK, InTime, AttemptsOutlastRanking, NEW v \in VMs, Dial(v),
           stage[v] = "post-start", hook'[v] = Done
    PROVE  v \in disturbed
<1> SUFFICES ASSUME v \notin disturbed PROVE FALSE
    OBVIOUS
<1>1. hook[v].at = "dial" /\ hook[v] \in HookStates
    BY DEF Dial, TypeOK
<1>2. service # "serving" /\ Failed(hook[v]) = Done
    BY DEF Dial, Becomes, TypeOK, Done, HookState
<1>3. hook[v].try = SocketRetry
    BY <1>1, <1>2 DEF Failed, Done, HookState, HookStates
<1>4. Undisturbed(v)
    BY <1>1 DEF Undisturbed, Starting, Done, HookState
<1>5. service = "ranking" /\ left + Elapsed(v) <= MaxRanking
    BY <1>2, <1>4 DEF InTime, TypeOK
<1>6. Elapsed(v) = Slept(SocketRetry) + Slept(SocketRetry)
    BY <1>1, <1>3 DEF Elapsed
<1>7. Slept(SocketRetry) \in Nat /\ left \in Nat
    BY SleptNat DEF TypeOK
<1>8. QED
    BY <1>5, <1>6, <1>7 DEF AttemptsOutlastRanking

LEMMA ServedStep ==
    CInv /\ InTime /\ AttemptsOutlastRanking /\ ServedAfterStart /\ [Next]_vars
        => ServedAfterStart'
<1> SUFFICES ASSUME TypeOK, OneDone, DeadDisturbed, InTime, AttemptsOutlastRanking,
                    ServedAfterStart, [Next]_vars, NEW v \in VMs, stage'[v] = "post-start", hook'[v] = Done
             PROVE  v \in served' \cup disturbed'
    BY DEF ServedAfterStart, CInv
<1>1. ASSUME stage[v] = "post-start", hook[v] = Done PROVE v \in served \cup disturbed
    BY <1>1 DEF ServedAfterStart
<1>2. ASSUME NEW w \in VMs, PreStart(w) \/ PostStart(w) \/ Wake(w)
      PROVE  v \in served' \cup disturbed'
  <2>1. w # v
    BY <1>2 DEF PreStart, PostStart, Wake, Becomes, TypeOK, HookStates, Call, Done, HookState
  <2>2. QED
    BY <1>1, <1>2, <2>1 DEF PreStart, PostStart, Wake, Becomes, TypeOK
<1>3. ASSUME NEW w \in VMs, StopVM(w) PROVE v \in served' \cup disturbed'
    BY <1>1, <1>3 DEF StopVM, TypeOK
<1>4. ASSUME NEW w \in VMs, GuestDies(w) \/ ServeAbandoned(w)
      PROVE  v \in served' \cup disturbed'
    BY <1>1, <1>4 DEF GuestDies, ServeAbandoned
<1>5. ASSUME NEW w \in VMs, Dial(w) PROVE v \in served' \cup disturbed'
  <2>1. UNCHANGED <<stage, served, disturbed>>
    BY <1>5 DEF Dial
  <2>2. CASE w = v
    BY <1>5, <2>1, <2>2, ServedDial
  <2>3. CASE w # v
    BY <1>1, <1>5, <2>1, <2>3 DEF Dial, Becomes, TypeOK
  <2>4. QED
    BY <2>2, <2>3
<1>6. ASSUME NEW w \in VMs, TimeOut(w) PROVE v \in served' \cup disturbed'
    BY <1>1, <1>6 DEF TimeOut, Becomes, TypeOK, Updates
<1>7. ASSUME NEW w \in VMs, AnswerPing(w) PROVE v \in served' \cup disturbed'
    BY <1>1, <1>7 DEF AnswerPing, Becomes, TypeOK, Updates
<1>8. ASSUME NEW w \in VMs, AnswerUpdate(w) PROVE v \in served' \cup disturbed'
  <2>1. CASE w = v
    <3>1. stage[v] = "post-start" /\ hook[v] # Done
      <4>1. stage[v] = "post-start" /\ hook[v].at = "wait"
        BY <1>8, <2>1 DEF AnswerUpdate, Updates
      <4>2. QED
        BY <4>1 DEF Done, HookState
    <3>2. v \in alive \cup disturbed
      BY <3>1 DEF DeadDisturbed
    <3>3. QED
      BY <1>8, <2>1, <3>2 DEF AnswerUpdate
  <2>2. CASE w # v
    BY <1>1, <1>8, <2>2 DEF AnswerUpdate, Becomes, TypeOK
  <2>3. QED
    BY <2>1, <2>2
<1>9. CASE Ready \/ RankingFails \/ StartService
    BY <1>1, <1>9 DEF Ready, RankingFails, StartService
<1>10. CASE Crash \/ Shutdown
  <2>1. /\ hook'[v] = IF hook[v].at = "wait" THEN Failed(hook[v]) ELSE hook[v]
        /\ stage'[v] = stage[v] /\ disturbed' = disturbed \cup Starting
        /\ served' = served
    BY <1>10, EndedHook DEF Crash, Shutdown, Ends
  <2>2. QED
    BY <1>1, <2>1 DEF Starting
<1>11. CASE Tick
  <2>1. /\ hook'[v] = [hook[v] EXCEPT !.left = Minus1(@), !.due = Minus1(@)]
        /\ hook[v] \in HookStates
        /\ UNCHANGED <<stage, served, disturbed>>
    BY <1>11 DEF Tick, TypeOK
  <2>2. hook[v].at = "done"
    <3>1. hook'[v].at = hook[v].at
      BY <2>1 DEF HookStates
    <3>2. hook'[v].at = "done"
      BY DEF Done, HookState
    <3>3. QED
      BY <3>1, <3>2
  <2>3. QED
    BY <1>1, <2>1, <2>2 DEF OneDone
<1>12. CASE UNCHANGED vars
    BY <1>1, <1>12 DEF vars
<1>13. QED
    BY <1>2, <1>3, <1>4, <1>5, <1>6, <1>7, <1>8, <1>9, <1>10, <1>11, <1>12 DEF Next, Hook

LEMMA Invariance ==
    ASSUME AttemptsOutlastRanking
    PROVE  Spec => []IInv
<1>1. Init => IInv
    BY ConstantHooks DEF Init, IInv, CInv, TypeOK, WaitsForServing, OneDone, OffIsDone,
                         DeadDisturbed, ToldWhenDone, InTime, Undisturbed, Starting, ServedAfterStart,
                         Done, HookState
<1>2. CInv /\ CInv' /\ IInv /\ [Next]_vars => IInv'
    BY InTimeStep, ServedStep DEF IInv, CInv, AttemptsOutlastRanking
<1>3. QED
    BY <1>1, <1>2, CInvariance, PTL DEF Spec

\* For every configuration with the ping whose sleeps in the two phases
\* together exceed the longest calculation, a VM that starts at boot while
\* the service ranks the CPUs, and is not disturbed, has been served by the
\* end of its post-start hook.
THEOREM ServedAtBoot ==
    ASSUME AttemptsOutlastRanking
    PROVE  Spec => []ServedAfterStart
<1>1. IInv => ServedAfterStart
    BY DEF IInv
<1>2. QED
    BY <1>1, Invariance, PTL

-----------------------------------------------------------------------------
(* How long the hook can hold up the start of a VM: the ticks that it can  *)
(* still sleep and wait, if every attempt from now on takes as long as it  *)
(* can.  They run down with the clock, and nothing adds to them.           *)

\* The ticks of n more retries.
Retries(n) == n * (SocketSleep + SocketTimeout)

Remaining(r) ==
    CASE r.at = "done"  -> 0
      [] r.at = "dial"  -> Retries(SocketRetry - r.try) + SocketTimeout
      [] r.at = "wait"  -> r.left + Retries(SocketRetry - r.try)
      [] r.at = "sleep" -> r.left + (Retries(SocketRetry - r.try) + SocketTimeout)

Longest == Retries(SocketRetry) + SocketTimeout

DelayBounded == \A v \in VMs : Remaining(hook[v]) \in 0 .. Longest

\* The steps that callService can still take by itself.
Moves(r) ==
    CASE r.at = "done"  -> 0
      [] r.at = "dial"  -> 3 * (SocketRetry - r.try) + 2
      [] r.at = "wait"  -> 3 * (SocketRetry - r.try) + 1
      [] r.at = "sleep" -> 3 * (SocketRetry - r.try) + 3

Shorter(s, r) == Remaining(s) <= Remaining(r) /\ Moves(s) < Moves(r)

\* What a step makes of the hook of a VM that has not ended: a tick takes one
\* from what remains, and any other step leaves it alone or brings it on.
RunsDown(v) ==
    IF Tick THEN Remaining(hook'[v]) = Remaining(hook[v]) - 1
            ELSE hook'[v] = hook[v] \/ Shorter(hook'[v], hook[v])

LEMMA RetriesNat == \A n \in Nat : Retries(n) \in Nat
<1> SUFFICES ASSUME NEW n \in Nat PROVE Retries(n) \in Nat
    OBVIOUS
<1>1. SocketSleep + SocketTimeout \in Nat
    OBVIOUS
<1>2. \A a, b \in Nat : a * b \in Nat
    OBVIOUS
<1>3. QED
    BY <1>1, <1>2 DEF Retries

LEMMA RetriesNext ==
    \A n \in Nat : Retries(n + 1) = (Retries(n) + SocketSleep) + SocketTimeout
<1> SUFFICES ASSUME NEW n \in Nat
             PROVE  Retries(n + 1) = (Retries(n) + SocketSleep) + SocketTimeout
    OBVIOUS
<1>1. PICK a \in Nat : a = SocketSleep + SocketTimeout
    OBVIOUS
<1>2. (n + 1) * a = n * a + a
    BY <1>1
<1>3. n * a \in Nat
    BY <1>1
<1>4. QED
    BY <1>1, <1>2, <1>3 DEF Retries

\* What remains is a number of ticks.
LEMMA RemainingNat == \A r \in HookStates : Remaining(r) \in Nat
<1> SUFFICES ASSUME NEW r \in HookStates PROVE Remaining(r) \in Nat
    OBVIOUS
<1>1. /\ r.at \in {"done", "dial", "wait", "sleep"} /\ r.left \in Nat
      /\ SocketRetry - r.try \in Nat
    BY DEF HookStates
<1>2. QED
    BY <1>1, RetriesNat DEF Remaining

LEMMA RemainingBounds == Remaining(Done) = 0 /\ Remaining(Call) = Longest /\ Longest \in Nat
BY RetriesNat DEF Remaining, Done, Call, HookState, Longest

\* A failed attempt leaves at most the retries that were left.
LEMMA RemainingFailed ==
    \A r \in HookStates :
        r.at \in {"dial", "wait"} => Shorter(Failed(r), r)
<1> SUFFICES ASSUME NEW r \in HookStates, r.at \in {"dial", "wait"}
             PROVE  Shorter(Failed(r), r)
    OBVIOUS
<1>1. r.left \in Nat /\ r.try \in 0 .. SocketRetry
    BY DEF HookStates
<1>2. Retries(SocketRetry - r.try) \in Nat
    BY <1>1, RetriesNat
<1>3. Retries(SocketRetry - r.try) <= Remaining(r)
    BY <1>1, <1>2 DEF Remaining
<1>4. Remaining(Failed(r)) <= Retries(SocketRetry - r.try)
  <2>1. CASE r.try < SocketRetry
    <3>1. PICK n \in Nat : SocketRetry - (r.try + 1) = n /\ SocketRetry - r.try = n + 1
        BY <1>1, <2>1
    <3>2. Remaining(Failed(r)) = SocketSleep + (Retries(n) + SocketTimeout)
        BY <2>1, <3>1 DEF Failed, HookState, Remaining
    <3>3. QED
        BY <3>1, <3>2, RetriesNat, RetriesNext
  <2>2. CASE ~(r.try < SocketRetry)
    BY <1>2, <2>2, RemainingBounds DEF Failed
  <2>3. QED
    BY <2>1, <2>2
<1>5. Remaining(Failed(r)) \in Nat /\ Remaining(r) \in Nat
    BY RemainingNat, FailedHook
<1>6. Remaining(Failed(r)) <= Remaining(r)
    BY <1>2, <1>3, <1>4, <1>5
<1>7. Moves(Failed(r)) < Moves(r)
  <2>1. CASE r.try < SocketRetry
    <3>1. Moves(Failed(r)) = 3 * (SocketRetry - (r.try + 1)) + 3
        BY <2>1 DEF Failed, HookState, Moves
    <3>2. Moves(r) \in {3 * (SocketRetry - r.try) + 1, 3 * (SocketRetry - r.try) + 2}
        BY DEF Moves
    <3>3. QED
        BY <1>1, <3>1, <3>2
  <2>2. CASE ~(r.try < SocketRetry)
    <3>1. Moves(Failed(r)) = 0
        BY <2>2 DEF Failed, Done, HookState, Moves
    <3>2. Moves(r) \in {3 * (SocketRetry - r.try) + 1, 3 * (SocketRetry - r.try) + 2}
        BY DEF Moves
    <3>3. QED
        BY <1>1, <3>1, <3>2
  <2>3. QED
    BY <2>1, <2>2
<1>8. QED
    BY <1>6, <1>7 DEF Shorter

\* A tick takes one from what remains.
LEMMA RemainingTick ==
    ASSUME TypeOK, OneDone, Tick, NEW v \in VMs, hook[v] # Done
    PROVE  RunsDown(v)
<1>1. /\ hook[v] \in HookStates /\ hook[v].at \in {"wait", "sleep"}
      /\ hook[v].left \in Nat /\ hook[v].left # 0
  <2>1. hook[v] \in HookStates
    BY DEF TypeOK
  <2>2. hook[v].at \in {"dial", "wait", "sleep"} /\ hook[v].left \in Nat
    BY <2>1 DEF OneDone, HookStates
  <2>3. ~Due(v)
    BY DEF Tick
  <2>4. QED
    BY <2>1, <2>2, <2>3 DEF Due
<1>2. /\ hook'[v].at = hook[v].at /\ hook'[v].try = hook[v].try
      /\ hook'[v].left = hook[v].left - 1
  <2>1. hook'[v] = [hook[v] EXCEPT !.left = Minus1(@), !.due = Minus1(@)]
    BY DEF Tick
  <2>2. QED
    BY <1>1, <2>1 DEF HookStates, Minus1
<1>3. Retries(SocketRetry - hook[v].try) \in Nat
    BY <1>1, RetriesNat DEF HookStates
<1>4. Remaining(hook'[v]) = Remaining(hook[v]) - 1
    BY <1>1, <1>2, <1>3 DEF Remaining
<1>5. QED
    BY <1>4 DEF RunsDown

\* The steps of the hook itself and of the service that it calls.
LEMMA RemainingDial ==
    ASSUME TypeOK, NEW v \in VMs, Dial(v)
    PROVE  Shorter(hook'[v], hook[v])
<1>1. hook[v] \in HookStates /\ hook[v].at = "dial" /\ hook \in [VMs -> HookStates]
    BY DEF TypeOK, Dial
<1>2. CASE service = "serving"
  <2>1. hook'[v] = HookState("wait", hook[v].try, SocketTimeout, Deadline)
    BY <1>1, <1>2 DEF Dial, Becomes
  <2>2. Retries(SocketRetry - hook[v].try) \in Nat
    BY <1>1, RetriesNat DEF HookStates
  <2>3. Remaining(hook'[v]) = SocketTimeout + Retries(SocketRetry - hook[v].try)
    BY <2>1 DEF HookState, Remaining
  <2>4. Remaining(hook[v]) = Retries(SocketRetry - hook[v].try) + SocketTimeout
    BY <1>1 DEF Remaining
  <2>5. Moves(hook'[v]) = 3 * (SocketRetry - hook[v].try) + 1
    BY <2>1 DEF HookState, Moves
  <2>6. Moves(hook[v]) = 3 * (SocketRetry - hook[v].try) + 2
    BY <1>1 DEF Moves
  <2>7. QED
    BY <1>1, <2>2, <2>3, <2>4, <2>5, <2>6 DEF Shorter, HookStates
<1>3. CASE service # "serving"
  <2>1. hook'[v] = Failed(hook[v])
    BY <1>1, <1>3 DEF Dial, Becomes
  <2>2. QED
    BY <1>1, <2>1, RemainingFailed
<1>4. QED
    BY <1>2, <1>3

LEMMA RemainingWake ==
    ASSUME TypeOK, NEW v \in VMs, Wake(v)
    PROVE  Shorter(hook'[v], hook[v])
<1>1. /\ hook[v] \in HookStates /\ hook[v].at = "sleep" /\ hook[v].left = 0
      /\ hook'[v].at = "dial" /\ hook'[v].try = hook[v].try
    BY DEF TypeOK, Wake, Becomes, HookStates
<1>2. Retries(SocketRetry - hook[v].try) \in Nat
    BY <1>1, RetriesNat DEF HookStates
<1>3. Remaining(hook'[v]) <= Remaining(hook[v])
    BY <1>1, <1>2 DEF Remaining
<1>4. Moves(hook'[v]) < Moves(hook[v])
    BY <1>1 DEF Moves, HookStates
<1>5. QED
    BY <1>3, <1>4 DEF Shorter

LEMMA RemainingAnswered ==
    ASSUME TypeOK, NEW v \in VMs, hook[v].at = "wait", hook'[v] \in {Done, Failed(hook[v])}
    PROVE  Shorter(hook'[v], hook[v])
<1>1. hook[v] \in HookStates
    BY DEF TypeOK
<1>2. Remaining(Done) <= Remaining(hook[v])
    BY <1>1, RemainingNat, RemainingBounds
<1>3. Moves(Done) < Moves(hook[v])
  <2>1. Moves(Done) = 0
    BY DEF Done, HookState, Moves
  <2>2. Moves(hook[v]) = 3 * (SocketRetry - hook[v].try) + 1
    BY DEF Moves
  <2>3. QED
    BY <1>1, <2>1, <2>2 DEF HookStates
<1>4. QED
    BY <1>1, <1>2, <1>3, RemainingFailed DEF Shorter

\* No step that is not a tick does more to a hook that has not ended than bring it on.
LEMMA RemainingStep ==
    ASSUME TypeOK, OffIsDone, [Next]_vars, ~Tick, NEW v \in VMs, hook[v] # Done
    PROVE  hook'[v] = hook[v] \/ Shorter(hook'[v], hook[v])
<1> DEFINE Goal == hook'[v] = hook[v] \/ Shorter(hook'[v], hook[v])
<1>0. hook \in [VMs -> HookStates]
    BY DEF TypeOK
<1>1. ASSUME NEW w \in VMs, PreStart(w) \/ PostStart(w) PROVE hook'[v] = hook[v]
    BY <1>0, <1>1 DEF PreStart, PostStart, Becomes, OffIsDone
<1>2. ASSUME NEW w \in VMs, Dial(w) \/ Wake(w) PROVE Goal
  <2>1. CASE w # v
    BY <1>0, <1>2, <2>1 DEF Dial, Wake, Becomes
  <2>2. CASE w = v
    BY <1>2, <2>2, RemainingDial, RemainingWake
  <2>3. QED
    BY <2>1, <2>2
<1>3. ASSUME NEW w \in VMs, TimeOut(w) \/ AnswerPing(w) \/ AnswerUpdate(w)
      PROVE  Goal
  <2>1. CASE w # v
    BY <1>0, <1>3, <2>1 DEF TimeOut, AnswerPing, AnswerUpdate, Becomes
  <2>2. CASE w = v
    <3>1. hook[v].at = "wait" /\ hook'[v] \in {Done, Failed(hook[v])}
      BY <1>0, <1>3, <2>2 DEF TimeOut, AnswerPing, AnswerUpdate, Becomes
    <3>2. QED
      BY <3>1, RemainingAnswered
  <2>3. QED
    BY <2>1, <2>2
<1>4. ASSUME NEW w \in VMs, StopVM(w) \/ GuestDies(w) \/ ServeAbandoned(w)
      PROVE  hook'[v] = hook[v]
    BY <1>4 DEF StopVM, GuestDies, ServeAbandoned
<1>5. CASE Ready \/ RankingFails \/ StartService \/ UNCHANGED vars
    BY <1>5 DEF Ready, RankingFails, StartService, vars
<1>6. CASE Crash \/ Shutdown
    BY <1>6, EndedHook, RemainingAnswered DEF Crash, Shutdown
<1>7. QED
    BY <1>1, <1>2, <1>3, <1>4, <1>5, <1>6 DEF Next, Hook

\* What is known of every hook, whatever the attempts and the calculation last.
HookInv == CInv /\ DelayBounded

LEMMA DelayStep ==
    ASSUME HookInv, [Next]_vars, NEW v \in VMs
    PROVE  Remaining(hook[v])' \in 0 .. Longest /\ (hook[v] # Done => RunsDown(v))
<1>1. /\ hook[v] \in HookStates /\ hook'[v] \in HookStates
      /\ Remaining(hook[v]) \in 0 .. Longest /\ Longest \in Nat
      /\ Remaining(hook'[v]) \in Nat
  <2>1. TypeOK'
    BY TypeStep DEF HookInv, CInv
  <2>2. hook'[v] \in HookStates
    BY <2>1 DEF TypeOK
  <2>3. QED
    BY <2>2, RemainingNat, RemainingBounds DEF HookInv, CInv, TypeOK, DelayBounded
<1>2. CASE hook[v] # Done
  <2>1. RunsDown(v)
    <3>1. CASE Tick
      BY <1>2, <3>1, RemainingTick DEF HookInv, CInv
    <3>2. CASE ~Tick
      BY <1>2, <3>2, RemainingStep DEF HookInv, CInv, RunsDown
    <3>3. QED
      BY <3>1, <3>2
  <2>2. QED
    BY <1>1, <2>1 DEF RunsDown, Shorter
<1>3. CASE hook[v] = Done
  <2>1. hook'[v] \in {Done, Call}
    <3>0. hook \in [VMs -> HookStates] /\ Done.at = "done"
      BY DEF HookInv, CInv, TypeOK, Done, HookState
    <3>1. ASSUME NEW w \in VMs, PreStart(w) \/ PostStart(w) PROVE hook'[v] \in {Done, Call}
      BY <1>3, <3>0, <3>1 DEF PreStart, PostStart, Becomes
    <3>2. ASSUME NEW w \in VMs, StopVM(w) \/ GuestDies(w) \/ ServeAbandoned(w)
          PROVE  hook'[v] = Done
      BY <1>3, <3>2 DEF StopVM, GuestDies, ServeAbandoned
    <3>3. ASSUME NEW w \in VMs, Dial(w) \/ Wake(w) PROVE hook'[v] = Done
      BY <1>3, <3>0, <3>3 DEF Dial, Wake, Becomes
    <3>4. ASSUME NEW w \in VMs, TimeOut(w) \/ AnswerPing(w) \/ AnswerUpdate(w)
          PROVE  hook'[v] = Done
      BY <1>3, <3>0, <3>4 DEF TimeOut, AnswerPing, AnswerUpdate, Becomes
    <3>5. CASE Ready \/ RankingFails \/ StartService \/ UNCHANGED vars
      BY <1>3, <3>5 DEF Ready, RankingFails, StartService, vars
    <3>6. CASE Crash \/ Shutdown
      BY <1>3, <3>0, <3>6, EndedHook DEF Crash, Shutdown, HookInv, CInv
    <3>7. CASE Tick
      BY <1>3, <3>7, TickedDone DEF Tick
    <3>8. QED
      BY <3>1, <3>2, <3>3, <3>4, <3>5, <3>6, <3>7 DEF Next, Hook
  <2>2. QED
    BY <1>3, <2>1, RemainingBounds
<1>4. QED
    BY <1>2, <1>3

LEMMA HookInvariance == Spec => []HookInv
<1>1. Init => DelayBounded
  <2>1. Init => \A v \in VMs : hook[v] = Done
    BY DEF Init
  <2>2. Remaining(Done) \in 0 .. Longest
    BY RemainingBounds
  <2>3. QED
    BY <2>1, <2>2 DEF DelayBounded
<1>2. HookInv /\ [Next]_vars => DelayBounded'
    BY DelayStep DEF DelayBounded
<1>3. QED
    BY <1>1, <1>2, CInvariance, PTL DEF Spec, HookInv

\* The hook delays the start of a VM by a bounded time: callService begins with
\* Longest ticks at most (SocketRetry sleeps and one attempt more than that),
\* every tick takes one of them, and nothing that the service or other VMs do
\* gives one back before the call has ended; between two ticks it takes a number
\* of steps that is bounded too.
THEOREM HooksRunDown ==
    Spec => []DelayBounded /\ [][\A v \in VMs : hook[v] # Done => RunsDown(v)]_vars
<1>1. HookInv => DelayBounded
    BY DEF HookInv
<1>2. HookInv /\ [Next]_vars => [\A v \in VMs : hook[v] # Done => RunsDown(v)]_vars
    BY DelayStep
<1>3. QED
    BY <1>1, <1>2, HookInvariance, PTL DEF Spec

=============================================================================
