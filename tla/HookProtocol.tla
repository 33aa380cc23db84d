---------------------------- MODULE HookProtocol ----------------------------
(***************************************************************************)
(* The start of a VM: Proxmox runs the hook (cmd/hook, pkg/hook/hook.go)   *)
(* before and after the guest starts, and the hook calls the service       *)
(* (pkg/service/service.go, cmd/service/main.go), which may be ranking the *)
(* CPUs, serving, restarting, stopped or slow.                             *)
(*                                                                         *)
(* Time is discrete: a Tick is ConstantSocketTimeout (5 seconds), and      *)
(* nothing that is due waits for the next one.  What UpdateAffinity does   *)
(* is the subject of Pinning; here it fails or has served the VM.          *)
(***************************************************************************)
EXTENDS Naturals

CONSTANTS
    VMs,              \* the VM ids
    SocketRetry,      \* Config.SocketRetry
    SocketSleep,      \* Config.SocketSleep, in ticks
    SocketTimeout,    \* Config.SocketTimeout, in ticks
    Deadline,         \* ConstantSocketTimeout, in ticks
    MaxRanking,       \* ConstantMaxCalculationRankingDuration, in ticks
    PingOnPreStart,   \* Config.SocketPingOnPreStart
    Faults            \* what may happen, a subset of AllFaults

\* "crash": the service ends at any time and systemd starts it again;
\* "overrun": the first calculation fails, and so does the service;
\* "stop": the service is stopped and started by the administrator;
\* "slow": the service takes any time to answer;
\* "error": UpdateAffinity fails, say because of pvesh;
\* "die": the guest ends by itself.
AllFaults == {"crash", "overrun", "stop", "slow", "error", "die"}

ASSUME HookAssumption ==
    /\ SocketRetry \in Nat /\ SocketSleep \in Nat
    /\ SocketTimeout \in Nat \ {0} /\ Deadline \in Nat \ {0}
    /\ MaxRanking \in Nat
    /\ PingOnPreStart \in BOOLEAN
    /\ Faults \subseteq AllFaults

VARIABLES
    service,     \* "off", "ranking" (no socket yet) or "serving"
    left,        \* ticks left of the first calculation
    stage,       \* per VM: "off", "pre-start", or "post-start" and later
    alive,       \* VMs whose guest process runs
    hook,        \* per VM: the hook process, see HookStates
    abandoned,   \* VMs with an update-affinity request without a client
    served,      \* VMs that UpdateAffinity has dealt with since they started
    ok,          \* VMs whose post-start hook was told so
    disturbed    \* history: VMs during whose start something went wrong

serviceVars == <<service, left>>
vars == <<service, left, stage, alive, hook, abandoned, served, ok, disturbed>>

\* callService: its attempt number, ticks left to sleep or to wait for the
\* answer, and ticks left until the deadline of the service.
HookState(at, try, wait, due) == [at |-> at, try |-> try, left |-> wait, due |-> due]
Done == HookState("done", 0, 0, 0)
Call == HookState("dial", 0, 0, 0)
HookStates == [at : {"done", "dial", "wait", "sleep"}, try : 0 .. SocketRetry,
               left : 0 .. SocketSleep + SocketTimeout, due : 0 .. Deadline]

FailedOneMore(r) ==
    IF r.try <= SocketRetry THEN HookState("sleep", r.try + 1, SocketSleep, 0)
                            ELSE Done

FailedForever(r) == HookState("sleep", r.try, SocketSleep, 0)

\* An attempt failed: sleep and try again, or give up.
Failed(r) ==
    IF r.try < SocketRetry THEN HookState("sleep", r.try + 1, SocketSleep, 0)
                           ELSE Done

Becomes(v, r) == hook' = [hook EXCEPT ![v] = r]

\* The VMs between the start of the first hook and the end of the second.
Starting == { v \in VMs : stage[v] = "pre-start"
                           \/ (stage[v] = "post-start" /\ hook[v] # Done) }

Init ==
    /\ service = "ranking"
    /\ left = MaxRanking
    /\ stage = [v \in VMs |-> "off"]
    /\ alive = {}
    /\ hook = [v \in VMs |-> Done]
    /\ abandoned = {}
    /\ served = {}
    /\ ok = {}
    /\ disturbed = {}

-----------------------------------------------------------------------------
(* Proxmox and the guests                                                  *)

\* The hook runs with phase pre-start, and may ping the service.
PreStart(v) ==
    /\ stage[v] = "off"
    /\ stage' = [stage EXCEPT ![v] = "pre-start"]
    /\ Becomes(v, IF PingOnPreStart THEN Call ELSE Done)
    /\ disturbed' = IF service = "off" THEN disturbed \cup {v} ELSE disturbed
    /\ UNCHANGED <<serviceVars, alive, abandoned, served, ok>>

\* That hook has ended (always without an error): the guest starts, and the
\* hook runs with phase post-start.
PostStart(v) ==
    /\ stage[v] = "pre-start" /\ hook[v] = Done
    /\ stage' = [stage EXCEPT ![v] = "post-start"]
    /\ alive' = alive \cup {v}
    /\ Becomes(v, Call)
    /\ UNCHANGED <<serviceVars, abandoned, served, ok, disturbed>>

\* The VM did not start after all, or is stopped; the hook does nothing in
\* pre-stop and post-stop.
StopVM(v) ==
    /\ stage[v] # "off" /\ hook[v] = Done
    /\ stage' = [stage EXCEPT ![v] = "off"]
    /\ alive' = alive \ {v}
    /\ served' = served \ {v}
    /\ ok' = ok \ {v}
    /\ disturbed' = disturbed \ {v}
    /\ UNCHANGED <<serviceVars, hook, abandoned>>

GuestDies(v) ==
    /\ "die" \in Faults
    /\ v \in alive
    /\ alive' = alive \ {v}
    /\ disturbed' = disturbed \cup ({v} \cap Starting)
    /\ UNCHANGED <<serviceVars, stage, hook, abandoned, served, ok>>

-----------------------------------------------------------------------------
(* The hook: callService                                                   *)

Updates(v) == stage[v] = "post-start"

DialOnce(v) ==
    /\ hook[v].at = "dial"
    /\ Becomes(v, IF service = "serving"
                    THEN HookState("wait", hook[v].try, SocketTimeout, Deadline)
                    ELSE Done)
    /\ UNCHANGED <<serviceVars, stage, alive, abandoned, served, ok, disturbed>>

\* DialTimeout: the request is accepted, or there is nothing to connect to.
Dial(v) ==
    /\ hook[v].at = "dial"
    /\ Becomes(v, IF service = "serving"
                    THEN HookState("wait", hook[v].try, SocketTimeout, Deadline)
                    ELSE Failed(hook[v]))
    /\ UNCHANGED <<serviceVars, stage, alive, abandoned, served, ok, disturbed>>

Wake(v) ==
    /\ hook[v].at = "sleep" /\ hook[v].left = 0
    /\ Becomes(v, [hook[v] EXCEPT !.at = "dial"])
    /\ UNCHANGED <<serviceVars, stage, alive, abandoned, served, ok, disturbed>>

\* The deadline of the connection: no answer.  The service works on.
TimeOut(v) ==
    /\ hook[v].at = "wait" /\ hook[v].left = 0
    /\ Becomes(v, Failed(hook[v]))
    /\ IF Updates(v)
         THEN abandoned' = abandoned \cup {v} /\ disturbed' = disturbed \cup {v}
         ELSE UNCHANGED <<abandoned, disturbed>>
    /\ UNCHANGED <<serviceVars, stage, alive, served, ok>>

-----------------------------------------------------------------------------
(* The service: handleConnection                                           *)

\* The answer can be sent only before the deadline; later the hook finds the
\* connection closed.
Accepted(v, success) == success /\ hook[v].due > 0

AnswerPing(v) ==
    /\ hook[v].at = "wait" /\ ~Updates(v)
    /\ Becomes(v, IF Accepted(v, TRUE) THEN Done ELSE Failed(hook[v]))
    /\ UNCHANGED <<serviceVars, stage, alive, abandoned, served, ok, disturbed>>

\* UpdateAffinity fails for a VM that does not run, and may fail otherwise.
\* It may also find the pid file of a killed guest, whose pid is in use again,
\* and answer ok without having served anybody (see Pinning).
AnswerUpdate(v) ==
    /\ hook[v].at = "wait" /\ Updates(v)
    /\ \E success \in BOOLEAN :
          /\ ~success => v \notin alive \/ "error" \in Faults
          /\ served' = IF success THEN served \cup ({v} \cap alive) ELSE served
          /\ disturbed' = IF success THEN disturbed ELSE disturbed \cup {v}
          /\ IF Accepted(v, success)
               THEN Becomes(v, Done) /\ ok' = ok \cup {v}
               ELSE Becomes(v, Failed(hook[v])) /\ ok' = ok
    /\ UNCHANGED <<serviceVars, stage, alive, abandoned>>

\* A request whose client has gone is carried out all the same (there may
\* be several of a VM).
ServeAbandoned(v) ==
    /\ v \in abandoned
    /\ abandoned' \in {abandoned, abandoned \ {v}}
    /\ served' \in {served, served \cup ({v} \cap alive)}
    /\ UNCHANGED <<serviceVars, stage, alive, hook, ok, disturbed>>

-----------------------------------------------------------------------------
(* The service process                                                     *)

\* The first calculation is over in time, and the socket is bound.
Ready ==
    /\ service = "ranking"
    /\ service' = "serving"
    /\ left' = 0
    /\ UNCHANGED <<stage, alive, hook, abandoned, served, ok, disturbed>>

\* The first calculation fails or takes too long: main exits and systemd
\* (Restart=always) starts the service again.
RankingFails ==
    /\ "overrun" \in Faults
    /\ service = "ranking"
    /\ left' = MaxRanking
    /\ disturbed' = disturbed \cup Starting
    /\ UNCHANGED <<service, stage, alive, hook, abandoned, served, ok>>

EndsAsDone ==
    /\ hook' = [v \in VMs |-> IF hook[v].at = "wait" THEN Done ELSE hook[v]]
    /\ abandoned' = {}
    /\ disturbed' = disturbed \cup Starting
    /\ UNCHANGED <<stage, alive, served, ok>>

\* The process ends: connections are closed, nobody's request is finished.
Ends ==
    /\ hook' = [v \in VMs |-> IF hook[v].at = "wait" THEN Failed(hook[v]) ELSE hook[v]]
    /\ abandoned' = {}
    /\ disturbed' = disturbed \cup Starting
    /\ UNCHANGED <<stage, alive, served, ok>>

Crash ==
    /\ "crash" \in Faults
    /\ service # "off"
    /\ service' = "ranking" /\ left' = MaxRanking
    /\ Ends

\* SIGTERM: main cancels the context, closes the listener and returns; during
\* the first calculation nothing handles the signal and the process is killed.
Shutdown ==
    /\ "stop" \in Faults
    /\ service # "off"
    /\ service' = "off" /\ left' = 0
    /\ Ends

StartService ==
    /\ service = "off"
    /\ service' = "ranking" /\ left' = MaxRanking
    /\ UNCHANGED <<stage, alive, hook, abandoned, served, ok, disturbed>>

-----------------------------------------------------------------------------
(* Time passes when nothing is due.                                        *)

Due(v) ==
    \/ hook[v].at = "dial"
    \/ hook[v].at = "sleep" /\ hook[v].left = 0
    \/ hook[v].at = "wait" /\ (hook[v].left = 0 \/ "slow" \notin Faults)

Minus1(n) == IF n > 0 THEN n - 1 ELSE 0

Tick ==
    /\ \A v \in VMs : ~Due(v)
    /\ service = "ranking" => left > 0
    /\ left' = Minus1(left)
    /\ hook' = [v \in VMs |-> [hook[v] EXCEPT !.left = Minus1(@), !.due = Minus1(@)]]
    /\ UNCHANGED <<service, stage, alive, abandoned, served, ok, disturbed>>

-----------------------------------------------------------------------------
Hook(v) == Dial(v) \/ Wake(v) \/ TimeOut(v)

Next ==
    \/ \E v \in VMs : \/ PreStart(v) \/ PostStart(v) \/ StopVM(v) \/ GuestDies(v)
                      \/ Hook(v)
                      \/ AnswerPing(v) \/ AnswerUpdate(v) \/ ServeAbandoned(v)
    \/ Ready \/ RankingFails \/ Crash \/ Shutdown \/ StartService
    \/ Tick

\* Time always passes (strongly fair, as VMs that start and stop within a tick
\* must not stop the clock) and what is due is done.  The service need not do
\* anything but end its first calculation, one way or the other.
Fairness ==
    /\ SF_vars(Tick)
    /\ WF_vars(Ready \/ RankingFails)
    /\ \A v \in VMs : WF_vars(Hook(v)) /\ WF_vars(PostStart(v))
    /\ "slow" \notin Faults =>
          \A v \in VMs : WF_vars(AnswerPing(v) \/ AnswerUpdate(v))

Spec == Init /\ [][Next]_vars
FairSpec == Spec /\ Fairness

-----------------------------------------------------------------------------
(* Properties                                                              *)

\* Every variable has its type; callService makes SocketRetry + 1 attempts.
TypeOK ==
    /\ service \in {"off", "ranking", "serving"}
    /\ left \in 0 .. MaxRanking
    /\ stage \in [VMs -> {"off", "pre-start", "post-start"}]
    /\ alive \in SUBSET VMs
    /\ hook \in [VMs -> HookStates]
    /\ abandoned \in SUBSET VMs
    /\ served \in SUBSET VMs
    /\ ok \in SUBSET VMs
    /\ disturbed \in SUBSET VMs

\* No lost, late or cut answer ends the hook before its time: it ends only with
\* an answer that was sent within the deadline of the service, by a service
\* that goes on serving, or after the last attempt.  The answer to post-start
\* is ok, and then a guest that runs has been served since it started.
Answered(v) == hook[v].at = "wait" /\ hook[v].due > 0 /\ service' = "serving"
NoEarlyEnd ==
    [][\A v \in VMs : hook[v] # Done /\ hook'[v] = Done =>
         \/ /\ Answered(v)
            /\ Updates(v) => v \in ok' /\ (v \in alive => v \in served')
         \/ hook[v].try = SocketRetry /\ v \notin ok']_vars

\* A VM has been served by the end of its post-start hook, even when it
\* started at boot while the service was ranking the CPUs: the attempts of
\* the two phases outlast the calculation.  Except when something went wrong
\* while it started: the service was off or ended, the guest ended, or
\* UpdateAffinity failed or took too long.
ServedAfterStart ==
    \A v \in VMs : stage[v] = "post-start" /\ hook[v] = Done =>
        v \in served \cup disturbed

\* Whatever the service does, a VM start goes on: each phase of the hook ends.
HookEnds == \A v \in VMs : hook[v] # Done ~> hook[v] = Done

=============================================================================
