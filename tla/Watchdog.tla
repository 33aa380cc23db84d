------------------------------ MODULE Watchdog ------------------------------
(***************************************************************************)
(* How the ranking follows the hardware: the start of the service          *)
(* (cmd/service/main.go), the netlink listener and the hotplugReactor      *)
(* (pkg/cpuinfo/hotplug.go), and CalculateRanking with the Update          *)
(* goroutines it starts (pkg/cpuinfo/cpuinfo.go), composed.                *)
(*                                                                         *)
(* The kernel is external: a CPU is plugged in or out with an add or       *)
(* remove uevent, or goes on- or offline with a uevent of another action;  *)
(* both change what detectTopologySystem finds (it skips offline CPUs).    *)
(* A ranking is abstracted to the set of CPUs it ranks; CpuInfo has the    *)
(* rest.  Detection is one step.                                           *)
(***************************************************************************)
EXTENDS HotplugReactor, Sequences, FiniteSets, SequencesExt

CONSTANTS
    CPUs,             \* the logical CPUs the host can ever have
    MaxChanges,       \* bound: how often the hardware changes, the service ends
                      \* or the reader is disturbed
    MaxInFlight,      \* bound: Update goroutines measuring at one time
    SocketBuffer,     \* uevents the netlink socket holds
    Faults            \* what the environment may do, a subset of AllFaults

\* "startup": the hardware changes before the listener is bound;
\* "unbound": the listener cannot be bound at all, which is only logged;
\* "foreign": uevents of other subsystems overrun the socket, or a read fails;
\* "silent":  CPUs go on- and offline without an add or remove uevent;
\* "timeout": a recalculation takes longer than its caller waits;
\* "slow":    so does the first calculation;
\* "restart": the service ends (a crash, a signal) and systemd starts it again.
AllFaults == {"startup", "unbound", "foreign", "silent", "timeout", "slow", "restart"}

ASSUME WatchdogAssumption ==
    /\ MaxChanges \in Nat
    /\ MaxInFlight \in Nat \ {0}
    /\ SocketBuffer \in Nat \ {0}
    /\ Faults \subseteq AllFaults

VARIABLES
    online,     \* the CPUs that a detection would find now
    changes,    \* how often the environment has done something, see MaxChanges
    phase,      \* main: "ranking" (first calculation), "opening", "watching"
    socket,     \* netlink listener: "closed", "reading" or "gone"
    uevents,    \* the uevents queued in the netlink socket
    overrun,    \* the next read of the socket fails: it has dropped a uevent
    caller,     \* CalculateRanking: "none", "started", "waiting", "returned"
    inFlight,   \* Update goroutines that are measuring, in detection order
    ranked,     \* the CPUs of CPUInfo.cache
    blame       \* history: causes for which ranked may now be out of date

kernelVars == <<online, changes, uevents, overrun>>
calcVars == <<caller, inFlight, ranked>>
vars == <<online, changes, phase, socket, uevents, overrun, caller, inFlight,
          ranked, blame, events, batch, timer, jobs, stopping, batcher,
          worker, stale, quiet>>

Causes == {"unheard", "silent", "overrun", "overtaken"}
Actions == {"add", "remove", "online", "offline"}

\* An Update goroutine: what it detected, whether its caller still waits for
\* it, and whether one that detected later has installed its result already.
Measuring == [found : SUBSET CPUs, awaited : BOOLEAN, overtaken : BOOLEAN]

Init ==
    /\ online \in (SUBSET CPUs) \ {{}}
    /\ changes = 0
    /\ phase = "ranking"
    /\ socket = "closed"
    /\ uevents = <<>>
    /\ overrun = FALSE
    /\ caller = "started"
    /\ inFlight = <<>>
    /\ ranked = {}
    /\ blame = {}
    /\ ReactorInit

-----------------------------------------------------------------------------
(* The kernel                                                              *)

\* The uevent reaches the socket if it is bound and has room.
Emit(action) ==
    /\ uevents' = IF socket = "reading" /\ Len(uevents) < SocketBuffer
                    THEN Append(uevents, action) ELSE uevents
    /\ overrun' = \/ overrun
                  \/ socket = "reading" /\ Len(uevents) = SocketBuffer

\* CPU c comes or goes, and the kernel says so in the way of these actions.
Change(c, came, went, cause) ==
    /\ changes < MaxChanges
    /\ changes' = changes + 1
    /\ online' = IF c \in online THEN online \ {c} ELSE online \cup {c}
    /\ online' # {}
    /\ Emit(IF c \in online THEN went ELSE came)
    /\ blame' = blame \cup cause
                      \cup (IF overrun' \/ socket = "gone" THEN {"overrun"} ELSE {})
    /\ UNCHANGED <<phase, socket, calcVars, reactorVars>>

\* Nobody listens: the service has not come to it yet, or could not bind.
Unheard == socket = "closed"
MayBeUnheard == phase = "watching" \/ "startup" \in Faults

Plug(c) ==
    /\ Unheard => MayBeUnheard
    /\ Change(c, "add", "remove", IF Unheard THEN {"unheard"} ELSE {})

Switch(c) ==
    /\ "silent" \in Faults
    /\ Unheard => MayBeUnheard
    /\ Change(c, "online", "offline", {"silent"})

\* The socket gets the uevents of all subsystems, and theirs overrun it; or the
\* next read is going to fail for some other reason.  What is queued is lost.
ForeignOverrun ==
    /\ "foreign" \in Faults
    /\ socket = "reading" /\ ~overrun
    /\ changes < MaxChanges
    /\ changes' = changes + 1
    /\ overrun' = TRUE
    /\ blame' = IF uevents # <<>> THEN blame \cup {"overrun"} ELSE blame
    /\ UNCHANGED <<online, uevents, phase, socket, calcVars, reactorVars>>

-----------------------------------------------------------------------------
(* main                                                                    *)

\* The first CalculateRanking returned without an error: go on.  (With an
\* error main exits and systemd starts it again: see InitialFailure.)
InitialDone ==
    /\ phase = "ranking"
    /\ caller = "returned"
    /\ phase' = "opening"
    /\ caller' = "none"
    /\ UNCHANGED <<kernelVars, socket, inFlight, ranked, blame, reactorVars>>

\* StartWatchdog binds the netlink socket and starts its reader.
StartWatchdog ==
    /\ phase = "opening"
    /\ phase' = "watching"
    /\ socket' = "reading"
    /\ UNCHANGED <<kernelVars, calcVars, blame, reactorVars>>

\* The socket cannot be created or bound: main warns and serves without.
StartWatchdogFails ==
    /\ "unbound" \in Faults
    /\ phase = "opening"
    /\ phase' = "watching"
    /\ UNCHANGED <<kernelVars, socket, calcVars, blame, reactorVars>>

\* The service ends at any moment and systemd starts it again: the ranking,
\* the socket with its uevents and the goroutines are gone, and main begins
\* with the first calculation.
Restart ==
    /\ "restart" \in Faults
    /\ changes < MaxChanges
    /\ changes' = changes + 1
    /\ phase' = "ranking"
    /\ socket' = "closed" /\ uevents' = <<>> /\ overrun' = FALSE
    /\ caller' = "started" /\ inFlight' = <<>> /\ ranked' = {}
    /\ events' = 0 /\ batch' = FALSE /\ timer' = Off /\ jobs' = 0
    /\ stopping' = FALSE /\ batcher' = "select" /\ worker' = "select"
    /\ stale' = FALSE /\ quiet' = Window
    /\ UNCHANGED <<online, blame>>

-----------------------------------------------------------------------------
(* The netlink reader                                                      *)

ReadUeventAddOnly ==
    /\ socket = "reading" /\ ~overrun
    /\ uevents # <<>>
    /\ uevents' = Tail(uevents)
    /\ IF Head(uevents) = "add" THEN Ingest ELSE UNCHANGED reactorVars
    /\ UNCHANGED <<online, changes, overrun, phase, socket, calcVars, blame>>

\* A uevent is read; only add and remove actions are handed to the reactor.
ReadUevent ==
    /\ socket = "reading" /\ ~overrun
    /\ uevents # <<>>
    /\ uevents' = Tail(uevents)
    /\ IF Head(uevents) \in {"add", "remove"}
         THEN Ingest ELSE UNCHANGED reactorVars
    /\ UNCHANGED <<online, changes, overrun, phase, socket, calcVars, blame>>

\* Recvfrom fails (with ENOBUFS after an overrun): whatever the error is, the
\* reader returns for good.
ReaderFails ==
    /\ socket = "reading" /\ overrun
    /\ socket' = "gone"
    /\ uevents' = <<>>
    /\ UNCHANGED <<online, changes, overrun, phase, calcVars, blame, reactorVars>>

-----------------------------------------------------------------------------
(* CalculateRanking and Update                                             *)

\* The Update goroutine detects the topology: the result is as old as this.
Detect ==
    /\ caller = "started"
    /\ Len(inFlight) < MaxInFlight
    /\ caller' = "waiting"
    /\ inFlight' = Append(inFlight, [found |-> online, awaited |-> TRUE,
                                     overtaken |-> FALSE])
    /\ blame' = {}
    /\ UNCHANGED <<kernelVars, phase, socket, ranked, reactorVars>>

\* The caller learns the outcome if it is still waiting for this goroutine.
Report(i) == caller' = IF inFlight[i].awaited THEN "returned" ELSE caller

FailSilently(i) ==
    /\ ~(inFlight[i].found \subseteq online)
    /\ Cardinality(inFlight[i].found) > 1
    /\ IF phase = "ranking"
         THEN inFlight' = <<>> /\ caller' = "started"
         ELSE inFlight' = RemoveAt(inFlight, i) /\ UNCHANGED caller
    /\ UNCHANGED <<kernelVars, phase, socket, ranked, blame, reactorVars>>

TimeOutKeepsWaiting ==
    /\ IF phase = "ranking" THEN "slow" \in Faults ELSE "timeout" \in Faults
    /\ \E j \in DOMAIN inFlight :
          inFlight[j].awaited /\ Cardinality(inFlight[j].found) > 1
    /\ caller' = "returned"
    /\ UNCHANGED <<kernelVars, phase, socket, inFlight, ranked, blame, reactorVars>>

\* Goroutine i takes the lock and installs its result.  It is the i-th to
\* have detected, so those before it in inFlight have been overtaken.
Install(i) ==
    /\ ranked' = inFlight[i].found
    /\ inFlight' = [j \in 1 .. Len(inFlight) - 1 |->
                      IF j < i THEN [inFlight[j] EXCEPT !.overtaken = TRUE]
                               ELSE inFlight[j + 1]]
    /\ blame' = IF inFlight[i].overtaken THEN blame \cup {"overtaken"} ELSE blame
    /\ Report(i)
    /\ UNCHANGED <<kernelVars, phase, socket, reactorVars>>

\* A CPU that goroutine i has to measure is gone: lockToCPU fails and so does
\* Update.  In the first calculation main exits with the error and systemd
\* starts the service again (Restart=always), which starts afresh.
Fail(i) ==
    /\ ~(inFlight[i].found \subseteq online)
    /\ Cardinality(inFlight[i].found) > 1
    /\ IF phase = "ranking"
         THEN inFlight' = <<>> /\ caller' = "started"
         ELSE inFlight' = RemoveAt(inFlight, i) /\ Report(i)
    /\ UNCHANGED <<kernelVars, phase, socket, ranked, blame, reactorVars>>

\* The caller waits no longer and returns an error; its goroutine goes on.
\* In the first calculation that ends the process, and all starts afresh.
TimeOut ==
    /\ IF phase = "ranking" THEN "slow" \in Faults ELSE "timeout" \in Faults
    /\ \E j \in DOMAIN inFlight :
          inFlight[j].awaited /\ Cardinality(inFlight[j].found) > 1
    /\ IF phase = "ranking"
         THEN inFlight' = <<>> /\ caller' = "started"
         ELSE /\ inFlight' = [j \in DOMAIN inFlight |->
                                [inFlight[j] EXCEPT !.awaited = FALSE]]
              /\ caller' = "returned"
    /\ UNCHANGED <<kernelVars, phase, socket, ranked, blame, reactorVars>>

-----------------------------------------------------------------------------
(* The reactor: its worker's handler is a CalculateRanking                 *)

BeginRecalculation ==
    /\ TakeJob
    /\ caller' = "started"
    /\ UNCHANGED <<kernelVars, phase, socket, inFlight, ranked, blame>>

EndRecalculation ==
    /\ caller = "returned"
    /\ HandlerDone
    /\ caller' = "none"
    /\ UNCHANGED <<kernelVars, phase, socket, inFlight, ranked, blame>>

Batching ==
    /\ BufferEvent \/ Flush
    /\ UNCHANGED <<kernelVars, phase, socket, calcVars, blame>>

TimePasses ==
    /\ Tick
    /\ UNCHANGED <<kernelVars, phase, socket, calcVars, blame>>

-----------------------------------------------------------------------------
Next ==
    \/ \E c \in CPUs : Plug(c) \/ Switch(c)
    \/ InitialDone \/ StartWatchdog \/ StartWatchdogFails \/ Restart
    \/ ForeignOverrun \/ ReadUevent \/ ReaderFails
    \/ Detect \/ TimeOut
    \/ \E i \in DOMAIN inFlight : Install(i) \/ Fail(i)
    \/ BeginRecalculation \/ EndRecalculation \/ Batching \/ TimePasses

\* Goroutines and main run, measurements end, time passes.  Nothing is
\* assumed of the kernel, of failures or of timeouts.
Fairness ==
    /\ WF_vars(InitialDone) /\ WF_vars(StartWatchdog \/ StartWatchdogFails)
    /\ WF_vars(ReadUevent) /\ WF_vars(ReaderFails)
    /\ WF_vars(Detect)
    /\ WF_vars(\E i \in DOMAIN inFlight : Install(i) \/ Fail(i))
    /\ WF_vars(BeginRecalculation) /\ WF_vars(EndRecalculation)
    /\ WF_vars(Batching) /\ WF_vars(TimePasses)

Spec == Init /\ [][Next]_vars
FairSpec == Spec /\ Fairness

-----------------------------------------------------------------------------
(* Properties                                                              *)

\* Every variable has its type, and at most one goroutine is waited for.
TypeOK ==
    /\ online \in (SUBSET CPUs) \ {{}}
    /\ changes \in 0 .. MaxChanges
    /\ phase \in {"ranking", "opening", "watching"}
    /\ socket \in {"closed", "reading", "gone"}
    /\ uevents \in Seq(Actions) /\ Len(uevents) <= SocketBuffer
    /\ overrun \in BOOLEAN
    /\ caller \in {"none", "started", "waiting", "returned"}
    /\ inFlight \in Seq(Measuring) /\ Len(inFlight) <= MaxInFlight
    /\ ranked \in SUBSET CPUs
    /\ blame \in SUBSET Causes
    /\ Cardinality({ i \in DOMAIN inFlight : inFlight[i].awaited })
         = (IF caller = "waiting" THEN 1 ELSE 0)

\* Something is under way after which the ranking will be that of now.
CatchingUp ==
    \/ uevents # <<>>
    \/ events > 0 \/ batch \/ jobs > 0
    \/ caller = "started"
    \/ \E i \in DOMAIN inFlight : inFlight[i].found = online

\* Once the service watches, a ranking that does not match the hardware is
\* being replaced, or one of four things happened: the hardware changed
\* before the listener was bound, a CPU went on- or offline, the reader failed
\* (the socket was overrun), or a goroutine whose caller had timed out overwrote a newer
\* ranking.  No other loss is possible, whatever is dropped, batched, fails
\* or times out.
StaleOnlyForAKnownCause ==
    phase = "watching" /\ ranked # online => CatchingUp \/ blame # {}

\* A service that gets to watching, and is not started afresh for ever, ends
\* with the ranking of the hardware, or with one of these causes for having
\* another.
CurrentOrBlamed ==
    <>[](phase = "watching") => <>[](ranked = online \/ blame # {})

\* README, CPU Hotplug Watchdog: the affinity logic always uses the current
\* CPU topology without requiring a service restart (once the changes end).
EventuallyCurrent == <>[](ranked = online)

=============================================================================
