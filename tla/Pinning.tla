------------------------------- MODULE Pinning -------------------------------
(***************************************************************************)
(* How the service pins a VM: UpdateAffinity (pkg/scheduler/scheduler.go), *)
(* the Proxmox client (pkg/proxmox/proxmox.go) and ApplyAffinity           *)
(* (pkg/scheduler/affinity.go), in one goroutine per request, against VMs  *)
(* that start, end, start threads and are configured anew at any moment.   *)
(* CPUInfo is taken at the level of AffinityMap, which CpuInfo implements. *)
(*                                                                         *)
(* Every read of the configuration and the pid file, every use of CPUInfo  *)
(* and every sched_setaffinity is one action.  So is the listing of the    *)
(* threads, and that of the children with their threads, although each is  *)
(* several reads of /proc: what starts between two of them is listed, as   *)
(* if it had started before, or missed, as if it had started after.  VMs,  *)
(* their threads and their configuration are external.                     *)
(***************************************************************************)
EXTENDS Naturals, FiniteSets

CONSTANTS
    CPUs,         \* the logical CPUs
    VMs,          \* the VM ids
    Tasks,        \* thread ids of the host, used again once they are free
    Handlers,     \* requests the service handles at one time
    MaxSize,      \* the largest cores * sockets of a VM
    MaxChanges,   \* bound: how often VMs, threads, configurations, rankings change
    Nobody        \* not a VM: the owner of a free thread id

ASSUME PinningAssumption ==
    /\ IsFiniteSet(CPUs) /\ CPUs # {}
    /\ MaxSize \in Nat \ {0}
    /\ MaxChanges \in Nat
    /\ Nobody \notin VMs

VARIABLES
    ranked, granted,  \* CPUInfo, see AffinityMap
    conf,       \* per VM: its cores * sockets, and whether it has an affinity
    owner,      \* per thread id: the VM it belongs to
    child,      \* the thread ids that belong to a child process of a VM
    pidfile,    \* per VM: the thread ids named in its pid file (one or none)
    mask,       \* per thread: the CPUs the service has set, {} before that
    handler,    \* per request: what UpdateAffinity has come to and has read
    changes,    \* how often the environment has changed something
    served,     \* history: VMs pinned by a request since they started
    manual,     \* history: VMs that have had an affinity since they started
    blame       \* history: per VM, why a thread may have another mask

envVars == <<conf, owner, child, pidfile, changes, manual>>
mapVars == <<ranked, granted>>
vars == <<ranked, granted, conf, owner, child, pidfile, mask, handler,
          changes, served, manual, blame>>

Map == INSTANCE AffinityMap

Configs == [size : 1 .. MaxSize, manual : BOOLEAN]
Causes == {"missed", "stale"}

Idle == [at |-> "idle"]
Busy(h) == handler[h] # Idle
HandlersOf(v) == { h \in Handlers : Busy(h) /\ handler[h].vm = v }

\* The request has its selection, and is going to set it or setting it.
Holding(h) == handler[h].at \in {"threads", "children", "apply"}

TasksOf(v) == { t \in Tasks : owner[t] = v }
Running(v) == TasksOf(v) # {}

\* The service starts; VMs may run already.
Init ==
    /\ ranked = CPUs
    /\ granted = Map!NoGrants
    /\ conf \in [VMs -> Configs]
    /\ owner \in [Tasks -> VMs \cup {Nobody}]
    /\ child \in SUBSET { t \in Tasks : owner[t] # Nobody }
    /\ pidfile \in [VMs -> {{}} \cup { {t} : t \in Tasks \ child }]
    /\ \A v \in VMs : pidfile[v] \subseteq TasksOf(v) /\ (Running(v) => pidfile[v] # {})
    /\ mask = [t \in Tasks |-> {}]
    /\ handler = [h \in Handlers |-> Idle]
    /\ changes = 0
    /\ served = {}
    /\ manual = { v \in VMs : Running(v) /\ conf[v].manual }
    /\ blame = [v \in VMs |-> {}]

-----------------------------------------------------------------------------
(* The environment: VMs, their threads, their configuration                *)

CountChange == changes < MaxChanges /\ changes' = changes + 1

\* What requests have read of v is out of date now.
Outdate(v) ==
    handler' = [h \in Handlers |-> IF h \in HandlersOf(v)
                                     THEN [handler[h] EXCEPT !.current = FALSE]
                                     ELSE handler[h]]

VMStart(v, t) ==
    /\ CountChange
    /\ ~Running(v) /\ owner[t] = Nobody
    /\ owner' = [owner EXCEPT ![t] = v]
    /\ pidfile' = [pidfile EXCEPT ![v] = {t}]
    /\ manual' = IF conf[v].manual THEN manual \cup {v} ELSE manual
    /\ Outdate(v)
    /\ UNCHANGED <<mapVars, conf, child, mask, served, blame>>

\* The process ends; if it was killed its pid file stays.
VMEnd(v) ==
    /\ CountChange
    /\ Running(v)
    /\ owner' = [t \in Tasks |-> IF owner[t] = v THEN Nobody ELSE owner[t]]
    /\ child' = child \ TasksOf(v)
    /\ pidfile' \in {pidfile, [pidfile EXCEPT ![v] = {}]}
    /\ mask' = [t \in Tasks |-> IF owner[t] = v THEN {} ELSE mask[t]]
    /\ manual' = manual \ {v}
    /\ served' = served \ {v}
    /\ blame' = [blame EXCEPT ![v] = {}]
    /\ Outdate(v)
    /\ UNCHANGED <<mapVars, conf>>

\* Thread or child process t is started by u and inherits its affinity.  A
\* request that has already listed what t belongs to will miss it.
Spawn(v, t, u, isChild) ==
    /\ CountChange
    /\ owner[t] = Nobody /\ owner[u] = v
    /\ u \in child => isChild
    /\ owner' = [owner EXCEPT ![t] = v]
    /\ child' = IF isChild THEN child \cup {t} ELSE child
    /\ mask' = [mask EXCEPT ![t] = mask[u]]
    /\ LET missed == { h \in HandlersOf(v) :
                         /\ handler[h].at = "apply" \/ (handler[h].at = "children" /\ ~isChild)
                         /\ mask[u] # handler[h].cpus }
       IN  blame' = IF missed # {} THEN [blame EXCEPT ![v] = @ \cup {"missed"}]
                                   ELSE blame
    /\ UNCHANGED <<mapVars, conf, pidfile, handler, served, manual>>

\* A thread or child process other than the main process ends, and its id is
\* free for any VM, while requests may have it on their lists.
ThreadEnd(v, t) ==
    /\ CountChange
    /\ owner[t] = v /\ t \notin pidfile[v]
    /\ owner' = [owner EXCEPT ![t] = Nobody]
    /\ child' = child \ {t}
    /\ mask' = [mask EXCEPT ![t] = {}]
    /\ UNCHANGED <<mapVars, conf, pidfile, handler, served, manual, blame>>

Configure(v) ==
    /\ CountChange
    /\ \E c \in Configs \ {conf[v]} : conf' = [conf EXCEPT ![v] = c]
    /\ manual' = IF conf'[v].manual THEN manual ELSE manual \ {v}
    /\ UNCHANGED <<mapVars, owner, child, pidfile, mask, handler, served, blame>>

\* The watchdog has the CPUs ranked again.
Recalculate ==
    /\ CountChange
    /\ Map!Rebuild /\ ranked' # {}
    /\ UNCHANGED <<conf, owner, child, pidfile, mask, handler, served, manual, blame>>

\* The service ends, with its requests, and starts again with a new ranking.
Restart ==
    /\ CountChange
    /\ Map!Rebuild /\ ranked' # {}
    /\ handler' = [h \in Handlers |-> Idle]
    /\ UNCHANGED <<conf, owner, child, pidfile, mask, served, manual, blame>>

-----------------------------------------------------------------------------
(* UpdateAffinity                                                          *)

Become(h, r) == handler' = [handler EXCEPT ![h] = r]
Finish(h) == Become(h, Idle)

\* A hook or reassign asks for VM v, which need not run or exist: a goroutine
\* reads its configuration (GetVmConfig).  If pvesh fails that is all it does.
Request(h, v) ==
    /\ handler[h] = Idle
    /\ Become(h, [at |-> "pid", vm |-> v, want |-> conf[v], current |-> TRUE])
    /\ UNCHANGED <<mapVars, envVars, mask, served, blame>>

ReadPidIgnoresAffinity(h) ==
    /\ handler[h].at = "pid"
    /\ LET r == handler[h]
           alive == { t \in pidfile[r.vm] : owner[t] # Nobody }
       IN  \/ alive = {} /\ Finish(h)
           \/ \E t \in alive :
                Become(h, [at |-> "select", vm |-> r.vm, size |-> r.want.size, pid |-> t,
                           current |-> r.current /\ owner[t] = r.vm])
    /\ UNCHANGED <<mapVars, envVars, mask, served, blame>>

\* GetVmPid: there is a pid file and a process with that pid (a file that
\* cannot be read is as none).  Only then is the affinity looked at.
ReadPid(h) ==
    /\ handler[h].at = "pid"
    /\ LET r == handler[h]
           alive == { t \in pidfile[r.vm] : owner[t] # Nobody }
       IN  \/ (alive = {} \/ r.want.manual) /\ Finish(h)
           \/ \E t \in alive :
                /\ ~r.want.manual
                /\ Become(h, [at |-> "select", vm |-> r.vm, size |-> r.want.size, pid |-> t,
                              current |-> r.current /\ owner[t] = r.vm])
    /\ UNCHANGED <<mapVars, envVars, mask, served, blame>>

\* The selection S is now the request's, to be set on the threads of its pid.
Hold(h, S) ==
    LET r == handler[h]
        others == { g \in HandlersOf(r.vm) \ {h} : Holding(g) }
    IN  /\ Become(h, [at |-> "threads", vm |-> r.vm, pid |-> r.pid, cpus |-> S,
                      current |-> r.current])
        /\ blame' = [blame EXCEPT ![r.vm] =
              (IF r.current /\ others = {} THEN {} ELSE @)
                \cup (IF \E g \in others : handler[g].cpus # S THEN {"missed"} ELSE {})
                \cup (IF ~r.current /\ S # granted[r.vm] THEN {"stale"} ELSE {})]

SelectIgnoresError(h) ==
    /\ handler[h].at = "select"
    /\ LET r == handler[h]
           v == r.vm
           n == r.size
       IN  \/ n > Cardinality(ranked) /\ Cardinality(granted[v]) # n
              /\ Hold(h, {}) /\ UNCHANGED granted
           \/ Cardinality(granted[v]) = n /\ Hold(h, granted[v]) /\ UNCHANGED granted
           \/ \E S \in SUBSET ranked :
                /\ Cardinality(S) = n
                /\ Map!Grant(v, S)
                /\ Hold(h, S)
    /\ UNCHANGED <<ranked, envVars, mask, served>>

\* ApplyAffinity calls SelectCPUs; if that fails the request ends (with ok).
Select(h) ==
    /\ handler[h].at = "select"
    /\ LET r == handler[h]
           v == r.vm
           n == r.size
       IN  \/ /\ n > Cardinality(ranked) /\ Cardinality(granted[v]) # n
              /\ Finish(h) /\ UNCHANGED <<granted, blame>>
           \/ Cardinality(granted[v]) = n /\ Hold(h, granted[v]) /\ UNCHANGED granted
           \/ \E S \in SUBSET ranked :
                /\ Cardinality(S) = n
                /\ Map!Grant(v, S)
                /\ Hold(h, S)
    /\ UNCHANGED <<ranked, envVars, mask, served>>

\* The threads and children of the process that pid belongs to now, whoever
\* that is: the main process of a VM, or a child (of one thread).
Threads(pid) == IF pid \in child THEN {pid} ELSE TasksOf(owner[pid]) \ child
Children(pid) == IF pid \in child THEN {} ELSE TasksOf(owner[pid]) \cap child

\* GetProcessThreads lists /proc/<pid>/task, or the pid alone is used.
ListThreads(h) ==
    /\ handler[h].at = "threads"
    /\ LET r == handler[h]
       IN  Become(h, [at |-> "children", vm |-> r.vm, pid |-> r.pid, cpus |-> r.cpus,
                      todo |-> IF owner[r.pid] = Nobody THEN {r.pid} ELSE Threads(r.pid),
                      current |-> r.current])
    /\ UNCHANGED <<mapVars, envVars, mask, served, blame>>

ListChildrenNone(h) ==
    /\ handler[h].at = "children"
    /\ LET r == handler[h]
       IN  Become(h, [at |-> "apply", vm |-> r.vm, cpus |-> r.cpus, todo |-> r.todo,
                      current |-> r.current])
    /\ UNCHANGED <<mapVars, envVars, mask, served, blame>>

\* GetChildProcesses and their threads; nothing if the process is gone.
ListChildren(h) ==
    /\ handler[h].at = "children"
    /\ LET r == handler[h]
       IN  Become(h, [at |-> "apply", vm |-> r.vm, cpus |-> r.cpus,
                      todo |-> r.todo \cup (IF owner[r.pid] = Nobody THEN {}
                                                             ELSE Children(r.pid)),
                      current |-> r.current])
    /\ UNCHANGED <<mapVars, envVars, mask, served, blame>>

\* SchedSetaffinity for one thread, in any order.  It fails if the thread is
\* gone, or else for a reason of the kernel's; the others are still set.
SetAffinity(h, t) ==
    /\ handler[h].at = "apply" /\ t \in handler[h].todo
    /\ Become(h, [handler[h] EXCEPT !.todo = @ \ {t}])
    /\ LET r == handler[h]
           v == owner[t]
       IN  \/ v = Nobody /\ UNCHANGED <<mask, blame>>
           \/ /\ v # Nobody
              /\ mask' = [mask EXCEPT ![t] = r.cpus]
              /\ blame' = IF r.current /\ v = r.vm THEN blame
                            ELSE [blame EXCEPT ![v] = @ \cup {"stale"}]
           \/ /\ v # Nobody /\ mask[t] # r.cpus
              /\ blame' = [blame EXCEPT ![v] = @ \cup {"missed"}]
              /\ UNCHANGED mask
    /\ UNCHANGED <<mapVars, envVars, served>>

\* All threads have been tried: the reply is ok.
Reply(h) ==
    /\ handler[h].at = "apply" /\ handler[h].todo = {}
    /\ Finish(h)
    /\ served' = IF handler[h].current THEN served \cup {handler[h].vm} ELSE served
    /\ UNCHANGED <<mapVars, envVars, mask, blame>>

-----------------------------------------------------------------------------
Environment ==
    \/ \E v \in VMs : \/ \E t \in Tasks : VMStart(v, t) \/ ThreadEnd(v, t)
                      \/ VMEnd(v)
                      \/ \E t, u \in Tasks, c \in BOOLEAN : Spawn(v, t, u, c)
                      \/ Configure(v)
    \/ Recalculate
    \/ Restart

UpdateAffinity(h) ==
    \/ ReadPid(h) \/ Select(h)
    \/ ListThreads(h) \/ ListChildren(h)
    \/ \E t \in Tasks : SetAffinity(h, t)
    \/ Reply(h)

Next ==
    \/ Environment
    \/ \E h \in Handlers : UpdateAffinity(h) \/ \E v \in VMs : Request(h, v)

Spec == Init /\ [][Next]_vars

-----------------------------------------------------------------------------
(* Properties                                                              *)

\* What a request has read or selected, by the step it has come to.  A mask
\* that is going to be set is never empty.
HandlerStates ==
    LET V == VMs
        Masks == (SUBSET CPUs) \ {{}}
    IN  {Idle}
          \cup [at : {"pid"}, vm : V, want : Configs, current : BOOLEAN]
          \cup [at : {"select"}, vm : V, size : 1 .. MaxSize, pid : Tasks, current : BOOLEAN]
          \cup [at : {"threads"}, vm : V, pid : Tasks, cpus : Masks, current : BOOLEAN]
          \cup [at : {"children"}, vm : V, pid : Tasks, cpus : Masks,
                todo : SUBSET Tasks, current : BOOLEAN]
          \cup [at : {"apply"}, vm : V, cpus : Masks, todo : SUBSET Tasks,
                current : BOOLEAN]

\* Every variable has its type.
TypeOK ==
    /\ ranked \in SUBSET CPUs
    /\ granted \in [VMs -> SUBSET CPUs]
    /\ conf \in [VMs -> Configs]
    /\ owner \in [Tasks -> VMs \cup {Nobody}]
    /\ child \in SUBSET Tasks
    /\ pidfile \in [VMs -> SUBSET Tasks]
    /\ mask \in [Tasks -> SUBSET CPUs]
    /\ handler \in [Handlers -> HandlerStates]
    /\ changes \in 0 .. MaxChanges
    /\ served \in SUBSET VMs
    /\ manual \in SUBSET VMs
    /\ blame \in [VMs -> SUBSET Causes]

\* A VM that a request has pinned since it started, and that CPUInfo still
\* has a selection for, has all its threads and children on exactly that
\* selection once no request is setting it; or else one of four things
\* happened since a request last set it alone: requests that held different
\* selections overlapped, a thread was started behind the listing by one
\* that was not pinned yet, the kernel refused, or a request acted on a pid,
\* a thread id or a configuration read before the VM had it.
PinnedOrBlamed ==
    \A v \in served : granted[v] # {} /\ ~(\E h \in HandlersOf(v) : Holding(h)) =>
        blame[v] # {} \/ \A t \in TasksOf(v) : mask[t] = granted[v]

\* VMs that have had an affinity of their own since they started are left
\* alone, but for requests that acted on what they had read before.
LeftAlone ==
    \A v \in manual : "stale" \in blame[v] \/ \A t \in TasksOf(v) : mask[t] = {}

=============================================================================
