---------------------------- MODULE PinningProofs ----------------------------
(***************************************************************************)
(* Proofs about Pinning, for every set of CPUs, VMs, thread ids and requests *)
(* and every number of changes.                                             *)
(***************************************************************************)
EXTENDS Pinning, FiniteSetTheorems, TLAPS

-----------------------------------------------------------------------------
(* The inductive invariant                                                 *)

\* A request that has read nothing which is out of date by now.
Current(h) == Busy(h) /\ handler[h].current

\* The requests that have their selection for v, and those that are in time.
HoldersOf(v) == { h \in HandlersOf(v) : Holding(h) }
Pins(h, v) == h \in HoldersOf(v) /\ Current(h)

\* The threads of a VM that h has listed, or would list next.
Listed(h, v) == IF handler[h].at = "children" THEN TasksOf(v) \ child ELSE TasksOf(v)

\* A free thread id has no affinity and is nobody's child; a VM that runs has a
\* pid file, which names its main process; only VMs that run have been served or
\* have been configured by hand since they started.
Host ==
    /\ \A t \in Tasks : owner[t] = Nobody => mask[t] = {} /\ t \notin child
    /\ \A v \in VMs : Running(v) =>
          /\ pidfile[v] # {}
          /\ \A t \in pidfile[v] : owner[t] = v /\ t \notin child
    /\ \A v \in served : Running(v)
    /\ \A v \in manual : conf[v].manual

\* What a request that is in time knows: the process it has found is the main
\* process of its VM, and it has seen the affinity of a VM that has one.
Knows(h) ==
    /\ handler[h].at \in {"select", "threads", "children"} =>
         /\ owner[handler[h].pid] = handler[h].vm /\ handler[h].pid \notin child
         /\ handler[h].pid \in pidfile[handler[h].vm]
    /\ handler[h].at = "apply" => Running(handler[h].vm)
    /\ handler[h].vm \in manual => handler[h].at = "pid" /\ handler[h].want.manual

InTime == \A h \in Handlers : Current(h) => Knows(h)

\* How far a request has pinned v: all requests that pin it have the selection
\* of this one, which CPUInfo has too if it has any, and each thread listed is
\* still to be set or has the selection.
PinnedBy(h, v) ==
    /\ \A g \in HoldersOf(v) : handler[g].cpus = handler[h].cpus
    /\ granted[v] \in {{}, handler[h].cpus}
    /\ handler[h].at \in {"children", "apply"} =>
         \A t \in Listed(h, v) : t \in handler[h].todo \/ mask[t] = handler[h].cpus

PinnedIn(v) == blame[v] = {} => \A h \in Handlers : Pins(h, v) => PinnedBy(h, v)

\* A VM that is not blamed, has been served and is not being pinned in time: its
\* threads have its selection, whoever else acts on what is out of date.
KeptIn(v) ==
    /\ v \in served /\ blame[v] = {} /\ granted[v] # {}
    /\ ~(\E h \in Handlers : Pins(h, v))
    => \A t \in TasksOf(v) : mask[t] = granted[v]

Pinned == \A v \in VMs : PinnedIn(v) /\ KeptIn(v)

IInv == TypeOK /\ Host /\ InTime /\ LeftAlone /\ Pinned

-----------------------------------------------------------------------------
(* The states of a request                                                 *)

\* The fields that a request has by the step it has come to.
LEMMA StateFields ==
    ASSUME NEW r \in HandlerStates
    PROVE  /\ r.at \in {"idle", "pid", "select", "threads", "children", "apply"}
           /\ r.at = "idle" <=> r = Idle
           /\ r # Idle => r.vm \in VMs /\ r.current \in BOOLEAN
           /\ r.at = "pid" => r.want \in Configs
           /\ r.at = "select" => r.size \in 1 .. MaxSize
           /\ r.at \in {"select", "threads", "children"} => r.pid \in Tasks
           /\ r.at \in {"threads", "children", "apply"} => r.cpus \in (SUBSET CPUs) \ {{}}
           /\ r.at \in {"children", "apply"} => r.todo \in SUBSET Tasks
BY DEF HandlerStates, Idle

\* A request keeps what it has when that gets out of date.
LEMMA OutdatedFields ==
    ASSUME NEW r \in HandlerStates, r # Idle, NEW o, o = [r EXCEPT !.current = FALSE]
    PROVE  /\ o \in HandlerStates /\ o # Idle
           /\ o.at = r.at /\ o.vm = r.vm /\ o.current = FALSE
           /\ r.at \in {"threads", "children", "apply"} => o.cpus = r.cpus
BY DEF HandlerStates, Idle

\* A thread that has been tried is no longer to be done.
LEMMA TriedFields ==
    ASSUME NEW r \in HandlerStates, r.at = "apply", NEW t,
           NEW o, o = [r EXCEPT !.todo = @ \ {t}]
    PROVE  /\ o \in HandlerStates /\ o # Idle
           /\ o.at = "apply" /\ o.vm = r.vm /\ o.current = r.current /\ o.cpus = r.cpus
           /\ o.todo = r.todo \ {t}
BY DEF HandlerStates, Idle

\* The requests that have their selection for v are as before.
SameHolders(v) ==
    /\ HoldersOf(v)' = HoldersOf(v)
    /\ \A h \in HoldersOf(v) : handler'[h] = handler[h]

\* A VM that a step leaves alone, but for threads that end, stays pinned, or
\* withdrawn from CPUInfo.
LEMMA Undisturbed ==
    ASSUME NEW v \in VMs, PinnedIn(v) /\ KeptIn(v), SameHolders(v),
           TasksOf(v)' \subseteq TasksOf(v),
           \A t \in TasksOf(v)' : mask'[t] = mask[t] /\ (t \in child' <=> t \in child),
           granted'[v] \in {{}, granted[v]},
           blame'[v] = {} => blame[v] = {},
           v \in served' => v \in served
    PROVE  PinnedIn(v)' /\ KeptIn(v)'
<1>1. \A h \in Handlers : Pins(h, v)' <=> Pins(h, v)
  BY DEF SameHolders, Pins, HoldersOf, HandlersOf, Busy, Current
<1>2. ASSUME NEW h \in Handlers, Pins(h, v), PinnedBy(h, v) PROVE PinnedBy(h, v)'
  <2>1. /\ handler'[h] = handler[h]
        /\ \A g \in HoldersOf(v)' : g \in HoldersOf(v) /\ handler'[g] = handler[g]
    BY <1>2 DEF SameHolders, Pins
  <2>2. \A t \in Listed(h, v)' : t \in Listed(h, v) /\ mask'[t] = mask[t]
    BY <2>1 DEF Listed
  <2> QED BY <1>2, <2>1, <2>2 DEF PinnedBy
<1>3. PinnedIn(v)'
  BY <1>1, <1>2 DEF PinnedIn
<1>4. KeptIn(v)'
  BY <1>1 DEF KeptIn
<1> QED BY <1>3, <1>4

\* What requests have read of VM v is out of date: none pins it in time, and
\* those for other VMs are as before.
LEMMA OutdateEffect ==
    ASSUME handler \in [Handlers -> HandlerStates], NEW v \in VMs, Outdate(v)
    PROVE  /\ handler' \in [Handlers -> HandlerStates]
           /\ \A w \in VMs : HandlersOf(w)' = HandlersOf(w)
           /\ \A h \in Handlers : Current(h)' => /\ Current(h) /\ handler[h].vm # v
                                                 /\ handler'[h] = handler[h]
           /\ \A h \in Handlers : ~Pins(h, v)'
           /\ \A w \in VMs \ {v} : SameHolders(w)
<1>1. ASSUME NEW h \in Handlers, h \notin HandlersOf(v)
      PROVE  handler'[h] = handler[h]
  BY <1>1 DEF Outdate
<1>2. ASSUME NEW h \in HandlersOf(v)
      PROVE  /\ h \in Handlers /\ handler'[h] \in HandlerStates /\ handler'[h] # Idle
             /\ handler'[h].vm = v /\ handler'[h].current = FALSE
  <2>1. h \in Handlers /\ handler[h] # Idle /\ handler[h].vm = v
    BY DEF HandlersOf, Busy
  <2>2. handler'[h] = [handler[h] EXCEPT !.current = FALSE]
    BY <2>1 DEF Outdate
  <2> QED BY <2>1, <2>2, OutdatedFields
<1>3. handler' \in [Handlers -> HandlerStates]
  <2>1. \A h \in Handlers : handler'[h] \in HandlerStates
    BY <1>1, <1>2
  <2> QED BY <2>1 DEF Outdate
<1>4. \A w \in VMs : HandlersOf(w)' = HandlersOf(w)
  BY <1>1, <1>2 DEF HandlersOf, Busy
<1>5. ASSUME NEW h \in Handlers, Current(h)'
      PROVE  Current(h) /\ handler[h].vm # v /\ handler'[h] = handler[h]
  BY <1>1, <1>2, <1>5 DEF Current, Busy, HandlersOf
<1>6. \A h \in Handlers : ~Pins(h, v)'
  BY <1>2, <1>4 DEF Pins, HoldersOf, Current
<1>7. ASSUME NEW w \in VMs \ {v} PROVE SameHolders(w)
  <2>1. \A h \in HandlersOf(w) : handler'[h] = handler[h]
    BY <1>1 DEF HandlersOf
  <2> QED BY <1>4, <2>1 DEF SameHolders, HoldersOf, Holding
<1> QED BY <1>3, <1>4, <1>5, <1>6, <1>7

-----------------------------------------------------------------------------
(* The environment                                                         *)

\* The service starts: nothing is pinned yet.
LEMMA InitInvariant == Init => IInv
<1> SUFFICES ASSUME Init PROVE IInv
  OBVIOUS
<1>1. TypeOK
  BY PinningAssumption DEF Init, TypeOK, HandlerStates, Running, TasksOf, Map!NoGrants
<1>2. Host
  <2>1. \A v \in manual : conf[v].manual
    BY DEF Init
  <2> QED BY <2>1 DEF Init, Host, Running, TasksOf
<1>3. InTime /\ LeftAlone /\ Pinned
  BY DEF Init, InTime, LeftAlone, Pinned, PinnedIn, KeptIn, Current, Pins, Busy, TasksOf
<1> QED BY <1>1, <1>2, <1>3 DEF IInv

\* A VM starts: it is not pinned, and nobody pins it in time.
LEMMA VMStartInvariant ==
    ASSUME IInv, NEW v \in VMs, NEW t \in Tasks, VMStart(v, t) PROVE IInv'
<1> USE DEF IInv
<1>1. /\ handler' \in [Handlers -> HandlerStates]
      /\ \A w \in VMs : HandlersOf(w)' = HandlersOf(w)
      /\ \A h \in Handlers : Current(h)' => /\ Current(h) /\ handler[h].vm # v
                                            /\ handler'[h] = handler[h]
      /\ \A h \in Handlers : ~Pins(h, v)'
      /\ \A w \in VMs \ {v} : SameHolders(w)
  BY OutdateEffect DEF TypeOK, VMStart
<1>2. /\ v # Nobody /\ owner[t] = Nobody /\ ~Running(v)
      /\ owner' = [owner EXCEPT ![t] = v]
      /\ pidfile' = [pidfile EXCEPT ![v] = {t}]
      /\ manual' \in {manual, manual \cup {v}}
      /\ v \in manual' => conf[v].manual \/ v \in manual
      /\ UNCHANGED <<ranked, granted, conf, child, mask, served, blame>>
  BY PinningAssumption DEF VMStart, mapVars
<1>3. \A w \in VMs \ {v} : TasksOf(w)' = TasksOf(w)
  BY <1>2, PinningAssumption DEF TypeOK, TasksOf
<1>4. TasksOf(v)' = {t} /\ TasksOf(v) = {}
  BY <1>2 DEF TypeOK, TasksOf, Running
<1>5. TypeOK'
  <2>1. changes' \in 0 .. MaxChanges
    BY PinningAssumption DEF TypeOK, VMStart, CountChange
  <2> QED BY <1>1, <1>2, <2>1 DEF TypeOK
<1>6. Host'
  <2>1. \A u \in Tasks : owner'[u] = Nobody => mask'[u] = {} /\ u \notin child'
    BY <1>2, PinningAssumption DEF Host, TypeOK
  <2>2. ASSUME NEW w \in VMs, Running(w)', NEW u \in pidfile'[w]
        PROVE  owner'[u] = w /\ u \notin child'
    <3>1. CASE w = v
      BY <1>2, <2>2, <3>1 DEF Host, TypeOK
    <3>2. CASE w # v
      <4>1. Running(w) /\ u \in pidfile[w] /\ u \in Tasks
        BY <1>2, <1>3, <2>2, <3>2 DEF Running, TypeOK
      <4>2. owner[u] = w /\ u \notin child
        BY <4>1 DEF Host
      <4> QED BY <1>2, <4>1, <4>2, PinningAssumption DEF TypeOK
    <3> QED BY <3>1, <3>2
  <2>3. \A w \in served' : Running(w)'
    BY <1>2, <1>3, <1>4 DEF Host, Running, TypeOK
  <2>4. \A w \in manual' : conf'[w].manual
    BY <1>2 DEF Host
  <2>5. \A w \in VMs : Running(w)' => pidfile'[w] # {}
    BY <1>2, <1>3 DEF Host, Running, TypeOK
  <2> QED BY <2>1, <2>2, <2>3, <2>4, <2>5 DEF Host
<1>7. InTime'
  <2> SUFFICES ASSUME NEW h \in Handlers, Current(h)' PROVE Knows(h)'
    BY DEF InTime
  <2>1. Knows(h) /\ handler[h].vm # v /\ handler'[h] = handler[h]
    BY <1>1 DEF InTime
  <2>2. handler[h].vm \in VMs \ {v}
    BY <1>1, <2>1, StateFields DEF Current, Busy, TypeOK
  <2>3. handler[h].at \in {"select", "threads", "children"} => handler[h].pid \in Tasks
    BY StateFields DEF TypeOK
  <2>4. \A u \in Tasks, w \in VMs : owner[u] = w => owner'[u] = w
    BY <1>2, PinningAssumption DEF TypeOK
  <2>5. Running(handler[h].vm) => Running(handler[h].vm)'
    BY <1>3, <2>1, <2>2 DEF Running
  <2>6. pidfile'[handler[h].vm] = pidfile[handler[h].vm]
    BY <1>2, <2>2 DEF TypeOK
  <2> QED BY <1>2, <2>1, <2>2, <2>3, <2>4, <2>5, <2>6 DEF Knows
<1>8. LeftAlone'
  BY <1>2, <1>3, <1>4 DEF LeftAlone, Host, TypeOK
<1>9. Pinned'
  <2>1. ASSUME NEW w \in VMs \ {v} PROVE PinnedIn(w)' /\ KeptIn(w)'
    BY <1>1, <1>2, <1>3, Undisturbed DEF Pinned
  <2>2. PinnedIn(v)' /\ KeptIn(v)'
    BY <1>1, <1>2 DEF PinnedIn, KeptIn, Host
  <2> QED BY <2>1, <2>2 DEF Pinned
<1> QED BY <1>5, <1>6, <1>7, <1>8, <1>9

\* A VM ends: its thread ids are free and what was known of it is forgotten.
LEMMA VMEndInvariant == ASSUME IInv, NEW v \in VMs, VMEnd(v) PROVE IInv'
<1> USE DEF IInv
<1>1. /\ handler' \in [Handlers -> HandlerStates]
      /\ \A h \in Handlers : Current(h)' => /\ Current(h) /\ handler[h].vm # v
                                            /\ handler'[h] = handler[h]
      /\ \A h \in Handlers : ~Pins(h, v)'
      /\ \A w \in VMs \ {v} : SameHolders(w)
  BY OutdateEffect DEF TypeOK, VMEnd
<1>2. /\ v # Nobody
      /\ owner' = [u \in Tasks |-> IF owner[u] = v THEN Nobody ELSE owner[u]]
      /\ child' = child \ TasksOf(v)
      /\ pidfile' \in {pidfile, [pidfile EXCEPT ![v] = {}]}
      /\ mask' = [u \in Tasks |-> IF owner[u] = v THEN {} ELSE mask[u]]
      /\ manual' = manual \ {v} /\ served' = served \ {v}
      /\ blame' = [blame EXCEPT ![v] = {}]
      /\ UNCHANGED <<ranked, granted, conf>>
  BY PinningAssumption DEF VMEnd, mapVars
<1>3. /\ \A w \in VMs \ {v} : TasksOf(w)' = TasksOf(w)
      /\ TasksOf(v)' = {}
  BY <1>2, PinningAssumption DEF TypeOK, TasksOf
<1>4. ASSUME NEW w \in VMs \ {v}, NEW u \in TasksOf(w)
      PROVE  mask'[u] = mask[u] /\ (u \in child' <=> u \in child) /\ owner'[u] = w
  BY <1>2 DEF TasksOf
<1>5. TypeOK'
  <2>1. changes' \in 0 .. MaxChanges
    BY PinningAssumption DEF TypeOK, VMEnd, CountChange
  <2> QED BY <1>1, <1>2, <2>1 DEF TypeOK
<1>6. Host'
  <2>1. \A u \in Tasks : owner'[u] = Nobody => mask'[u] = {} /\ u \notin child'
    BY <1>2 DEF Host, TypeOK, TasksOf
  <2>2. ASSUME NEW w \in VMs, Running(w)', NEW u \in pidfile'[w]
        PROVE  owner'[u] = w /\ u \notin child'
    <3>1. w # v /\ Running(w) /\ u \in pidfile[w] /\ u \in Tasks
      BY <1>2, <1>3, <2>2 DEF Running, TypeOK
    <3>2. owner[u] = w /\ u \notin child
      BY <3>1 DEF Host
    <3> QED BY <1>2, <3>1, <3>2
  <2>3. \A w \in served' : Running(w)'
    BY <1>2, <1>3 DEF Host, Running, TypeOK
  <2>4. \A w \in manual' : conf'[w].manual
    BY <1>2 DEF Host
  <2>5. \A w \in VMs : Running(w)' => pidfile'[w] # {}
    BY <1>2, <1>3 DEF Host, Running, TypeOK
  <2> QED BY <2>1, <2>2, <2>3, <2>4, <2>5 DEF Host
<1>7. InTime'
  <2> SUFFICES ASSUME NEW h \in Handlers, Current(h)' PROVE Knows(h)'
    BY DEF InTime
  <2>1. Knows(h) /\ handler[h].vm # v /\ handler'[h] = handler[h]
    BY <1>1 DEF InTime
  <2>2. handler[h].vm \in VMs \ {v}
    BY <1>1, <2>1, StateFields DEF Current, Busy, TypeOK
  <2>3. handler[h].at \in {"select", "threads", "children"} => handler[h].pid \in Tasks
    BY StateFields DEF TypeOK
  <2>4. \A u \in Tasks, w \in VMs \ {v} : owner[u] = w => owner'[u] = w
    BY <1>2
  <2>5. Running(handler[h].vm) => Running(handler[h].vm)'
    BY <1>3, <2>1, <2>2 DEF Running
  <2>6. pidfile'[handler[h].vm] = pidfile[handler[h].vm]
    BY <1>2, <2>2 DEF TypeOK
  <2> QED BY <1>2, <2>1, <2>2, <2>3, <2>4, <2>5, <2>6 DEF Knows
<1>8. LeftAlone'
  <2>1. ASSUME NEW w \in manual'
        PROVE  "stale" \in blame'[w] \/ \A u \in TasksOf(w)' : mask'[u] = {}
    <3>1. w \in manual /\ w \in VMs \ {v} /\ blame'[w] = blame[w]
      BY <1>2 DEF TypeOK
    <3> QED BY <1>3, <1>4, <3>1 DEF LeftAlone
  <2> QED BY <2>1 DEF LeftAlone
<1>9. Pinned'
  <2>1. ASSUME NEW w \in VMs \ {v} PROVE PinnedIn(w)' /\ KeptIn(w)'
    <3>1. granted'[w] = granted[w] /\ blame'[w] = blame[w] /\ (w \in served' => w \in served)
      BY <1>2 DEF TypeOK
    <3> QED BY <1>1, <1>3, <1>4, <3>1, Undisturbed DEF Pinned
  <2>2. PinnedIn(v)' /\ KeptIn(v)'
    BY <1>1, <1>2 DEF PinnedIn, KeptIn
  <2> QED BY <2>1, <2>2 DEF Pinned
<1> QED BY <1>5, <1>6, <1>7, <1>8, <1>9

\* A configuration changes: only a VM that keeps its affinity counts as one that
\* has one.
LEMMA ConfigureInvariant == ASSUME IInv, NEW v \in VMs, Configure(v) PROVE IInv'
<1> USE DEF IInv
<1>1. PICK c \in Configs : conf' = [conf EXCEPT ![v] = c]
  BY DEF Configure
<1>2. /\ UNCHANGED <<ranked, granted, owner, child, pidfile, mask, handler, served, blame>>
      /\ manual' = IF conf'[v].manual THEN manual ELSE manual \ {v}
  BY DEF Configure, mapVars
<1>3. TypeOK'
  <2>1. changes' \in 0 .. MaxChanges
    BY PinningAssumption DEF TypeOK, Configure, CountChange
  <2> QED BY <1>1, <1>2, <2>1 DEF TypeOK
<1>4. Host'
  <2>1. \A w \in manual' : conf'[w].manual
    BY <1>1, <1>2 DEF Host, TypeOK
  <2> QED BY <1>2, <2>1 DEF Host, Running, TasksOf
<1>5. InTime' /\ LeftAlone'
  BY <1>2 DEF InTime, Knows, Current, Busy, Running, TasksOf, LeftAlone
<1>6. Pinned'
  <2>1. \A w \in VMs : SameHolders(w) /\ TasksOf(w)' = TasksOf(w)
    BY <1>2 DEF SameHolders, HoldersOf, HandlersOf, Busy, Holding, TasksOf
  <2> QED BY <1>2, <2>1, Undisturbed DEF Pinned
<1> QED BY <1>3, <1>4, <1>5, <1>6

\* A new ranking withdraws every selection; a service that is started again has
\* no requests.
LEMMA RebuildInvariant == ASSUME IInv, Recalculate \/ Restart PROVE IInv'
<1> USE DEF IInv
<1>1. /\ UNCHANGED <<conf, owner, child, pidfile, mask, served, manual, blame>>
      /\ ranked' \in SUBSET CPUs /\ granted' = [v \in VMs |-> {}]
      /\ UNCHANGED handler \/ handler' = [h \in Handlers |-> Idle]
  BY DEF Recalculate, Restart, Map!Rebuild, Map!NoGrants
<1>2. TypeOK'
  <2>1. changes' \in 0 .. MaxChanges
    BY PinningAssumption DEF TypeOK, Recalculate, Restart, CountChange
  <2>2. Idle \in HandlerStates
    BY DEF HandlerStates
  <2> QED BY <1>1, <2>1, <2>2 DEF TypeOK
<1>3. Host' /\ LeftAlone'
  BY <1>1 DEF Host, Running, TasksOf, LeftAlone
<1>4. InTime'
  BY <1>1 DEF InTime, Knows, Current, Busy, Running, TasksOf
<1>5. ASSUME NEW v \in VMs PROVE PinnedIn(v)' /\ KeptIn(v)'
  <2>1. granted'[v] = {}
    BY <1>1
  <2>2. CASE UNCHANGED handler
    <3>1. SameHolders(v) /\ TasksOf(v)' = TasksOf(v)
      BY <1>1, <2>2 DEF SameHolders, HoldersOf, HandlersOf, Busy, Holding, TasksOf
    <3> QED BY <1>1, <2>1, <3>1, Undisturbed DEF Pinned
  <2>3. CASE handler' = [h \in Handlers |-> Idle]
    BY <2>1, <2>3 DEF PinnedIn, KeptIn, Pins, Current, Busy
  <2> QED BY <1>1, <2>2, <2>3
<1> QED BY <1>2, <1>3, <1>4, <1>5 DEF Pinned

\* A thread starts with the affinity of another: it is pinned like that one, or
\* a request whose listing it comes behind is to blame.
LEMMA SpawnInvariant ==
    ASSUME IInv, NEW v \in VMs, NEW t \in Tasks, NEW u \in Tasks, NEW c \in BOOLEAN,
           Spawn(v, t, u, c)
    PROVE  IInv'
<1> USE DEF IInv
<1> DEFINE missed == { h \in HandlersOf(v) :
                         /\ handler[h].at = "apply" \/ (handler[h].at = "children" /\ ~c)
                         /\ mask[u] # handler[h].cpus }
<1>1. /\ v # Nobody /\ owner[t] = Nobody /\ owner[u] = v
      /\ owner' = [owner EXCEPT ![t] = v]
      /\ child' = IF c THEN child \cup {t} ELSE child
      /\ mask' = [mask EXCEPT ![t] = mask[u]]
      /\ blame' = IF missed # {} THEN [blame EXCEPT ![v] = @ \cup {"missed"}] ELSE blame
      /\ UNCHANGED <<ranked, granted, conf, pidfile, handler, served, manual>>
  BY PinningAssumption DEF Spawn, mapVars
<1> HIDE DEF missed
<1>2. /\ \A w \in VMs \ {v} : TasksOf(w)' = TasksOf(w) /\ t \notin TasksOf(w)
      /\ TasksOf(v)' = TasksOf(v) \cup {t} /\ t \notin TasksOf(v) /\ u \in TasksOf(v)
  BY <1>1, PinningAssumption DEF TypeOK, TasksOf
<1>3. \A x \in Tasks : x # t => mask'[x] = mask[x] /\ (x \in child' <=> x \in child)
  BY <1>1 DEF TypeOK
<1>4. mask'[t] = mask[u] /\ t \notin child /\ (t \in child' <=> c)
  BY <1>1 DEF TypeOK, Host
<1>5. \A w \in VMs : /\ blame[w] \subseteq blame'[w]
                     /\ w # v => blame'[w] = blame[w]
                     /\ w = v /\ blame'[w] = {} => missed = {}
  BY <1>1 DEF TypeOK
<1>6. TypeOK'
  <2>1. changes' \in 0 .. MaxChanges
    BY PinningAssumption DEF TypeOK, Spawn, CountChange
  <2>2. blame' \in [VMs -> SUBSET Causes]
    BY <1>1 DEF TypeOK, Causes
  <2> QED BY <1>1, <2>1, <2>2 DEF TypeOK
<1>7. Host'
  <2>1. \A x \in Tasks : owner'[x] = Nobody => mask'[x] = {} /\ x \notin child'
    <3>1. \A x \in Tasks : owner'[x] = Nobody => x # t /\ owner[x] = Nobody
      BY <1>1 DEF TypeOK
    <3> QED BY <1>3, <3>1 DEF Host
  <2>2. ASSUME NEW w \in VMs, Running(w)', NEW x \in pidfile'[w]
        PROVE  owner'[x] = w /\ x \notin child'
    <3>1. Running(w)
      BY <1>2, <2>2 DEF Running
    <3>2. x \in Tasks /\ owner[x] = w /\ x \notin child
      BY <1>1, <2>2, <3>1 DEF Host, TypeOK
    <3>3. x # t
      BY <1>1, <3>2, PinningAssumption
    <3> QED BY <1>1, <1>3, <3>2, <3>3 DEF TypeOK
  <2>3. \A w \in served' : Running(w)'
    BY <1>1, <1>2 DEF Host, Running, TypeOK
  <2>4. \A w \in manual' : conf'[w].manual
    BY <1>1 DEF Host
  <2>5. \A w \in VMs : Running(w)' => pidfile'[w] # {}
    BY <1>1, <1>2 DEF Host, Running
  <2> QED BY <2>1, <2>2, <2>3, <2>4, <2>5 DEF Host
<1>8. InTime'
  <2> SUFFICES ASSUME NEW h \in Handlers, Current(h)' PROVE Knows(h)'
    BY DEF InTime
  <2>1. Knows(h) /\ handler' = handler /\ handler[h].vm \in VMs
    BY <1>1, StateFields DEF InTime, Current, Busy, TypeOK
  <2>2. handler[h].at \in {"select", "threads", "children"} => handler[h].pid \in Tasks
    BY StateFields DEF TypeOK
  <2>3. \A x \in Tasks, w \in VMs : owner[x] = w =>
           x # t /\ owner'[x] = w /\ (x \in child' <=> x \in child)
    BY <1>1, <1>3, PinningAssumption DEF TypeOK
  <2>4. Running(handler[h].vm) => Running(handler[h].vm)'
    BY <1>2, <2>1 DEF Running
  <2> QED BY <1>1, <2>1, <2>2, <2>3, <2>4 DEF Knows
<1>9. LeftAlone'
  <2>1. ASSUME NEW w \in manual'
        PROVE  "stale" \in blame'[w] \/ \A x \in TasksOf(w)' : mask'[x] = {}
    <3>1. w \in manual /\ w \in VMs
      BY <1>1 DEF TypeOK
    <3>2. CASE "stale" \in blame[w]
      BY <1>5, <3>1, <3>2
    <3>3. CASE \A x \in TasksOf(w) : mask[x] = {}
      BY <1>2, <1>3, <1>4, <3>1, <3>3 DEF TasksOf
    <3> QED BY <3>1, <3>2, <3>3 DEF LeftAlone
  <2> QED BY <2>1 DEF LeftAlone
<1>10. \A w \in VMs : SameHolders(w)
  BY <1>1 DEF SameHolders, HoldersOf, HandlersOf, Busy, Holding
<1>11. \A w \in VMs : \A h \in Handlers : Pins(h, w)' <=> Pins(h, w)
  BY <1>1 DEF Pins, HoldersOf, HandlersOf, Busy, Holding, Current
<1>12. ASSUME NEW w \in VMs \ {v} PROVE PinnedIn(w)' /\ KeptIn(w)'
  <2>1. \A x \in TasksOf(w) : mask'[x] = mask[x] /\ (x \in child' <=> x \in child)
    BY <1>2, <1>3 DEF TasksOf
  <2> QED BY <1>1, <1>2, <1>5, <1>10, <2>1, Undisturbed DEF Pinned
<1>13. ASSUME blame'[v] = {}, NEW h \in Handlers, Pins(h, v) PROVE PinnedBy(h, v)'
  <2>1. blame[v] = {} /\ missed = {} /\ PinnedBy(h, v)
    BY <1>5, <1>13 DEF Pinned, PinnedIn
  <2>2. h \in HandlersOf(v)
    BY <1>13 DEF Pins, HoldersOf
  <2>3. ASSUME handler[h].at \in {"children", "apply"}, NEW x \in Listed(h, v)'
        PROVE  x \in handler[h].todo \/ mask'[x] = handler[h].cpus
    <3>1. CASE x = t
      <4>1. handler[h].at = "apply" \/ (handler[h].at = "children" /\ ~c)
        BY <1>1, <1>4, <2>3, <3>1 DEF Listed
      <4> QED BY <1>4, <2>1, <2>2, <3>1, <4>1 DEF missed
    <3>2. CASE x # t
      <4>1. x \in Listed(h, v) /\ x \in Tasks
        BY <1>1, <1>2, <1>3, <2>3, <3>2 DEF Listed, TasksOf
      <4> QED BY <1>3, <2>1, <2>3, <3>2, <4>1 DEF PinnedBy
    <3> QED BY <3>1, <3>2
  <2>4. HoldersOf(v)' = HoldersOf(v)
    BY <1>10 DEF SameHolders
  <2> QED BY <1>1, <2>1, <2>3, <2>4 DEF PinnedBy
<1>14. KeptIn(v)'
  <2> SUFFICES ASSUME v \in served', blame'[v] = {}, granted'[v] # {},
                      ~(\E h \in Handlers : Pins(h, v)'), NEW x \in TasksOf(v)'
               PROVE  mask'[x] = granted'[v]
    BY DEF KeptIn
  <2>1. \A y \in TasksOf(v) : mask[y] = granted[v]
    BY <1>1, <1>5, <1>11 DEF Pinned, KeptIn
  <2> QED BY <1>1, <1>2, <1>3, <1>4, <2>1 DEF TasksOf
<1>15. PinnedIn(v)'
  BY <1>11, <1>13 DEF PinnedIn
<1> QED BY <1>6, <1>7, <1>8, <1>9, <1>12, <1>14, <1>15 DEF Pinned

\* A thread or child that ends is not the main process: its VM runs on.
LEMMA ThreadEndInvariant ==
    ASSUME IInv, NEW v \in VMs, NEW t \in Tasks, ThreadEnd(v, t) PROVE IInv'
<1> USE DEF IInv
<1>1. /\ v # Nobody /\ owner[t] = v /\ t \notin pidfile[v]
      /\ owner' = [owner EXCEPT ![t] = Nobody]
      /\ child' = child \ {t}
      /\ mask' = [mask EXCEPT ![t] = {}]
      /\ UNCHANGED <<ranked, granted, conf, pidfile, handler, served, manual, blame>>
  BY PinningAssumption DEF ThreadEnd, mapVars
<1>2. \A w \in VMs : TasksOf(w)' = TasksOf(w) \ {t}
  BY <1>1, PinningAssumption DEF TypeOK, TasksOf
<1>3. \A x \in Tasks : x # t => /\ mask'[x] = mask[x] /\ owner'[x] = owner[x]
                                /\ x \in child' <=> x \in child
  BY <1>1 DEF TypeOK
<1>4. TypeOK'
  <2>1. changes' \in 0 .. MaxChanges
    BY PinningAssumption DEF TypeOK, ThreadEnd, CountChange
  <2> QED BY <1>1, <2>1 DEF TypeOK
<1>5. \A w \in VMs : Running(w) => /\ t \notin pidfile[w] /\ pidfile[w] \subseteq Tasks
                                   /\ pidfile[w] \subseteq TasksOf(w)
  BY <1>1 DEF Host, TypeOK, TasksOf
<1>6. \A w \in VMs : Running(w)' <=> Running(w)
  BY <1>2, <1>5 DEF Host, Running
<1>7. Host'
  <2>1. \A x \in Tasks : owner'[x] = Nobody => mask'[x] = {} /\ x \notin child'
    BY <1>1, <1>3 DEF Host, TypeOK
  <2>2. ASSUME NEW w \in VMs, Running(w)', NEW x \in pidfile'[w]
        PROVE  owner'[x] = w /\ x \notin child'
    <3>1. x # t /\ x \in Tasks /\ owner[x] = w /\ x \notin child
      BY <1>1, <1>5, <1>6, <2>2 DEF Host
    <3> QED BY <1>3, <3>1
  <2> QED BY <1>1, <1>6, <2>1, <2>2 DEF Host, TypeOK
<1>8. InTime'
  <2> SUFFICES ASSUME NEW h \in Handlers, Current(h)' PROVE Knows(h)'
    BY DEF InTime
  <2>1. Knows(h) /\ handler' = handler /\ handler[h].vm \in VMs
    BY <1>1, StateFields DEF InTime, Current, Busy, TypeOK
  <2>2. ASSUME handler[h].at \in {"select", "threads", "children"}
        PROVE  /\ handler[h].pid \in Tasks /\ handler[h].pid # t
               /\ handler[h].pid \notin child
    <3>1. handler[h].pid \in Tasks
      BY <2>2, StateFields DEF TypeOK
    <3> QED BY <1>1, <2>1, <2>2, <3>1 DEF Knows
  <2> QED BY <1>1, <1>3, <1>6, <2>1, <2>2 DEF Knows
<1>9. LeftAlone'
  BY <1>1, <1>2, <1>3 DEF LeftAlone, TasksOf, TypeOK
<1>10. ASSUME NEW w \in VMs PROVE PinnedIn(w)' /\ KeptIn(w)'
  <2>1. SameHolders(w)
    BY <1>1 DEF SameHolders, HoldersOf, HandlersOf, Busy, Holding
  <2>2. \A x \in TasksOf(w)' : mask'[x] = mask[x] /\ (x \in child' <=> x \in child)
    BY <1>2, <1>3 DEF TasksOf
  <2> QED BY <1>1, <1>2, <2>1, <2>2, Undisturbed DEF Pinned
<1> QED BY <1>4, <1>7, <1>8, <1>9, <1>10 DEF Pinned

-----------------------------------------------------------------------------
(* The requests                                                            *)

\* What a request does before it holds a selection, or instead of that: no VM's
\* pinning depends on what it has read, if that is true.
LEMMA ReadInvariant ==
    ASSUME IInv, NEW h \in Handlers, ~Holding(h), NEW r \in HandlerStates,
           r.at \in {"idle", "pid", "select"}, Become(h, r),
           Current(h)' => Knows(h)',
           UNCHANGED <<mapVars, envVars, mask, served, blame>>
    PROVE  IInv'
<1> USE DEF IInv, mapVars, envVars
<1>1. /\ handler' = [handler EXCEPT ![h] = r] /\ handler'[h] = r
      /\ \A g \in Handlers \ {h} : handler'[g] = handler[g]
  BY DEF Become, TypeOK
<1>2. TypeOK'
  BY <1>1 DEF TypeOK
<1>3. Host' /\ LeftAlone'
  BY DEF Host, Running, TasksOf, LeftAlone
<1>4. InTime'
  <2>1. ASSUME NEW g \in Handlers \ {h}, Current(g)' PROVE Knows(g)'
    BY <1>1, <2>1 DEF InTime, Current, Busy, Knows, Running, TasksOf
  <2> QED BY <2>1 DEF InTime
<1>5. ASSUME NEW v \in VMs PROVE PinnedIn(v)' /\ KeptIn(v)'
  <2>1. h \notin HoldersOf(v) /\ h \notin HoldersOf(v)'
    BY <1>1 DEF HoldersOf, Holding
  <2>2. SameHolders(v)
    BY <1>1, <2>1 DEF SameHolders, HoldersOf, HandlersOf, Busy, Holding
  <2>3. TasksOf(v)' = TasksOf(v)
    BY DEF TasksOf
  <2> QED BY <2>2, <2>3, Undisturbed DEF Pinned
<1> QED BY <1>2, <1>3, <1>4, <1>5 DEF Pinned

\* A request that is made has read the configuration as it is.
LEMMA RequestInvariant ==
    ASSUME IInv, NEW h \in Handlers, NEW v \in VMs, Request(h, v) PROVE IInv'
<1> DEFINE r == [at |-> "pid", vm |-> v, want |-> conf[v], current |-> TRUE]
<1>1. handler[h] = Idle /\ Become(h, r)
  BY DEF Request
<1>2. UNCHANGED <<mapVars, envVars, mask, served, blame>>
  BY DEF Request
<1>3. r \in HandlerStates
  BY DEF IInv, TypeOK, HandlerStates
<1>4. handler'[h] = r
  BY <1>1 DEF Become, IInv, TypeOK
<1>5. Knows(h)'
  BY <1>2, <1>4 DEF Knows, envVars, IInv, Host
<1>6. ~Holding(h)
  BY <1>1 DEF Holding, Idle
<1> QED BY <1>1, <1>2, <1>3, <1>5, <1>6, ReadInvariant

\* A pid file is read: a request that is in time finds its VM's main process.
LEMMA ReadPidInvariant == ASSUME IInv, NEW h \in Handlers, ReadPid(h) PROVE IInv'
<1> DEFINE v == handler[h].vm
<1>1. handler[h].at = "pid" /\ UNCHANGED <<mapVars, envVars, mask, served, blame>>
  BY DEF ReadPid
<1>2. /\ handler[h] \in HandlerStates /\ handler[h] # Idle /\ ~Holding(h)
      /\ v \in VMs /\ handler[h].current \in BOOLEAN /\ handler[h].want \in Configs
  BY <1>1, StateFields DEF IInv, TypeOK, Idle, Holding
<1>3. CASE Finish(h)
  <2>1. Become(h, Idle) /\ Idle \in HandlerStates /\ Idle.at = "idle"
    BY <1>3 DEF Finish, HandlerStates, Idle
  <2>2. handler'[h] = Idle
    BY <2>1 DEF Become, IInv, TypeOK
  <2> QED BY <1>1, <1>2, <2>1, <2>2, ReadInvariant DEF Current, Busy
<1>4. ASSUME NEW t \in pidfile[v], owner[t] # Nobody, ~handler[h].want.manual,
             Become(h, [at |-> "select", vm |-> v, size |-> handler[h].want.size, pid |-> t,
                        current |-> handler[h].current /\ owner[t] = v])
      PROVE  IInv'
  <2> DEFINE r == [at |-> "select", vm |-> v, size |-> handler[h].want.size, pid |-> t,
                   current |-> handler[h].current /\ owner[t] = v]
  <2>1. t \in Tasks /\ handler[h].want.size \in 1 .. MaxSize
    BY <1>2 DEF IInv, TypeOK, Configs
  <2>2. r \in HandlerStates
    BY <1>2, <2>1 DEF HandlerStates
  <2>3. handler'[h] = r
    BY <1>4 DEF Become, IInv, TypeOK
  <2>4. ASSUME Current(h)' PROVE Knows(h)'
    <3>1. handler[h].current /\ owner[t] = v
      <4>1. handler'[h].current = (handler[h].current /\ owner[t] = v)
        BY <2>3
      <4> QED BY <2>4, <4>1 DEF Current
    <3>2. v \notin manual
      BY <1>1, <1>2, <1>4, <3>1 DEF IInv, InTime, Current, Busy, Knows
    <3>3. t \notin child /\ t \in pidfile[v]
      BY <1>2, <2>1, <3>1 DEF IInv, Host, Running, TasksOf
    <3> QED BY <1>1, <2>3, <3>1, <3>2, <3>3 DEF Knows, envVars
  <2>5. r.at = "select" /\ Become(h, r)
    BY <1>4
  <2> HIDE DEF r
  <2> QED BY <1>1, <1>2, <2>2, <2>4, <2>5, ReadInvariant
<1> QED BY <1>3, <1>4 DEF ReadPid

\* A request has its selection: it pins the VM alone, or with others that have
\* the same, or it is to blame.
LEMMA HoldInvariant ==
    ASSUME IInv, NEW h \in Handlers, handler[h].at = "select",
           NEW v \in VMs, v = handler[h].vm,
           NEW S \in (SUBSET CPUs) \ {{}}, Hold(h, S),
           granted' = [granted EXCEPT ![v] = S],
           UNCHANGED <<ranked, envVars, mask, served>>
    PROVE  IInv'
<1> USE DEF IInv, envVars
<1> DEFINE others == { g \in HandlersOf(v) \ {h} : Holding(g) }
<1>1. /\ handler[h] \in HandlerStates /\ handler[h] # Idle
      /\ v \in VMs /\ handler[h].current \in BOOLEAN /\ handler[h].pid \in Tasks
  BY StateFields DEF TypeOK, Idle
<1>2. /\ handler' = [handler EXCEPT ![h] = [at |-> "threads", vm |-> v, pid |-> handler[h].pid,
                                            cpus |-> S, current |-> handler[h].current]]
      /\ blame' = [blame EXCEPT ![v] =
              (IF handler[h].current /\ others = {} THEN {} ELSE @)
                \cup (IF \E g \in others : handler[g].cpus # S THEN {"missed"} ELSE {})
                \cup (IF ~handler[h].current /\ S # granted[v] THEN {"stale"} ELSE {})]
  BY DEF Hold, Become
<1>3. /\ handler'[h].at = "threads" /\ handler'[h].vm = v /\ handler'[h].pid = handler[h].pid
      /\ handler'[h].cpus = S /\ handler'[h].current = handler[h].current
      /\ handler'[h] \in HandlerStates /\ handler'[h] # Idle
      /\ \A g \in Handlers \ {h} : handler'[g] = handler[g]
  BY <1>1, <1>2 DEF TypeOK, HandlerStates, Idle
<1>4. /\ \A w \in VMs \ {v} : blame'[w] = blame[w] /\ granted'[w] = granted[w]
      /\ granted'[v] = S /\ S # {}
      /\ \A w \in VMs : TasksOf(w)' = TasksOf(w)
  BY <1>1, <1>2 DEF TypeOK, TasksOf
<1>5. /\ blame'[v] = {} => \A g \in others : handler[g].cpus = S
      /\ ~(handler[h].current /\ others = {}) => blame[v] \subseteq blame'[v]
      /\ blame'[v] = {} /\ ~handler[h].current => S = granted[v]
  BY <1>1, <1>2 DEF TypeOK
<1>6. TypeOK'
  <2>1. blame' \in [VMs -> SUBSET Causes]
    BY <1>1, <1>2 DEF TypeOK, Causes
  <2>2. handler' \in [Handlers -> HandlerStates]
    BY <1>2, <1>3 DEF TypeOK
  <2>3. granted' \in [VMs -> SUBSET CPUs]
    BY DEF TypeOK
  <2> QED BY <2>1, <2>2, <2>3 DEF TypeOK
<1>7. Host'
  BY DEF Host, Running, TasksOf
<1>8. Current(h)' <=> Current(h)
  BY <1>1, <1>3 DEF Current, Busy
<1>9. InTime'
  <2>1. ASSUME NEW g \in Handlers \ {h}, Current(g)' PROVE Knows(g)'
    BY <1>3, <2>1 DEF InTime, Current, Busy, Knows, Running, TasksOf
  <2>2. ASSUME Current(h)' PROVE Knows(h)'
    BY <1>3, <1>8, <2>2 DEF InTime, Knows
  <2> QED BY <2>1, <2>2 DEF InTime
<1>10. LeftAlone'
  <2>1. handler[h].current => v \notin manual
    BY <1>1 DEF InTime, Knows, Current, Busy
  <2>2. \A w \in manual : w \in VMs /\ blame[w] \subseteq blame'[w]
    BY <1>4, <1>5, <2>1 DEF TypeOK
  <2> QED BY <2>2 DEF LeftAlone, TasksOf
<1> HIDE DEF others
<1>11. /\ \A w \in VMs \ {v} : SameHolders(w)
       /\ HoldersOf(v)' = others \cup {h} /\ h \notin HoldersOf(v) /\ h \notin others
       /\ others = HoldersOf(v) /\ others \subseteq Handlers
  <2>1. ~Holding(h) /\ Holding(h)' /\ Busy(h)'
    BY <1>3 DEF Holding, Busy
  <2>2. \A g \in Handlers \ {h} : (Holding(g)' <=> Holding(g)) /\ (Busy(g)' <=> Busy(g))
    BY <1>3 DEF Holding, Busy
  <2> QED BY <1>1, <1>3, <2>1, <2>2 DEF SameHolders, HoldersOf, HandlersOf, others
<1>12. \A g \in Handlers \ {h} : Pins(g, v)' <=> Pins(g, v)
  BY <1>3, <1>11 DEF Pins, Current, Busy
<1>13. ASSUME NEW w \in VMs \ {v} PROVE PinnedIn(w)' /\ KeptIn(w)'
  BY <1>4, <1>11, Undisturbed DEF Pinned
<1>14. PinnedIn(v)'
  <2> SUFFICES ASSUME blame'[v] = {}, NEW g \in Handlers, Pins(g, v)' PROVE PinnedBy(g, v)'
    BY DEF PinnedIn
  <2>1. \A k \in HoldersOf(v)' : handler'[k].cpus = S
    BY <1>3, <1>5, <1>11
  <2>2. g \in HoldersOf(v)'
    BY DEF Pins
  <2>3. ASSUME handler'[g].at \in {"children", "apply"}, NEW t \in Listed(g, v)'
        PROVE  t \in handler'[g].todo \/ mask'[t] = handler'[g].cpus
    <3>1. g # h /\ handler'[g] = handler[g]
      BY <1>3, <2>3
    <3>2. g \in others /\ Pins(g, v)
      BY <1>11, <1>12, <2>2, <3>1
    <3>3. blame[v] = {}
      BY <1>5, <3>2
    <3>4. PinnedBy(g, v)
      BY <1>1, <3>2, <3>3 DEF Pinned, PinnedIn
    <3>5. t \in Listed(g, v)
      BY <2>3, <3>1 DEF Listed, TasksOf
    <3> QED BY <2>3, <3>1, <3>4, <3>5 DEF PinnedBy
  <2> QED BY <1>4, <2>1, <2>2, <2>3 DEF PinnedBy
<1>15. KeptIn(v)'
  <2> SUFFICES ASSUME v \in served', blame'[v] = {}, granted'[v] # {},
                      ~(\E g \in Handlers : Pins(g, v)'), NEW t \in TasksOf(v)'
               PROVE  mask'[t] = granted'[v]
    BY DEF KeptIn
  <2>1. ~handler[h].current /\ ~Pins(h, v)
    BY <1>3, <1>11 DEF Pins, Current, Busy
  <2>2. blame[v] = {} /\ granted[v] = S
    BY <1>5, <2>1
  <2>3. ~(\E g \in Handlers : Pins(g, v))
    BY <1>12, <2>1
  <2> QED BY <1>1, <1>4, <2>2, <2>3 DEF Pinned, KeptIn
<1> QED BY <1>6, <1>7, <1>9, <1>10, <1>13, <1>14, <1>15 DEF Pinned

\* A set of at least one CPU is not empty.
LEMMA SomeCPU == ASSUME NEW S \in SUBSET CPUs, Cardinality(S) >= 1 PROVE S # {}
BY FS_EmptySet

\* A selection fails, is the VM's already, or is granted now.
LEMMA SelectInvariant == ASSUME IInv, NEW h \in Handlers, Select(h) PROVE IInv'
<1> DEFINE v == handler[h].vm
           n == handler[h].size
<1>1. handler[h].at = "select" /\ UNCHANGED <<ranked, envVars, mask, served>>
  BY DEF Select
<1>2. v \in VMs /\ n >= 1 /\ handler[h] # Idle /\ ~Holding(h)
  BY <1>1, StateFields DEF IInv, TypeOK, Idle, Holding
<1>3. granted \in [VMs -> SUBSET CPUs] /\ ranked \subseteq CPUs
  BY DEF IInv, TypeOK
<1>4. CASE Finish(h) /\ UNCHANGED <<granted, blame>>
  <2>1. Become(h, Idle) /\ Idle \in HandlerStates /\ Idle.at = "idle"
    BY <1>4 DEF Finish, HandlerStates, Idle
  <2>2. handler'[h] = Idle
    BY <2>1 DEF Become, IInv, TypeOK
  <2> QED BY <1>1, <1>2, <1>4, <2>1, <2>2, ReadInvariant DEF Current, Busy, mapVars
<1>5. CASE Cardinality(granted[v]) = n /\ Hold(h, granted[v]) /\ UNCHANGED granted
  <2>1. granted[v] \in (SUBSET CPUs) \ {{}}
    BY <1>2, <1>3, <1>5, SomeCPU
  <2>2. granted' = [granted EXCEPT ![v] = granted[v]]
    BY <1>3, <1>5
  <2> QED BY <1>1, <1>2, <1>5, <2>1, <2>2, HoldInvariant
<1>6. ASSUME NEW S \in SUBSET ranked, Map!Grant(v, S), Hold(h, S) PROVE IInv'
  <2>1. S \in (SUBSET CPUs) \ {{}} /\ granted' = [granted EXCEPT ![v] = S]
    BY <1>3, <1>6 DEF Map!Grant
  <2> QED BY <1>1, <1>2, <1>6, <2>1, HoldInvariant
<1> QED BY <1>4, <1>5, <1>6 DEF Select

\* A request lists threads: it has every thread that it has to set, if it is in
\* time and those it had before were all.
LEMMA ListInvariant ==
    ASSUME IInv, NEW h \in Handlers, NEW v \in VMs, handler[h].vm = v, Holding(h),
           NEW r \in HandlerStates, r.at \in {"children", "apply"}, r.vm = v,
           r.cpus = handler[h].cpus, r.current = handler[h].current, Become(h, r),
           Current(h) => Knows(h)',
           Current(h) /\ PinnedBy(h, v) =>
              \A t \in Listed(h, v)' : t \in r.todo \/ mask[t] = r.cpus,
           UNCHANGED <<mapVars, envVars, mask, served, blame>>
    PROVE  IInv'
<1> USE DEF IInv, mapVars, envVars
<1>1. /\ handler' = [handler EXCEPT ![h] = r] /\ handler'[h] = r
      /\ \A g \in Handlers \ {h} : handler'[g] = handler[g]
      /\ Busy(h) /\ Busy(h)' /\ Holding(h)'
  BY DEF Become, TypeOK, Busy, Holding, Idle
<1>2. TypeOK'
  BY <1>1 DEF TypeOK
<1>3. Host' /\ LeftAlone'
  BY DEF Host, Running, TasksOf, LeftAlone
<1>4. \A g \in Handlers : Current(g)' => Current(g)
  BY <1>1 DEF Current, Busy
<1>5. InTime'
  <2>1. ASSUME NEW g \in Handlers \ {h}, Current(g)' PROVE Knows(g)'
    BY <1>1, <1>4, <2>1 DEF InTime, Knows, Running, TasksOf
  <2> QED BY <1>4, <2>1 DEF InTime
<1>6. \A w \in VMs : TasksOf(w)' = TasksOf(w)
  BY DEF TasksOf
<1>7. ASSUME NEW w \in VMs \ {v} PROVE PinnedIn(w)' /\ KeptIn(w)'
  <2>1. SameHolders(w)
    BY <1>1 DEF SameHolders, HoldersOf, HandlersOf, Busy, Holding
  <2> QED BY <1>6, <2>1, Undisturbed DEF Pinned
<1>8. /\ HoldersOf(v)' = HoldersOf(v)
      /\ \A g \in HoldersOf(v) : handler'[g].cpus = handler[g].cpus
  BY <1>1 DEF HoldersOf, HandlersOf, Busy, Holding
<1>9. \A g \in Handlers : Pins(g, v)' <=> Pins(g, v)
  BY <1>1, <1>8 DEF Pins, Current, Busy
<1>10. PinnedIn(v)'
  <2> SUFFICES ASSUME blame'[v] = {}, NEW g \in Handlers, Pins(g, v)' PROVE PinnedBy(g, v)'
    BY DEF PinnedIn
  <2>1. g \in HoldersOf(v) /\ Current(g) /\ PinnedBy(g, v)
    BY <1>9 DEF Pinned, PinnedIn, Pins
  <2>2. ASSUME handler'[g].at \in {"children", "apply"}, NEW t \in Listed(g, v)'
        PROVE  t \in handler'[g].todo \/ mask'[t] = handler'[g].cpus
    <3>1. CASE g = h
      BY <1>1, <2>1, <2>2, <3>1
    <3>2. CASE g # h
      <4>1. handler'[g] = handler[g] /\ t \in Listed(g, v)
        BY <1>1, <1>6, <2>2, <3>2 DEF Listed
      <4> QED BY <2>1, <2>2, <4>1 DEF PinnedBy
    <3> QED BY <3>1, <3>2
  <2> QED BY <1>8, <2>1, <2>2 DEF PinnedBy
<1>11. KeptIn(v)'
  BY <1>6, <1>9 DEF Pinned, KeptIn
<1> QED BY <1>2, <1>3, <1>5, <1>7, <1>10, <1>11 DEF Pinned

\* A request lists the threads of the process of its VM, if it is in time.
LEMMA ListThreadsInvariant == ASSUME IInv, NEW h \in Handlers, ListThreads(h) PROVE IInv'
<1>1. handler[h].at = "threads" /\ UNCHANGED <<mapVars, envVars, mask, served, blame>>
  BY DEF ListThreads
<1>2. /\ handler[h] # Idle /\ Holding(h) /\ handler[h].vm \in VMs
      /\ handler[h].current \in BOOLEAN /\ handler[h].pid \in Tasks
      /\ handler[h].cpus \in (SUBSET CPUs) \ {{}}
  BY <1>1, StateFields DEF IInv, TypeOK, Idle, Holding
<1>3. PICK v \in VMs : v = handler[h].vm
  BY <1>2
<1>4. PICK todo \in SUBSET Tasks :
         todo = IF owner[handler[h].pid] = Nobody THEN {handler[h].pid}
                                                  ELSE Threads(handler[h].pid)
  BY <1>2 DEF Threads, TasksOf
<1>5. PICK r \in HandlerStates :
         r = [at |-> "children", vm |-> v, pid |-> handler[h].pid, cpus |-> handler[h].cpus,
              todo |-> todo, current |-> handler[h].current]
  BY <1>2, <1>3, <1>4 DEF HandlerStates
<1>6. /\ r.at = "children" /\ r.vm = v /\ r.pid = handler[h].pid /\ r.todo = todo
      /\ r.cpus = handler[h].cpus /\ r.current = handler[h].current
      /\ Become(h, r) /\ handler'[h] = r
  BY <1>3, <1>4, <1>5 DEF ListThreads, Become, IInv, TypeOK
<1>7. ASSUME Current(h)
      PROVE  Knows(h)' /\ \A t \in Listed(h, v)' : t \in r.todo \/ mask[t] = r.cpus
  <2>1. Knows(h)
    BY <1>7 DEF IInv, InTime
  <2>2. owner[handler[h].pid] = v /\ handler[h].pid \notin child /\ v \notin manual
        /\ handler[h].pid \in pidfile[v]
    BY <1>1, <1>3, <2>1 DEF Knows
  <2>3. todo = TasksOf(v) \ child
    BY <1>3, <1>4, <2>2, PinningAssumption DEF Threads
  <2> QED BY <1>1, <1>6, <2>2, <2>3 DEF Knows, Listed, TasksOf, envVars
<1> QED BY <1>1, <1>2, <1>3, <1>6, <1>7, ListInvariant

\* A request adds the children of the process to the threads it has listed.
LEMMA ListChildrenInvariant == ASSUME IInv, NEW h \in Handlers, ListChildren(h) PROVE IInv'
<1>1. handler[h].at = "children" /\ UNCHANGED <<mapVars, envVars, mask, served, blame>>
  BY DEF ListChildren
<1>2. /\ handler[h] # Idle /\ Holding(h) /\ handler[h].vm \in VMs
      /\ handler[h].current \in BOOLEAN /\ handler[h].pid \in Tasks
      /\ handler[h].cpus \in (SUBSET CPUs) \ {{}} /\ handler[h].todo \in SUBSET Tasks
  BY <1>1, StateFields DEF IInv, TypeOK, Idle, Holding
<1>3. PICK v \in VMs : v = handler[h].vm
  BY <1>2
<1>4. PICK todo \in SUBSET Tasks :
         todo = handler[h].todo \cup (IF owner[handler[h].pid] = Nobody THEN {}
                                                        ELSE Children(handler[h].pid))
  BY <1>2 DEF Children, TasksOf
<1>5. PICK r \in HandlerStates :
         r = [at |-> "apply", vm |-> v, cpus |-> handler[h].cpus,
              todo |-> todo, current |-> handler[h].current]
  BY <1>2, <1>3, <1>4 DEF HandlerStates
<1>6. /\ r.at = "apply" /\ r.vm = v /\ r.todo = todo
      /\ r.cpus = handler[h].cpus /\ r.current = handler[h].current
      /\ Become(h, r) /\ handler'[h] = r
  BY <1>3, <1>4, <1>5 DEF ListChildren, Become, IInv, TypeOK
<1>7. ASSUME Current(h)
      PROVE  /\ Knows(h)'
             /\ PinnedBy(h, v) => \A t \in Listed(h, v)' : t \in r.todo \/ mask[t] = r.cpus
  <2>1. Knows(h)
    BY <1>7 DEF IInv, InTime
  <2>2. owner[handler[h].pid] = v /\ handler[h].pid \notin child /\ v \notin manual
        /\ handler[h].pid \in pidfile[v]
    BY <1>1, <1>3, <2>1 DEF Knows
  <2>3. todo = handler[h].todo \cup (TasksOf(v) \cap child)
    BY <1>3, <1>4, <2>2, PinningAssumption DEF Children
  <2>4. Knows(h)'
    BY <1>1, <1>2, <1>6, <2>2 DEF Knows, Running, TasksOf, envVars
  <2>5. ASSUME PinnedBy(h, v), NEW t \in Listed(h, v)'
        PROVE  t \in r.todo \/ mask[t] = r.cpus
    <3>1. t \in TasksOf(v)
      BY <1>1, <1>6, <2>5 DEF Listed, TasksOf, envVars
    <3>2. CASE t \in child
      BY <1>6, <2>3, <3>1, <3>2
    <3>3. CASE t \notin child
      BY <1>1, <1>6, <2>3, <2>5, <3>1, <3>3 DEF PinnedBy, Listed
    <3> QED BY <3>2, <3>3
  <2> QED BY <2>4, <2>5
<1> QED BY <1>1, <1>2, <1>3, <1>6, <1>7, ListInvariant

\* One thread is tried: it has the selection of the request that pins its VM
\* now, or someone is to blame.
LEMMA SetAffinityInvariant ==
    ASSUME IInv, NEW h \in Handlers, NEW t \in Tasks, SetAffinity(h, t) PROVE IInv'
<1> USE DEF IInv, mapVars, envVars
<1>1. /\ handler[h].at = "apply" /\ t \in handler[h].todo
      /\ UNCHANGED <<mapVars, envVars, served>>
      /\ handler' = [handler EXCEPT ![h] = [handler[h] EXCEPT !.todo = @ \ {t}]]
  BY DEF SetAffinity, Become
<1>2. /\ handler[h] # Idle /\ Holding(h) /\ handler[h].vm \in VMs
      /\ handler[h].current \in BOOLEAN /\ handler[h].cpus \in (SUBSET CPUs) \ {{}}
  BY <1>1, StateFields DEF TypeOK, Idle, Holding
<1>3. /\ handler'[h] \in HandlerStates /\ handler'[h] # Idle
      /\ handler'[h].at = "apply" /\ handler'[h].vm = handler[h].vm
      /\ handler'[h].current = handler[h].current /\ handler'[h].cpus = handler[h].cpus
      /\ handler'[h].todo = handler[h].todo \ {t}
      /\ \A g \in Handlers \ {h} : handler'[g] = handler[g]
  <2>1. PICK r \in HandlerStates : r = handler[h]
    BY DEF TypeOK
  <2>2. PICK o : o = [r EXCEPT !.todo = @ \ {t}]
    OBVIOUS
  <2>3. handler'[h] = o /\ \A g \in Handlers \ {h} : handler'[g] = handler[g]
    BY <1>1, <2>1, <2>2 DEF TypeOK
  <2>4. /\ o \in HandlerStates /\ o # Idle /\ o.at = "apply" /\ o.vm = r.vm
        /\ o.current = r.current /\ o.cpus = r.cpus /\ o.todo = r.todo \ {t}
    BY <1>1, <2>1, <2>2, TriedFields
  <2> QED BY <2>1, <2>3, <2>4
<1>4. TypeOK'
  <2>1. handler' \in [Handlers -> HandlerStates]
    BY <1>1, <1>3 DEF TypeOK
  <2>2. mask' \in [Tasks -> SUBSET CPUs]
    BY <1>2 DEF TypeOK, SetAffinity
  <2>3. owner[t] # Nobody => owner[t] \in VMs
    BY DEF TypeOK
  <2>4. blame' \in [VMs -> SUBSET Causes]
    BY <2>3 DEF TypeOK, SetAffinity, Causes
  <2> QED BY <1>1, <2>1, <2>2, <2>4 DEF TypeOK
<1>5. /\ \A x \in Tasks : x # t => mask'[x] = mask[x]
      /\ owner[t] = Nobody => mask'[t] = mask[t]
      /\ \A w \in VMs : blame[w] \subseteq blame'[w]
  BY DEF SetAffinity, TypeOK
<1>6. ASSUME NEW w \in VMs, owner[t] = w, blame'[w] = {}
      PROVE  mask'[t] = handler[h].cpus /\ handler[h].current /\ handler[h].vm = w
  <2>1. owner[t] # Nobody
    BY <1>6, PinningAssumption
  <2>2. CASE mask[t] # handler[h].cpus /\ blame' = [blame EXCEPT ![w] = @ \cup {"missed"}]
    BY <1>6, <2>2 DEF TypeOK
  <2>3. CASE /\ mask' = [mask EXCEPT ![t] = handler[h].cpus]
             /\ blame' = IF handler[h].current /\ w = handler[h].vm THEN blame
                           ELSE [blame EXCEPT ![w] = @ \cup {"stale"}]
    <3>1. CASE handler[h].current /\ w = handler[h].vm
      BY <2>3, <3>1 DEF TypeOK
    <3>2. CASE ~(handler[h].current /\ w = handler[h].vm)
      BY <1>6, <2>3, <3>2 DEF TypeOK
    <3> QED BY <3>1, <3>2
  <2> QED BY <1>6, <2>1, <2>2, <2>3 DEF SetAffinity
<1>7. ASSUME NEW w \in VMs, owner[t] = w, mask'[t] # mask[t]
      PROVE  "stale" \in blame'[w] \/ (handler[h].current /\ handler[h].vm = w)
  BY <1>7, PinningAssumption DEF SetAffinity, TypeOK
<1>8. Host'
  BY <1>1, <1>5 DEF Host, Running, TasksOf
<1>9. \A g \in Handlers : Current(g)' <=> Current(g)
  BY <1>2, <1>3 DEF Current, Busy
<1>10. InTime'
  <2>1. ASSUME NEW g \in Handlers, Current(g)' PROVE Knows(g)'
    <3>1. Knows(g)
      BY <1>9, <2>1 DEF InTime
    <3>2. CASE g = h
      BY <1>1, <1>3, <3>1, <3>2 DEF Knows, Running, TasksOf
    <3>3. CASE g # h
      BY <1>1, <1>3, <3>1, <3>3 DEF Knows, Running, TasksOf
    <3> QED BY <3>2, <3>3
  <2> QED BY <2>1 DEF InTime
<1>11. LeftAlone'
  <2>1. ASSUME NEW w \in manual'
        PROVE  "stale" \in blame'[w] \/ \A x \in TasksOf(w)' : mask'[x] = {}
    <3>1. w \in manual /\ w \in VMs /\ TasksOf(w)' = TasksOf(w)
      BY <1>1 DEF TypeOK, TasksOf
    <3>2. ~(handler[h].current /\ handler[h].vm = w)
      BY <1>1, <1>2, <3>1 DEF InTime, Knows, Current, Busy
    <3>3. CASE "stale" \in blame[w]
      BY <1>5, <3>1, <3>3
    <3>4. CASE \A x \in TasksOf(w) : mask[x] = {}
      BY <1>5, <1>7, <3>1, <3>2, <3>4 DEF TasksOf
    <3> QED BY <3>1, <3>3, <3>4 DEF LeftAlone
  <2> QED BY <2>1 DEF LeftAlone
<1>12. ASSUME NEW w \in VMs
       PROVE  /\ HoldersOf(w)' = HoldersOf(w) /\ TasksOf(w)' = TasksOf(w)
              /\ \A g \in HoldersOf(w) : handler'[g].cpus = handler[g].cpus
              /\ \A g \in Handlers : Pins(g, w)' <=> Pins(g, w)
  <2>1. HoldersOf(w)' = HoldersOf(w)
    BY <1>1, <1>2, <1>3 DEF HoldersOf, HandlersOf, Busy, Holding
  <2>2. \A g \in HoldersOf(w) : handler'[g].cpus = handler[g].cpus
    BY <1>3 DEF HoldersOf, HandlersOf
  <2> QED BY <1>1, <1>9, <2>1, <2>2 DEF Pins, TasksOf
<1>13. ASSUME NEW w \in VMs, blame'[w] = {}, owner[t] = w PROVE Pins(h, w)
  BY <1>2, <1>6, <1>13 DEF Pins, HoldersOf, HandlersOf, Busy, Current
<1>14. ASSUME NEW w \in VMs PROVE PinnedIn(w)'
  <2> SUFFICES ASSUME blame'[w] = {}, NEW g \in Handlers, Pins(g, w)' PROVE PinnedBy(g, w)'
    BY DEF PinnedIn
  <2>1. g \in HoldersOf(w) /\ PinnedBy(g, w)
    BY <1>5, <1>12 DEF Pinned, PinnedIn, Pins
  <2>2. handler'[g].at = handler[g].at /\ handler'[g].cpus = handler[g].cpus
    BY <1>1, <1>3
  <2>3. ASSUME handler[g].at \in {"children", "apply"}, NEW x \in Listed(g, w)'
        PROVE  x \in handler'[g].todo \/ mask'[x] = handler[g].cpus
    <3>1. x \in Listed(g, w) /\ x \in Tasks /\ owner[x] = w
      BY <1>1, <2>2, <2>3 DEF Listed, TasksOf
    <3>2. CASE x = t
      <4>1. handler[h].cpus = handler[g].cpus
        BY <1>13, <2>1, <3>1, <3>2 DEF PinnedBy, Pins
      <4> QED BY <1>6, <3>1, <3>2, <4>1
    <3>3. CASE x # t
      <4>1. x \in handler[g].todo \/ mask[x] = handler[g].cpus
        BY <2>1, <2>3, <3>1 DEF PinnedBy
      <4>2. x \in handler[g].todo => x \in handler'[g].todo
        BY <1>3, <3>3
      <4> QED BY <1>5, <3>1, <3>3, <4>1, <4>2
    <3> QED BY <3>2, <3>3
  <2> QED BY <1>1, <1>12, <2>1, <2>2, <2>3 DEF PinnedBy
<1>15. ASSUME NEW w \in VMs PROVE KeptIn(w)'
  <2> SUFFICES ASSUME w \in served', blame'[w] = {}, granted'[w] # {},
                      ~(\E g \in Handlers : Pins(g, w)'), NEW x \in TasksOf(w)'
               PROVE  mask'[x] = granted'[w]
    BY DEF KeptIn
  <2>1. x \in TasksOf(w) /\ x \in Tasks /\ owner[x] = w
    BY <1>12 DEF TasksOf
  <2>2. mask[x] = granted[w]
    BY <1>1, <1>5, <1>12, <2>1 DEF Pinned, KeptIn
  <2>3. x # t
    BY <1>12, <1>13, <2>1
  <2> QED BY <1>1, <1>5, <2>1, <2>2, <2>3
<1> QED BY <1>4, <1>8, <1>10, <1>11, <1>14, <1>15 DEF Pinned

\* A request is answered: every thread of a VM that it has pinned in time has
\* its selection.
LEMMA ReplyInvariant == ASSUME IInv, NEW h \in Handlers, Reply(h) PROVE IInv'
<1> USE DEF IInv, mapVars, envVars
<1>1. /\ handler[h].at = "apply" /\ handler[h].todo = {}
      /\ handler' = [handler EXCEPT ![h] = Idle]
      /\ served' = IF handler[h].current THEN served \cup {handler[h].vm} ELSE served
      /\ UNCHANGED <<mapVars, envVars, mask, blame>>
  BY DEF Reply, Finish, Become
<1>2. /\ handler[h] # Idle /\ Holding(h) /\ handler[h].vm \in VMs
      /\ handler[h].current \in BOOLEAN
  BY <1>1, StateFields DEF TypeOK, Idle, Holding
<1>3. PICK v \in VMs : v = handler[h].vm
  BY <1>2
<1>4. handler'[h] = Idle /\ \A g \in Handlers \ {h} : handler'[g] = handler[g]
  BY <1>1 DEF TypeOK
<1>5. /\ \A w \in VMs : w \in served' => w \in served \/ (w = v /\ handler[h].current)
      /\ \A w \in VMs : TasksOf(w)' = TasksOf(w)
  BY <1>1, <1>3 DEF TasksOf
<1>6. TypeOK'
  <2>1. Idle \in HandlerStates
    BY DEF HandlerStates
  <2> QED BY <1>1, <1>2, <2>1 DEF TypeOK
<1>7. Host'
  <2>1. handler[h].current => Running(v)
    BY <1>1, <1>2, <1>3 DEF InTime, Current, Busy, Knows
  <2>2. \A w \in served' : Running(w)'
    BY <1>1, <1>3, <1>5, <2>1 DEF Host, Running, TypeOK
  <2> QED BY <1>1, <2>2 DEF Host, Running, TasksOf
<1>8. InTime' /\ LeftAlone'
  <2>1. ASSUME NEW g \in Handlers, Current(g)' PROVE Knows(g)'
    <3>1. g # h
      BY <1>4, <2>1 DEF Current, Busy
    <3> QED BY <1>1, <1>4, <2>1, <3>1 DEF InTime, Current, Busy, Knows, Running, TasksOf
  <2> QED BY <1>1, <2>1 DEF InTime, LeftAlone, TasksOf
<1>9. ASSUME NEW w \in VMs \ {v} PROVE PinnedIn(w)' /\ KeptIn(w)'
  <2>1. SameHolders(w)
    BY <1>3, <1>4 DEF SameHolders, HoldersOf, HandlersOf, Busy, Holding
  <2> QED BY <1>1, <1>5, <2>1, Undisturbed DEF Pinned
<1>10. /\ HoldersOf(v)' = HoldersOf(v) \ {h} /\ h \in HoldersOf(v)
       /\ \A g \in Handlers : g # h => (Pins(g, v)' <=> Pins(g, v))
  <2>1. HoldersOf(v)' = HoldersOf(v) \ {h} /\ h \in HoldersOf(v)
    BY <1>2, <1>3, <1>4 DEF HoldersOf, HandlersOf, Busy, Holding
  <2> QED BY <1>4, <2>1 DEF Pins, Current, Busy
<1>11. PinnedIn(v)'
  <2> SUFFICES ASSUME blame'[v] = {}, NEW g \in Handlers, Pins(g, v)' PROVE PinnedBy(g, v)'
    BY DEF PinnedIn
  <2>1. g # h
    BY <1>10 DEF Pins
  <2>2. PinnedBy(g, v) /\ handler'[g] = handler[g]
    BY <1>1, <1>4, <1>10, <2>1 DEF Pinned, PinnedIn
  <2>3. \A k \in HoldersOf(v)' : handler'[k] = handler[k] /\ k \in HoldersOf(v)
    BY <1>4, <1>10 DEF HoldersOf, HandlersOf
  <2>4. Listed(g, v)' = Listed(g, v)
    BY <1>1, <1>5, <2>2 DEF Listed
  <2> QED BY <1>1, <2>2, <2>3, <2>4 DEF PinnedBy
<1>12. KeptIn(v)'
  <2> SUFFICES ASSUME v \in served', blame'[v] = {}, granted'[v] # {},
                      ~(\E g \in Handlers : Pins(g, v)')
               PROVE  \A t \in TasksOf(v)' : mask'[t] = granted'[v]
    BY DEF KeptIn
  <2>1. CASE Pins(h, v)
    <3>1. PinnedBy(h, v)
      BY <1>1, <2>1 DEF Pinned, PinnedIn
    <3> QED BY <1>1, <1>5, <3>1 DEF PinnedBy, Listed
  <2>2. CASE ~Pins(h, v)
    <3>1. v \in served
      BY <1>2, <1>5, <1>10, <2>2 DEF Pins, Current, Busy
    <3>2. ~(\E g \in Handlers : Pins(g, v))
      BY <1>10, <2>2
    <3> QED BY <1>1, <1>5, <3>1, <3>2 DEF Pinned, KeptIn
  <2> QED BY <2>1, <2>2
<1> QED BY <1>6, <1>7, <1>8, <1>9, <1>11, <1>12 DEF Pinned

-----------------------------------------------------------------------------
(* The theorems                                                            *)

\* Every step keeps the invariant.
LEMMA NextInvariant == IInv /\ [Next]_vars => IInv'
<1> SUFFICES ASSUME IInv, [Next]_vars PROVE IInv'
  OBVIOUS
<1>1. CASE Environment
  BY <1>1, VMStartInvariant, VMEndInvariant, SpawnInvariant, ThreadEndInvariant,
     ConfigureInvariant, RebuildInvariant DEF Environment
<1>2. ASSUME NEW h \in Handlers, UpdateAffinity(h) PROVE IInv'
  BY <1>2, ReadPidInvariant, SelectInvariant, ListThreadsInvariant,
     ListChildrenInvariant, SetAffinityInvariant, ReplyInvariant DEF UpdateAffinity
<1>3. ASSUME NEW h \in Handlers, NEW v \in VMs, Request(h, v) PROVE IInv'
  BY <1>3, RequestInvariant
<1>4. CASE UNCHANGED vars
  BY <1>4 DEF vars, IInv, TypeOK, Host, InTime, LeftAlone, Pinned, PinnedIn, KeptIn, PinnedBy,
              Pins, HoldersOf, HandlersOf, Busy, Holding, Current, Knows, Listed, Running, TasksOf
<1> QED BY <1>1, <1>2, <1>3, <1>4 DEF Next

\* The inductive invariant holds in every state the service and its host can
\* come to.
THEOREM Invariance == Spec => []IInv
BY InitInvariant, NextInvariant, PTL DEF Spec

\* Every variable has its type: among others, no request ever holds an empty set
\* of CPUs to set (ApplyAffinity, affinity.go).
THEOREM TypeCorrect == Spec => []TypeOK
<1>1. IInv => TypeOK
  BY DEF IInv
<1> QED BY <1>1, Invariance, PTL

\* UpdateAffinity never sets the affinity of a VM that has had one of its own
\* since it started, unless a request acted on a pid, a thread id or a configuration
\* it had read before the VM's process started.
THEOREM AffinityLeftAlone == Spec => []LeftAlone
<1>1. IInv => LeftAlone
  BY DEF IInv
<1> QED BY <1>1, Invariance, PTL

\* A VM that a request has pinned has every thread and child on the selection
\* that CPUInfo still has for it when no request is setting it, or one of the
\* four causes has come up since it was last set by one request alone.
THEOREM ServedIsPinned == Spec => []PinnedOrBlamed
<1>1. IInv => PinnedOrBlamed
  <2> SUFFICES ASSUME IInv, NEW v \in served, granted[v] # {},
                      ~(\E h \in HandlersOf(v) : Holding(h)), blame[v] = {}
               PROVE  \A t \in TasksOf(v) : mask[t] = granted[v]
    BY DEF PinnedOrBlamed
  <2>1. v \in VMs /\ KeptIn(v)
    BY DEF IInv, TypeOK, Pinned
  <2>2. ~(\E h \in Handlers : Pins(h, v))
    BY DEF Pins, HoldersOf
  <2> QED BY <2>1, <2>2 DEF KeptIn
<1> QED BY <1>1, Invariance, PTL

=============================================================================
