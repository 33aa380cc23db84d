------------------------------ MODULE CpuInfo ------------------------------
(***************************************************************************)
(* The CPUInfo object of pkg/cpuinfo/cpuinfo.go: the ranking cache, the    *)
(* round-robin position and the selections, all guarded by CPUInfo.mu.     *)
(*                                                                         *)
(* Update runs in a goroutine of its own (CalculateRanking starts it and   *)
(* may stop waiting for it), so several of them can be between the         *)
(* detection of the topology, which takes no lock, and the installation of *)
(* the result, which does.  Every locked section is one action.            *)
(*                                                                         *)
(* A CPU is its number; sockets, cores and latencies are abstracted to the *)
(* order in which a CPU's neighbours are ranked, which can be any order.   *)
(***************************************************************************)
EXTENDS Integers, Sequences, FiniteSets, SequencesExt

CONSTANTS
    CPUs,        \* the numbers of the logical CPUs the host can ever have
    VMs,         \* the VM ids
    MaxRequest,  \* the largest number of CPUs a VM asks for
    Updaters     \* goroutines that run Update, the timed out ones included

ASSUME CpuInfoAssumption ==
    /\ CPUs \subseteq Nat
    /\ IsFiniteSet(CPUs)
    /\ MaxRequest \in Nat

Requests == 0 .. MaxRequest

\* sort.Slice(cores, ...): detectTopologySystem reports each CPU once, in
\* ascending order.  Which CPUs it reports depends on sysfs at that moment.
Increasing(t) == \A i, j \in DOMAIN t : i < j => t[i] < t[j]

Topologies == { t \in BoundedSeq(CPUs, Cardinality(CPUs)) : Increasing(t) }

\* The neighbours of CPU c in topology t, in some order of latency.
Neighbours(t, c) == SetToSeqs(ToSet(t) \ {c})

\* CoreRanking: a CPU with its neighbours, nearest first.
CoreRankings(t) ==
    [cpu : ToSet(t), ranking : UNION { Neighbours(t, c) : c \in ToSet(t) }]

\* finalResults: whatever was measured, one CoreRanking per CPU of the
\* topology, in the order of the topology.
IsRanking(r, t) ==
    /\ DOMAIN r = DOMAIN t
    /\ \A i \in DOMAIN t : /\ r[i].cpu = t[i]
                          /\ r[i].ranking \in Neighbours(t, t[i])

Caches == UNION { { r \in [DOMAIN t -> CoreRankings(t)] : IsRanking(r, t) } :
                  t \in Topologies }

VARIABLES
    cache,       \* CPUInfo.cache
    lastIndex,   \* CPUInfo.lastIndex (counted from 0, as in the code)
    selections,  \* CPUInfo.selections: <<>> for a VM that has no entry
    measuring,   \* per Update goroutine: the topology it measures, or Idle
    answer,      \* what the last SelectCPUs call was asked and returned
    opened       \* history: how many selections each position of the cache
                 \* has opened since the cache was installed, whole rounds
                 \* (every position once) not counted

vars == <<cache, lastIndex, selections, measuring, answer, opened>>

Idle == [busy |-> FALSE]
Busy(t) == [busy |-> TRUE, topology |-> t]
UpdateStates == {Idle} \cup { Busy(t) : t \in Topologies }
NoSelections == [v \in VMs |-> <<>>]
None == [asked |-> 0, cpus |-> <<>>]

\* New
Init ==
    /\ cache = <<>>
    /\ lastIndex = 0
    /\ selections = NoSelections
    /\ measuring = [u \in Updaters |-> Idle]
    /\ answer = None
    /\ opened = <<>>

-----------------------------------------------------------------------------
(* Update.  Its measurements read and write nothing that is shared.        *)

\* c.detector() returned the topology t; the measurements start.
UpdateDetect(u, t) ==
    /\ measuring[u] = Idle
    /\ measuring' = [measuring EXCEPT ![u] = Busy(t)]
    /\ UNCHANGED <<cache, lastIndex, selections, answer, opened>>

\* A measurement failed: Update returns the error and leaves all as it was.
UpdateFail(u) ==
    /\ measuring[u] # Idle
    /\ Len(measuring[u].topology) > 1
    /\ measuring' = [measuring EXCEPT ![u] = Idle]
    /\ UNCHANGED <<cache, lastIndex, selections, answer, opened>>

\* lastIndex modulo the length of the new cache, 0 for an empty one.
Wrapped(i, r) == IF Len(r) > 0 THEN i % Len(r) ELSE 0

UpdateInstallKeepsSelections(u) ==
    /\ measuring[u] # Idle
    /\ \E r \in Caches : IsRanking(r, measuring[u].topology) /\ cache' = r
    /\ selections' = selections
    /\ lastIndex' = Wrapped(lastIndex, cache')
    /\ opened' = [i \in DOMAIN cache' |-> 0]
    /\ measuring' = [measuring EXCEPT ![u] = Idle]
    /\ UNCHANGED answer

UpdateInstallKeepsIndex(u) ==
    /\ measuring[u] # Idle
    /\ \E r \in Caches : IsRanking(r, measuring[u].topology) /\ cache' = r
    /\ selections' = NoSelections
    /\ lastIndex' = lastIndex
    /\ opened' = [i \in DOMAIN cache' |-> 0]
    /\ measuring' = [measuring EXCEPT ![u] = Idle]
    /\ UNCHANGED answer

\* The locked end of Update: the new cache, no selections, lastIndex in range.
UpdateInstall(u) ==
    /\ measuring[u] # Idle
    /\ \E r \in Caches : IsRanking(r, measuring[u].topology) /\ cache' = r
    /\ selections' = NoSelections
    /\ lastIndex' = Wrapped(lastIndex, cache')
    /\ opened' = [i \in DOMAIN cache' |-> 0]
    /\ measuring' = [measuring EXCEPT ![u] = Idle]
    /\ UNCHANGED answer

-----------------------------------------------------------------------------
(* SelectCPUs(vmid, requestedCPUs), one action per way it returns.         *)

\* The VM has an entry of the requested size (tested before anything else).
Sticky(v, n) == selections[v] # <<>> /\ Len(selections[v]) = n

Answer(n, cpus) == answer' = [asked |-> n, cpus |-> cpus]

SelectErrorAdvances(v, n) ==
    /\ cache # <<>> /\ ~Sticky(v, n) /\ (n <= 0 \/ n > Len(cache))
    /\ lastIndex' = (lastIndex + 1) % Len(cache)
    /\ Answer(n, <<>>)
    /\ UNCHANGED <<cache, selections, measuring, opened>>

\* An error: nothing is ranked, or the request is 0 or too large.
SelectError(v, n) ==
    /\ \/ cache = <<>>
       \/ ~Sticky(v, n) /\ (n <= 0 \/ n > Len(cache))
    /\ Answer(n, <<>>)
    /\ UNCHANGED <<cache, lastIndex, selections, measuring, opened>>

SelectSticky(v, n) ==
    /\ cache # <<>>
    /\ Sticky(v, n)
    /\ Answer(n, selections[v])
    /\ UNCHANGED <<cache, lastIndex, selections, measuring, opened>>

SelectionOneMore(p, n) ==
    <<p.cpu>> \o SubSeq(p.ranking, 1, IF n < Len(p.ranking) THEN n
                                                            ELSE Len(p.ranking))

\* The starting CPU and the first n-1 of its neighbours (the loop stops at
\* the end of the ranking too).
Selection(p, n) ==
    <<p.cpu>> \o SubSeq(p.ranking, 1, IF n - 1 < Len(p.ranking)
                                        THEN n - 1 ELSE Len(p.ranking))

NextIndex == (lastIndex + 1) % Len(cache)

\* opened with one more for position i; a completed round is taken off.
Count(i) ==
    LET more == [opened EXCEPT ![i] = @ + 1]
    IN  IF \A j \in DOMAIN more : more[j] > 0
          THEN [j \in DOMAIN more |-> more[j] - 1]
          ELSE more

SelectFreshAlways(v, n) ==
    /\ cache # <<>>
    /\ n > 0 /\ n <= Len(cache)
    /\ lastIndex' = NextIndex
    /\ LET res == Selection(cache[NextIndex + 1], n)
       IN  /\ selections' = [selections EXCEPT ![v] = res]
           /\ Answer(n, res)
    /\ opened' = Count(NextIndex + 1)
    /\ UNCHANGED <<cache, measuring>>

SelectFreshSkips(v, n) ==
    /\ cache # <<>>
    /\ ~Sticky(v, n)
    /\ n > 0 /\ n <= Len(cache)
    /\ lastIndex' = (lastIndex + n) % Len(cache)
    /\ LET res == Selection(cache[lastIndex' + 1], n)
       IN  /\ selections' = [selections EXCEPT ![v] = res]
           /\ Answer(n, res)
    /\ opened' = Count(lastIndex' + 1)
    /\ UNCHANGED <<cache, measuring>>

\* A new selection: the round robin advances and the selection is recorded.
SelectFresh(v, n) ==
    /\ cache # <<>>
    /\ ~Sticky(v, n)
    /\ n > 0 /\ n <= Len(cache)
    /\ lastIndex' = NextIndex
    /\ LET res == Selection(cache[NextIndex + 1], n)
       IN  /\ selections' = [selections EXCEPT ![v] = res]
           /\ Answer(n, res)
    /\ opened' = Count(NextIndex + 1)
    /\ UNCHANGED <<cache, measuring>>

-----------------------------------------------------------------------------
Update(u) ==
    \/ \E t \in Topologies : UpdateDetect(u, t)
    \/ UpdateFail(u)
    \/ UpdateInstall(u)

SelectCPUs(v, n) ==
    \/ SelectError(v, n)
    \/ SelectSticky(v, n)
    \/ SelectFresh(v, n)

Next ==
    \/ \E u \in Updaters : Update(u)
    \/ \E v \in VMs, n \in Requests : SelectCPUs(v, n)

Spec == Init /\ [][Next]_vars

-----------------------------------------------------------------------------
(* Properties                                                              *)

\* Every variable has its type.  lastIndex is a position of the cache even
\* after the topology shrank, and 0 when there is none.
TypeOK ==
    /\ cache \in Caches
    /\ lastIndex \in Nat
    /\ lastIndex < Len(cache) \/ lastIndex = 0
    /\ selections \in [VMs -> Seq(CPUs)]
    /\ measuring \in [Updaters -> UpdateStates]
    /\ answer \in [asked : Requests, cpus : Seq(CPUs)]
    /\ opened \in [DOMAIN cache -> Nat]

\* A recorded selection is always one that the present ranking gives: a
\* starting CPU of the cache followed by its nearest neighbours.  So no VM
\* keeps CPUs of an earlier topology, whatever goroutine replaced the cache
\* in between (Update resets selections in the section that sets the cache).
SelectionsFromCache ==
    \A v \in VMs : selections[v] # <<>> =>
        \E i \in DOMAIN cache : \E n \in 1 .. Len(cache) :
            selections[v] = Selection(cache[i], n)

\* SelectCPUs either fails or returns exactly as many CPUs as were requested,
\* all different: the affinity mask has one CPU per virtual CPU.
AnswerExact ==
    answer.cpus # <<>> => /\ Len(answer.cpus) = answer.asked
                          /\ IsInjective(answer.cpus)

\* README, Algorithm: the starting CPU is selected in a round-robin fashion
\* to ensure even distribution.  While a ranking is in place no CPU has
\* opened two more selections than another, whatever calls failed, were
\* answered from an earlier selection or changed the size of one.
EvenDistribution ==
    \A i, j \in DOMAIN opened : opened[i] <= opened[j] + 1

\* The same in more detail, and inductive: counted from the position whose
\* turn is next, the positions that have not opened a selection in this round
\* come before those that have, and there is one that has not.
Turn(i) ==
    IF i > lastIndex + 1 THEN i - lastIndex - 1
                         ELSE i - lastIndex - 1 + Len(cache)
RoundRobin ==
    /\ opened \in [DOMAIN cache -> {0, 1}]
    /\ cache # <<>> => \E i \in DOMAIN cache : opened[i] = 0
    /\ \A i, j \in DOMAIN cache : Turn(i) < Turn(j) => opened[i] <= opened[j]

\* A call that fails or repeats an earlier request must not use up a turn of
\* the round robin: while the ranking stays, lastIndex moves only when some
\* VM gets another selection (a hook retries its request up to ten times).
TurnsAreGrants ==
    [][ cache' = cache /\ lastIndex' # lastIndex
          => \E v \in VMs : selections'[v] # selections[v] ]_vars

\* CpuInfo implements AffinityMap.
RankedCPUs == { cache[i].cpu : i \in DOMAIN cache }
Map == INSTANCE AffinityMap WITH
           ranked  <- RankedCPUs,
           granted <- [v \in VMs |-> ToSet(selections[v])]
ImplementsAffinityMap == Map!Spec

=============================================================================
