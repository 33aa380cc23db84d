---------------------------- MODULE Measurement ----------------------------
(***************************************************************************)
(* One call of CPUInfo.Update (pkg/cpuinfo/cpuinfo.go), from sysfs to the  *)
(* ranking: the CPUs are detected one sysfs file after another, every      *)
(* ordered pair is measured in every round, and the neighbours of each CPU *)
(* are sorted by their average latency; SummarizeRankings reports on the   *)
(* result.  CPUs are switched and plugged at any moment between two steps. *)
(*                                                                         *)
(* A measurement is a call as LinkCall describes it.  What CpuInfo takes   *)
(* as one step, or as any order of the neighbours, is carried out here.    *)
(***************************************************************************)
EXTENDS Integers, Sequences, FiniteSets, SequencesExt

CONSTANTS
    CPUs,        \* the numbers of the logical CPUs the host can ever have
    PackageOf,   \* per CPU its physical_package_id
    Latencies,   \* what a measurement of a pair can yield
    MaxRounds,   \* the largest Config.Rounds
    MaxChanges   \* bound: how often CPUs are switched or plugged

ASSUME MeasurementAssumption ==
    /\ CPUs \subseteq Nat /\ IsFiniteSet(CPUs) /\ CPUs # {}
    /\ DOMAIN PackageOf = CPUs
    /\ Latencies \subseteq Nat
    /\ MaxRounds \in Nat /\ MaxChanges \in Nat

VARIABLES
    power,     \* per CPU: "absent", "offline" (listed in sysfs) or "online"
    changes,   \* how often that has changed
    at,        \* Update: "list", "read", "detected", "measure", "sort", "done"
    listed,    \* CPUs of the listing whose files are still to be read
    cores,     \* the topology: the CPUs found, in the end in ascending order
    rounds,    \* Config.Rounds
    round,     \* rounds completed
    pair,      \* the pair that is measured, an index of latSums
    trying, failed, outcome,   \* the measurement of it, see LinkCall
    latSums,   \* per pair (source times CPUs plus target) the sum of latencies
    cache,     \* CPUInfo.cache, installed at the end
    result,    \* what Update returns: "running", "ok" or "error"
    steady,    \* history: CPUs online ever since the detection began
    seen,      \* history: CPUs online at some moment of the detection
    lockable,  \* history: CPUs online at some moment since the detection
    faded,     \* history: CPUs not online at some moment since they were read
    measured   \* history: per source and target, the calls and their total

hwVars == <<power, changes>>
linkVars == <<trying, failed, outcome>>
detectVars == <<listed, steady, seen>>
sumVars == <<round, pair, latSums, measured>>
vars == <<hwVars, at, cores, rounds, linkVars, detectVars, sumVars, cache,
          result, lockable, faded>>

Link == INSTANCE LinkCall

Online == { c \in CPUs : power[c] = "online" }

NumCores == Len(cores)
Found == ToSet(cores)

\* The loops over i and j, as an index of the linearised matrix.
Pairs == 0 .. NumCores * NumCores - 1
Src(p) == cores[(p \div NumCores) + 1]
Dst(p) == cores[(p % NumCores) + 1]
Measurable == { p \in Pairs : Src(p) # Dst(p) }

Init ==
    /\ power \in [CPUs -> {"offline", "online"}] /\ Online # {}
    /\ changes = 0
    /\ at = "list"
    /\ listed = {} /\ cores = <<>>
    /\ rounds \in 0 .. MaxRounds
    /\ round = 0 /\ pair = 0 /\ latSums = <<>>
    /\ trying = {} /\ failed = FALSE /\ outcome = "running"
    /\ cache = <<>> /\ result = "running"
    /\ steady = Online /\ seen = Online
    /\ lockable = {} /\ faded = {}
    /\ measured = [p \in CPUs \X CPUs |-> [calls |-> 0, total |-> 0]]

-----------------------------------------------------------------------------
(* The hardware                                                            *)

\* A CPU is plugged or unplugged while offline, or switched on or off; one
\* CPU always runs.
NextPower(p) == CASE p = "offline" -> {"absent", "online"} [] OTHER -> {"offline"}

Hotplug(c) ==
    /\ changes < MaxChanges /\ result = "running"
    /\ changes' = changes + 1
    /\ \E p \in NextPower(power[c]) : power' = [power EXCEPT ![c] = p]
    /\ Online' # {}
    /\ IF at \in {"list", "read"}
         THEN steady' = steady \cap Online' /\ seen' = seen \cup Online'
         ELSE UNCHANGED <<steady, seen>>
    /\ lockable' = IF at = "measure" THEN lockable \cup Online' ELSE lockable
    /\ faded' = faded \cup (Found \ Online')
    /\ UNCHANGED <<at, listed, cores, rounds, linkVars, sumVars, cache, result>>

-----------------------------------------------------------------------------
(* detectTopologySystem                                                    *)

\* filepath.Glob lists the CPUs that are present, offline ones included.
List ==
    /\ at = "list"
    /\ at' = "read"
    /\ listed' = { c \in CPUs : power[c] # "absent" }
    /\ UNCHANGED <<hwVars, cores, rounds, linkVars, sumVars, cache, result,
                   steady, seen, lockable, faded>>

ReadTopologyKeepsOffline(c) ==
    /\ at = "read" /\ c \in listed
    /\ listed' = listed \ {c}
    /\ cores' = IF power[c] # "absent" THEN Append(cores, c) ELSE cores
    /\ UNCHANGED <<hwVars, at, rounds, linkVars, sumVars, cache, result,
                   steady, seen, lockable, faded>>

\* readSysFSInt of physical_package_id: only a CPU that is online has the file,
\* others are skipped.  (If core_id then fails, the core is reported as -1.)
\* The listing is in the order of the names as text; any order will do.
ReadTopology(c) ==
    /\ at = "read" /\ c \in listed
    /\ listed' = listed \ {c}
    /\ cores' = IF power[c] = "online" THEN Append(cores, c) ELSE cores
    /\ UNCHANGED <<hwVars, at, rounds, linkVars, sumVars, cache, result,
                   steady, seen, lockable, faded>>

\* The detector returns the topology, sorted by sort.Slice(cores, ...).
Detected ==
    /\ at = "read" /\ listed = {}
    /\ at' = "detected"
    /\ \E p \in SetToSeqs(DOMAIN cores) : cores' = [i \in DOMAIN cores |-> cores[p[i]]]
    /\ \A i, j \in DOMAIN cores' : i < j => cores'[i] <= cores'[j]
    /\ UNCHANGED <<hwVars, rounds, linkVars, detectVars, sumVars, cache,
                   result, lockable, faded>>

-----------------------------------------------------------------------------
(* The measurements                                                        *)

FirstPairDiagonal == 0

\* i and j begin at 0, and i = j is skipped.
FirstPair == IF Measurable = {} THEN 0 ELSE CHOOSE p \in Measurable :
                                               \A q \in Measurable : p <= q

\* The sums are zero and the first call is made, if there is any to make.
Begin ==
    /\ at = "detected"
    /\ at' = IF rounds > 0 /\ Measurable # {} THEN "measure" ELSE "sort"
    /\ pair' = FirstPair
    /\ latSums' = [p \in Pairs |-> 0]
    /\ trying' = Link!Threads /\ failed' = FALSE /\ outcome' = "running"
    /\ lockable' = Online
    /\ listed' = {} /\ steady' = {} /\ seen' = {}
    /\ UNCHANGED <<hwVars, cores, rounds, round, measured, cache, result, faded>>

\* measureSingleLink: the goroutines lock themselves to the two CPUs, which
\* succeeds for a CPU that is online at that moment.
CPUOf(t) == IF t = 0 THEN Src(pair) ELSE Dst(pair)

LockToCPU(t) ==
    /\ at = "measure"
    /\ Link!Lock(t, CPUOf(t) \in Online)
    /\ UNCHANGED <<hwVars, at, cores, rounds, detectVars, sumVars, cache,
                   result, lockable, faded>>

MeasureReturns ==
    /\ at = "measure"
    /\ Link!Return
    /\ UNCHANGED <<hwVars, at, cores, rounds, detectVars, sumVars, cache,
                   result, lockable, faded>>

Later == { p \in Measurable : p > pair }

\* The latency is added and the next pair or round begins.
Proceed(lat) ==
    /\ measured' = [measured EXCEPT ![<<Src(pair), Dst(pair)>>] =
                       [calls |-> @.calls + 1, total |-> @.total + lat]]
    /\ \/ /\ Later # {}
          /\ pair' = CHOOSE p \in Later : \A q \in Later : p <= q
          /\ UNCHANGED <<round, at>>
       \/ /\ Later = {}
          /\ pair' = FirstPair
          /\ round' = round + 1
          /\ at' = IF round' < rounds THEN "measure" ELSE "sort"
    /\ trying' = Link!Threads /\ failed' = FALSE /\ outcome' = "running"
    /\ UNCHANGED <<hwVars, cores, rounds, detectVars, cache, result, lockable, faded>>

AccumulateMirrored ==
    /\ at = "measure" /\ outcome = "latency"
    /\ \E lat \in Latencies :
         /\ latSums' = [latSums EXCEPT ![((pair % NumCores) * NumCores) + (pair \div NumCores)] = @ + lat]
         /\ Proceed(lat)

\* latSums[i*numCores+j] += lat
Accumulate ==
    /\ at = "measure" /\ outcome = "latency"
    /\ \E lat \in Latencies :
         /\ latSums' = [latSums EXCEPT ![pair] = @ + lat]
         /\ Proceed(lat)

MeasureFailedGoesOn ==
    /\ at = "measure" /\ outcome = "error"
    /\ latSums' = latSums
    /\ Proceed(0)

\* A failed measurement ends Update with its error.
MeasureFailed ==
    /\ at = "measure" /\ outcome = "error"
    /\ at' = "done" /\ result' = "error"
    /\ UNCHANGED <<hwVars, cores, rounds, linkVars, detectVars, sumVars, cache,
                   lockable, faded>>

-----------------------------------------------------------------------------
(* The ranking                                                             *)

\* The average over the rounds, in units of 1/rounds; 0/0 is not a number.
NaN == -1
Average(sum) == IF rounds = 0 THEN NaN ELSE sum
Less(a, b) == a # NaN /\ b # NaN /\ a < b

Neighbour(i, j) ==
    [cpu |-> cores[j + 1], socket |-> PackageOf[cores[j + 1]],
     latency |-> Average(latSums[i * NumCores + j])]

\* sort.Slice(neighbors, ...) may leave equals (or what is no number) in any
\* order.
Sorted(ns) == \A a, b \in DOMAIN ns : a < b => ~Less(ns[b].latency, ns[a].latency)

Sortings(i) ==
    { ns \in SetToSeqs({ Neighbour(i, j) : j \in 0 .. NumCores - 1 } \ {Neighbour(i, i)}) :
      Sorted(ns) }

\* The results are sorted and installed, and Update returns nil.
Sort ==
    /\ at = "sort"
    /\ at' = "done" /\ result' = "ok"
    /\ \E r \in [1 .. NumCores -> UNION { Sortings(i) : i \in 0 .. NumCores - 1 }] :
         /\ \A i \in 1 .. NumCores : r[i] \in Sortings(i - 1)
         /\ cache' = [i \in 1 .. NumCores |-> [cpu |-> cores[i], ranking |-> r[i]]]
    /\ UNCHANGED <<hwVars, cores, rounds, linkVars, detectVars, sumVars, lockable, faded>>

MedianUnsorted(lats) == lats[(Len(lats) \div 2) + 1]

\* sort.Float64s puts a latency behind those that are smaller; equals are alike.
Place(lats, k) ==
    Cardinality({ j \in DOMAIN lats : lats[j] < lats[k] \/ (lats[j] = lats[k] /\ j < k) })

\* lats[len(lats)/2], after the sort.
Median(lats) == lats[CHOOSE k \in DOMAIN lats : Place(lats, k) = Len(lats) \div 2]

Huge == 1000000000

\* SummarizeRankings, but for the mean.  The smallest latency is Huge (10^18 ns,
\* more than any measurement takes) and the largest -1 if none is a number.
SummarizeRankings(r) ==
    LET neighbours == UNION { ToSet(r[i].ranking) : i \in DOMAIN r }
        lats == FlattenSeq([i \in DOMAIN r |->
                    [k \in DOMAIN r[i].ranking |-> r[i].ranking[k].latency]])
        numbers == ToSet(lats) \ {NaN}
    IN  [cpus    |-> Cardinality({ r[i].cpu : i \in DOMAIN r } \cup { n.cpu : n \in neighbours }),
         sockets |-> Cardinality({ n.socket : n \in neighbours }),
         min     |-> IF lats = <<>> THEN 0 ELSE IF numbers = {} THEN Huge ELSE Min(numbers),
         max     |-> IF lats = <<>> THEN 0 ELSE Max(numbers \cup {-1}),
         median  |-> IF lats = <<>> THEN 0 ELSE Median(lats)]

-----------------------------------------------------------------------------
Update ==
    \/ List \/ Detected
    \/ \E c \in CPUs : ReadTopology(c)
    \/ Begin
    \/ \E t \in Link!Threads : LockToCPU(t)
    \/ MeasureReturns \/ MeasureFailed \/ Accumulate
    \/ Sort

\* Update has returned: nothing more happens.
Returned == result # "running" /\ UNCHANGED vars

Next == Update \/ (\E c \in CPUs : Hotplug(c)) \/ Returned

Spec == Init /\ [][Next]_vars

-----------------------------------------------------------------------------
(* Properties                                                              *)

Rankings == Seq([cpu : CPUs, socket : { PackageOf[c] : c \in CPUs }, latency : Int])

\* Every variable has its type.
TypeOK ==
    /\ power \in [CPUs -> {"absent", "offline", "online"}]
    /\ changes \in 0 .. MaxChanges
    /\ at \in {"list", "read", "detected", "measure", "sort", "done"}
    /\ listed \in SUBSET CPUs /\ cores \in Seq(CPUs)
    /\ rounds \in 0 .. MaxRounds /\ round \in 0 .. rounds
    /\ trying \in SUBSET Link!Threads /\ failed \in BOOLEAN
    /\ outcome \in {"running", "latency", "error"}
    /\ at = "measure" => pair \in Measurable /\ latSums \in [Pairs -> Nat]
    /\ cache \in Seq([cpu : CPUs, ranking : Rankings])
    /\ result \in {"running", "ok", "error"}
    /\ \A h \in {steady, seen, lockable, faded} : h \in SUBSET CPUs
    /\ measured \in [CPUs \X CPUs -> [calls : Nat, total : Nat]]

\* A CPU that is online throughout the detection is found, and one that is
\* found was online at some moment of it, however CPUs come and go between
\* the listing and the reading of one file after another.
TopologyFaithful == at = "detected" => steady \subseteq Found /\ Found \subseteq seen

\* Update does not rank a CPU that it could not have measured: if it succeeds
\* with measurements, every CPU was online at some moment after the detection.
\* And it fails only if a CPU it had found was not online at some moment.
OutcomeFaithful ==
    /\ result = "ok" /\ rounds > 0 /\ NumCores > 1 => Found \subseteq lockable
    /\ result = "error" => Found \cap faded # {}

\* The neighbours ns of CPU s are every other CPU once, by ascending latency,
\* where the latency is that of exactly as many measurements of this pair, in
\* this direction, as there are rounds; with no rounds it is not a number.
NeighboursFaithful(s, ns) ==
    /\ { n.cpu : n \in ToSet(ns) } = Found \ {s}
    /\ Len(ns) = NumCores - 1
    /\ \A k \in DOMAIN ns :
         LET m == measured[<<s, ns[k].cpu>>]
         IN  /\ m.calls = rounds
             /\ ns[k].latency = IF rounds = 0 THEN NaN ELSE m.total
             /\ ns[k].socket = PackageOf[ns[k].cpu]
    /\ \A k \in 1 .. Len(ns) - 1 : ns[k].latency <= ns[k + 1].latency

\* What Update installs has every CPU that was found once, in ascending order,
\* and with it its neighbours as they were measured.
RankingFaithful ==
    result = "ok" =>
        /\ Len(cache) = NumCores
        /\ \A i, j \in DOMAIN cache : i < j => cache[i].cpu < cache[j].cpu
        /\ { cache[i].cpu : i \in DOMAIN cache } = Found
        /\ \A i \in DOMAIN cache : NeighboursFaithful(cache[i].cpu, cache[i].ranking)

\* The summary counts the CPUs, and, if there are several and rounds to
\* measure them, the sockets; half of the latencies are at least the median
\* and no more than half below it, and all are between the smallest and the
\* largest.  With no rounds none of this is measured: the median is no number
\* and the other two are what the loop begins with.  (The socket of a CPU
\* without neighbours is not counted.)
SummaryFaithful ==
    result = "ok" =>
        LET s == SummarizeRankings(cache)
            ranked == { p \in Found \X Found : p[1] # p[2] }
            latency(p) == measured[p].total
        IN  /\ s.cpus = NumCores
            /\ ranked # {} => s.sockets = Cardinality({ PackageOf[c] : c \in Found })
            /\ ranked # {} /\ rounds > 0 =>
                 /\ \E p \in ranked : latency(p) = s.min
                 /\ \E p \in ranked : latency(p) = s.max
                 /\ \A p \in ranked : s.min <= latency(p) /\ latency(p) <= s.max
                 /\ 2 * Cardinality({ p \in ranked : latency(p) < s.median }) <= Cardinality(ranked)
                 /\ 2 * Cardinality({ p \in ranked : latency(p) > s.median }) < Cardinality(ranked)
            /\ ranked # {} /\ rounds = 0 =>
                 s.median = NaN /\ s.min = Huge /\ s.max = -1
            /\ ranked = {} => s.min = 0 /\ s.max = 0 /\ s.median = 0 /\ s.sockets = 0

=============================================================================
