--------------------------- MODULE CpuInfoProofs ---------------------------
(***************************************************************************)
(* Proofs about CpuInfo, for every set of CPUs, VMs and Update goroutines  *)
(* and every size of a request.                                            *)
(***************************************************************************)
EXTENDS CpuInfo, SequenceTheorems, FiniteSetTheorems, TLAPS

-----------------------------------------------------------------------------
(* Arithmetic of the round robin                                           *)

\* i % n, as Update takes it of lastIndex, is a position below n.
LEMMA ModRange ==
    ASSUME NEW i \in Nat, NEW n \in Nat \ {0}
    PROVE  i % n \in 0 .. n - 1
  OBVIOUS

\* The next position, as SelectCPUs computes it, is one further or the first.
LEMMA ModNext ==
    ASSUME NEW n \in Nat \ {0}, NEW i \in 0 .. n - 1
    PROVE  /\ (i + 1) % n \in 0 .. n - 1
           /\ i + 1 = n => (i + 1) % n = 0
           /\ i + 1 # n => (i + 1) % n = i + 1
  OBVIOUS

\* Turn, of any lastIndex l and any length n of the cache.
TurnFrom(l, n, i) == IF i > l + 1 THEN i - l - 1 ELSE i - l - 1 + n

-----------------------------------------------------------------------------
(* What every ranking looks like                                           *)

\* A sequence without repetitions has as many elements as its length says.
LEMMA CardinalityOfDistinct ==
    ASSUME NEW n \in Nat, NEW S, NEW s \in [1 .. n -> S],
           \A i, j \in 1 .. n : s[i] = s[j] => i = j
    PROVE  /\ IsFiniteSet(ToSet(s))
           /\ Cardinality(ToSet(s)) = n
<1>1. s \in Bijection(1 .. n, ToSet(s))
  BY DEF Bijection, Injection, Surjection, IsInjective, ToSet
<1>2. ExistsBijection(1 .. n, ToSet(s))
  BY <1>1 DEF ExistsBijection
<1> QED
  BY <1>2, FS_NatBijection, FS_CountingElements

\* A detected topology lists different CPUs.
LEMMA TopologyShape ==
    ASSUME NEW t \in Topologies
    PROVE  /\ t \in Seq(CPUs)
           /\ t \in [1 .. Len(t) -> CPUs]
           /\ Len(t) \in Nat
           /\ \A i, j \in 1 .. Len(t) : t[i] = t[j] => i = j
<1>1. Cardinality(CPUs) \in Nat
  BY CpuInfoAssumption, FS_CardinalityType
<1>2. PICK m \in 0 .. Cardinality(CPUs) : t \in [1 .. m -> CPUs]
  BY DEF Topologies, BoundedSeq, SeqOf
<1>3. t \in Seq(CPUs) /\ m \in Nat
  BY <1>1, <1>2, SeqDef
<1>4. Len(t) = m
  BY <1>2, <1>3, LenProperties
<1>5. \A i \in 1 .. m : t[i] \in Nat
  BY <1>2, CpuInfoAssumption
<1>6. \A i, j \in 1 .. m : i < j => t[i] < t[j]
  BY <1>2 DEF Topologies, Increasing
<1>7. \A i, j \in 1 .. m : t[i] = t[j] => i = j
  BY <1>3, <1>5, <1>6
<1> QED
  BY <1>2, <1>3, <1>4, <1>7

\* The starting CPUs are different, and each is followed by all the others,
\* each of them once.
CacheShape(r) ==
    /\ r \in Seq([cpu : CPUs, ranking : Seq(CPUs)])
    /\ \A i, j \in 1 .. Len(r) : r[i].cpu = r[j].cpu => i = j
    /\ \A i \in 1 .. Len(r) :
          /\ Len(r[i].ranking) = Len(r) - 1
          /\ \A j \in 1 .. Len(r) - 1 :
                /\ r[i].ranking[j] # r[i].cpu
                /\ \E x \in 1 .. Len(r) : r[i].ranking[j] = r[x].cpu
                /\ \A k \in 1 .. Len(r) - 1 :
                      r[i].ranking[j] = r[i].ranking[k] => j = k

\* finalResults has that shape, and as many positions as the topology.
LEMMA RankingShape ==
    ASSUME NEW t \in Topologies, NEW r, r \in [DOMAIN t -> CoreRankings(t)],
           IsRanking(r, t)
    PROVE  CacheShape(r) /\ Len(r) = Len(t)
<1> DEFINE n == Len(t)
<1>1. /\ t \in [1 .. n -> CPUs] /\ n \in Nat /\ DOMAIN t = 1 .. n
      /\ \A i, j \in 1 .. n : t[i] = t[j] => i = j
  BY TopologyShape
<1>2. IsFiniteSet(ToSet(t)) /\ Cardinality(ToSet(t)) = n
  BY <1>1, CardinalityOfDistinct
<1> HIDE DEF n
<1>3. ASSUME NEW i \in 1 .. n
      PROVE  /\ r[i].cpu = t[i]
             /\ r[i].ranking \in [1 .. n - 1 -> ToSet(t) \ {t[i]}]
             /\ \A j, k \in 1 .. n - 1 :
                   r[i].ranking[j] = r[i].ranking[k] => j = k
  <2>1. r[i].cpu = t[i] /\ r[i].ranking \in SetToSeqs(ToSet(t) \ {t[i]})
    BY <1>1 DEF IsRanking, Neighbours
  <2>2. t[i] \in ToSet(t)
    BY <1>1 DEF ToSet
  <2>3. Cardinality(ToSet(t) \ {t[i]}) = n - 1
    BY <1>2, <2>2, FS_RemoveElement
  <2> QED
    BY <2>1, <2>3 DEF SetToSeqs
<1>4. ToSet(t) \subseteq CPUs
  BY <1>1 DEF ToSet
<1>5. ASSUME NEW i \in 1 .. n
      PROVE  /\ r[i].ranking \in Seq(CPUs)
             /\ Len(r[i].ranking) = n - 1
  <2>1. n - 1 \in Nat
    BY <1>1
  <2>2. r[i].ranking \in [1 .. n - 1 -> CPUs]
    BY <1>3, <1>4
  <2>3. r[i].ranking \in Seq(CPUs)
    BY <2>1, <2>2, SeqDef
  <2> QED
    BY <2>1, <2>2, <2>3, LenProperties
<1>6. r \in [1 .. n -> [cpu : CPUs, ranking : Seq(CPUs)]]
  <2>1. r \in [1 .. n -> CoreRankings(t)]
    BY <1>1
  <2>2. ASSUME NEW i \in 1 .. n
        PROVE  r[i] \in [cpu : CPUs, ranking : Seq(CPUs)]
    BY <1>4, <1>5, <2>1 DEF CoreRankings
  <2> QED
    BY <2>1, <2>2
<1>7. r \in Seq([cpu : CPUs, ranking : Seq(CPUs)]) /\ Len(r) = n
  <2> DEFINE R == [cpu : CPUs, ranking : Seq(CPUs)]
  <2>1. r \in [1 .. n -> R] /\ n \in Nat
    BY <1>1, <1>6
  <2> HIDE DEF R
  <2>2. r \in Seq(R)
    BY <2>1, SeqDef
  <2>3. Len(r) = n
    BY <2>1, <2>2, LenProperties
  <2> QED
    BY <2>2, <2>3 DEF R
<1>9. ASSUME NEW i \in 1 .. n, NEW j \in 1 .. n - 1
      PROVE  /\ r[i].ranking[j] # r[i].cpu
             /\ \E x \in 1 .. n : r[i].ranking[j] = r[x].cpu
  <2>1. r[i].ranking[j] \in ToSet(t) \ {t[i]}
    BY <1>3
  <2>2. PICK x \in 1 .. n : r[i].ranking[j] = t[x]
    BY <1>1, <2>1 DEF ToSet
  <2> QED
    BY <1>3, <2>1, <2>2
<1>10. \A i, j \in 1 .. n : r[i].cpu = r[j].cpu => i = j
  BY <1>1, <1>3
<1>11. ASSUME NEW i \in 1 .. n, NEW j \in 1 .. n - 1
       PROVE  /\ r[i].ranking[j] # r[i].cpu
              /\ \E x \in 1 .. n : r[i].ranking[j] = r[x].cpu
              /\ \A k \in 1 .. n - 1 :
                    r[i].ranking[j] = r[i].ranking[k] => j = k
  BY <1>3, <1>9
<1>12. CacheShape(r)
  <2>1. r \in Seq([cpu : CPUs, ranking : Seq(CPUs)])
    BY <1>7
  <2>2. \A i, j \in 1 .. Len(r) : r[i].cpu = r[j].cpu => i = j
    BY <1>7, <1>10
  <2>3. ASSUME NEW i \in 1 .. Len(r)
        PROVE  Len(r[i].ranking) = Len(r) - 1
    BY <1>5, <1>7
  <2>4. ASSUME NEW i \in 1 .. Len(r), NEW j \in 1 .. Len(r) - 1
        PROVE  /\ r[i].ranking[j] # r[i].cpu
               /\ \E x \in 1 .. Len(r) : r[i].ranking[j] = r[x].cpu
               /\ \A k \in 1 .. Len(r) - 1 :
                     r[i].ranking[j] = r[i].ranking[k] => j = k
    BY <1>7, <1>11
  <2> QED
    BY <2>1, <2>2, <2>3, <2>4 DEF CacheShape
<1> QED
  BY <1>7, <1>12 DEF n

\* So does everything that Update can install.
LEMMA CachesShape ==
    ASSUME NEW r \in Caches
    PROVE  CacheShape(r)
  BY RankingShape DEF Caches

-----------------------------------------------------------------------------
(* What SelectCPUs makes of a ranking                                      *)

\* A selection has as many CPUs as requested, all different and all ranked.
LEMMA SelectionShape ==
    \A r : CacheShape(r) => \A i, n \in 1 .. Len(r) :
        /\ Selection(r[i], n) \in Seq(CPUs)
        /\ Len(Selection(r[i], n)) = n
        /\ \A a, b \in 1 .. n :
              Selection(r[i], n)[a] = Selection(r[i], n)[b] => a = b
        /\ \A a \in 1 .. n : \E x \in 1 .. Len(r) :
              Selection(r[i], n)[a] = r[x].cpu
<1> TAKE r
<1> HAVE CacheShape(r)
<1> TAKE i, n \in 1 .. Len(r)
<1> DEFINE p == r[i]
           near == SubSeq(p.ranking, 1, n - 1)
           sel == <<p.cpu>> \o near
<1>1. Len(r) \in Nat /\ n - 1 \in Nat
  BY LenProperties DEF CacheShape
<1>2. p \in [cpu : CPUs, ranking : Seq(CPUs)]
  BY ElementOfSeq DEF CacheShape
<1>3. p.cpu \in CPUs /\ p.ranking \in Seq(CPUs) /\ Len(p.ranking) = Len(r) - 1
  BY <1>2 DEF CacheShape
<1>4. Selection(p, n) = sel
  BY <1>1, <1>3 DEF Selection
<1>5. \A j \in 1 .. n - 1 : j \in 1 .. Len(r) - 1
  BY <1>1
<1>6. \A j \in 1 .. n - 1 : p.ranking[j] \in CPUs
  BY <1>3, <1>5, ElementOfSeq
<1>7. /\ near \in Seq(CPUs)
      /\ Len(near) = n - 1
      /\ \A j \in 1 .. n - 1 : near[j] = p.ranking[j]
  <2> HIDE DEF p
  <2> QED
    BY <1>1, <1>6, SubSeqProperties
<1>8. \A j \in 1 .. n - 1 :
         /\ near[j] # p.cpu
         /\ \E x \in 1 .. Len(r) : near[j] = r[x].cpu
         /\ \A k \in 1 .. n - 1 : near[j] = near[k] => j = k
  <2>1. \A j \in 1 .. Len(r) - 1 :
           /\ p.ranking[j] # p.cpu
           /\ \E x \in 1 .. Len(r) : p.ranking[j] = r[x].cpu
           /\ \A k \in 1 .. Len(r) - 1 : p.ranking[j] = p.ranking[k] => j = k
    BY DEF CacheShape
  <2> HIDE DEF near, p
  <2> QED
    BY <1>5, <1>7, <2>1
<1> HIDE DEF near, p
<1>9. /\ sel \in Seq(CPUs)
      /\ Len(sel) = n
      /\ sel[1] = p.cpu
      /\ \A a \in 2 .. n : sel[a] = near[a - 1]
  <2>1. <<p.cpu>> \in Seq(CPUs) /\ Len(<<p.cpu>>) = 1 /\ <<p.cpu>>[1] = p.cpu
    BY <1>3
  <2> QED
    BY <1>1, <1>7, <2>1, ConcatProperties
<1> HIDE DEF sel
<1>10. \A a, b \in 1 .. n : sel[a] = sel[b] => a = b
  <2>1. ASSUME NEW a \in 1 .. n, NEW b \in 1 .. n, sel[a] = sel[b], a < b
        PROVE  FALSE
    <3>1. b - 1 \in 1 .. n - 1 /\ sel[b] = near[b - 1]
      BY <1>1, <1>9, <2>1
    <3>2. CASE a = 1
      BY <1>8, <1>9, <2>1, <3>1, <3>2
    <3>3. CASE a # 1
      <4>1. a - 1 \in 1 .. n - 1 /\ sel[a] = near[a - 1]
        BY <1>1, <1>9, <3>3
      <4> QED
        BY <1>8, <2>1, <3>1, <4>1
    <3> QED
      BY <3>2, <3>3
  <2> QED
    BY <1>1, <2>1
<1>11. ASSUME NEW a \in 1 .. n
       PROVE  \E x \in 1 .. Len(r) : sel[a] = r[x].cpu
  <2>1. CASE a = 1
    BY <1>9, <2>1 DEF p
  <2>2. CASE a # 1
    <3>1. a - 1 \in 1 .. n - 1 /\ sel[a] = near[a - 1]
      BY <1>1, <1>9, <2>2
    <3> QED
      BY <1>8, <3>1
  <2> QED
    BY <2>1, <2>2
<1> QED
  BY <1>4, <1>9, <1>10, <1>11 DEF p

-----------------------------------------------------------------------------
(* The invariant, its parts and the facts about single actions             *)

IInv == TypeOK /\ SelectionsFromCache /\ AnswerExact /\ RoundRobin

\* The cache of every state has the shape of a ranking.
LEMMA CacheIsRanking ==
    ASSUME cache \in Caches
    PROVE  /\ CacheShape(cache)
           /\ Len(cache) \in Nat
           /\ DOMAIN cache = 1 .. Len(cache)
           /\ cache # <<>> <=> Len(cache) > 0
<1>1. CacheShape(cache)
  BY CachesShape
<1>2. cache \in Seq([cpu : CPUs, ranking : Seq(CPUs)])
  BY <1>1 DEF CacheShape
<1> QED
  BY <1>1, <1>2, LenProperties, EmptySeq

\* The empty ranking is a ranking (of a topology without CPUs).
LEMMA EmptyIsCache == <<>> \in Caches
<1>1. Cardinality(CPUs) \in Nat
  BY CpuInfoAssumption, FS_CardinalityType
<1>2. <<>> \in [1 .. 0 -> CPUs]
  OBVIOUS
<1>3. <<>> \in Topologies
  BY <1>1, <1>2 DEF Topologies, BoundedSeq, SeqOf, Increasing
<1>4. <<>> \in [DOMAIN <<>> -> CoreRankings(<<>>)]
  OBVIOUS
<1>5. IsRanking(<<>>, <<>>)
  BY DEF IsRanking
<1> QED
  BY <1>3, <1>4, <1>5 DEF Caches

\* New: an object that has ranked nothing satisfies the invariant.
LEMMA InitInvariant == Init => IInv
<1> SUFFICES ASSUME Init PROVE IInv
  OBVIOUS
<1> USE DEF Init
<1>1. TypeOK
  <2>1. <<>> \in Seq(CPUs)
    OBVIOUS
  <2> QED
    BY <2>1, EmptyIsCache, CpuInfoAssumption
       DEF TypeOK, NoSelections, UpdateStates, None, Requests
<1>2. SelectionsFromCache
  BY DEF SelectionsFromCache, NoSelections
<1>3. AnswerExact
  BY DEF AnswerExact, None
<1>4. RoundRobin
  BY DEF RoundRobin
<1> QED
  BY <1>1, <1>2, <1>3, <1>4 DEF IInv

\* What is common to the steps that only touch measuring and answer.
LEMMA Untouched ==
    ASSUME IInv, UNCHANGED <<cache, lastIndex, selections, opened>>,
           measuring' \in [Updaters -> UpdateStates],
           answer' \in [asked : Requests, cpus : Seq(CPUs)],
           answer'.cpus # <<>> => /\ Len(answer'.cpus) = answer'.asked
                                  /\ IsInjective(answer'.cpus)
    PROVE  IInv'
  BY DEF IInv, TypeOK, SelectionsFromCache, AnswerExact, RoundRobin, Turn

\* Update, detection: the shared variables are not touched.
LEMMA DetectInvariant ==
    ASSUME IInv, NEW u \in Updaters, NEW t \in Topologies, UpdateDetect(u, t)
    PROVE  IInv'
<1>1. Busy(t) \in UpdateStates
  BY DEF UpdateStates
<1>2. measuring' \in [Updaters -> UpdateStates]
  BY <1>1 DEF UpdateDetect, IInv, TypeOK
<1> QED
  BY <1>2, Untouched DEF UpdateDetect, IInv, TypeOK, AnswerExact

\* Update, error path: the shared variables are not touched.
LEMMA FailInvariant ==
    ASSUME IInv, NEW u \in Updaters, UpdateFail(u)
    PROVE  IInv'
<1>1. Idle \in UpdateStates
  BY DEF UpdateStates
<1>2. measuring' \in [Updaters -> UpdateStates]
  BY <1>1 DEF UpdateFail, IInv, TypeOK
<1> QED
  BY <1>2, Untouched DEF UpdateFail, IInv, TypeOK, AnswerExact

\* lastIndex after an installation is a position of the new cache.
LEMMA InstallWraps ==
    ASSUME IInv, NEW r \in Caches
    PROVE  /\ Wrapped(lastIndex, r) \in Nat
           /\ Wrapped(lastIndex, r) < Len(r) \/ Wrapped(lastIndex, r) = 0
<1>1. CacheShape(r)
  BY CachesShape
<1>2. Len(r) \in Nat
  BY <1>1, LenProperties DEF CacheShape
<1>3. lastIndex \in Nat
  BY DEF IInv, TypeOK
<1> QED
  BY <1>2, <1>3, ModRange DEF Wrapped

\* Update, locked end: the new cache satisfies the invariant from scratch.
LEMMA InstallInvariant ==
    ASSUME IInv, NEW u \in Updaters, UpdateInstall(u)
    PROVE  IInv'
<1>1. cache' \in Caches
  BY DEF UpdateInstall
<1>2. TypeOK'
  <2>1. /\ lastIndex' \in Nat
        /\ lastIndex' < Len(cache') \/ lastIndex' = 0
    BY <1>1, InstallWraps DEF UpdateInstall
  <2>2. selections' \in [VMs -> Seq(CPUs)]
    BY DEF UpdateInstall, NoSelections
  <2>3. measuring' \in [Updaters -> UpdateStates]
    BY DEF UpdateInstall, IInv, TypeOK, UpdateStates
  <2>4. opened' \in [DOMAIN cache' -> Nat]
    BY DEF UpdateInstall
  <2>5. answer' \in [asked : Requests, cpus : Seq(CPUs)]
    BY DEF UpdateInstall, IInv, TypeOK
  <2> QED
    BY <1>1, <2>1, <2>2, <2>3, <2>4, <2>5 DEF TypeOK
<1>3. SelectionsFromCache'
  BY DEF UpdateInstall, SelectionsFromCache, NoSelections
<1>4. AnswerExact'
  BY DEF UpdateInstall, IInv, AnswerExact
<1>5. RoundRobin'
  <2>1. /\ opened' \in [DOMAIN cache' -> {0, 1}]
        /\ \A i \in DOMAIN cache' : opened'[i] = 0
    BY DEF UpdateInstall
  <2>2. cache' # <<>> => DOMAIN cache' # {}
    BY <1>1, CacheIsRanking, CachesShape, LenProperties, EmptySeq DEF CacheShape
  <2> QED
    BY <2>1, <2>2 DEF RoundRobin
<1> QED
  BY <1>2, <1>3, <1>4, <1>5 DEF IInv

\* SelectionShape of the cache of the present state.
LEMMA SelectionOfCache ==
    CacheShape(cache) => \A i, n \in 1 .. Len(cache) :
        /\ Selection(cache[i], n) \in Seq(CPUs)
        /\ Len(Selection(cache[i], n)) = n
        /\ \A a, b \in 1 .. n :
              Selection(cache[i], n)[a] = Selection(cache[i], n)[b] => a = b
        /\ \A a \in 1 .. n : \E x \in 1 .. Len(cache) :
              Selection(cache[i], n)[a] = cache[x].cpu
  BY SelectionShape

\* SelectCPUs, error: the answer is empty and nothing else changed.
LEMMA ErrorInvariant ==
    ASSUME IInv, NEW v \in VMs, NEW n \in Requests, SelectError(v, n)
    PROVE  IInv'
<1>1. answer' = [asked |-> n, cpus |-> <<>>]
  BY DEF SelectError, Answer
<1>2. answer' \in [asked : Requests, cpus : Seq(CPUs)] /\ answer'.cpus = <<>>
  BY <1>1
<1> QED
  BY <1>2, Untouched DEF SelectError, IInv, TypeOK

\* What a recorded selection is: different ranked CPUs.
LEMMA RecordedSelection ==
    ASSUME IInv, NEW v \in VMs, selections[v] # <<>>
    PROVE  /\ selections[v] \in Seq(CPUs)
           /\ Len(selections[v]) \in Nat
           /\ \A a, b \in 1 .. Len(selections[v]) :
                 selections[v][a] = selections[v][b] => a = b
<1>1. CacheShape(cache) /\ Len(cache) \in Nat /\ DOMAIN cache = 1 .. Len(cache)
  BY CacheIsRanking DEF IInv, TypeOK
<1>2. PICK i \in 1 .. Len(cache), n \in 1 .. Len(cache) :
         selections[v] = Selection(cache[i], n)
  BY <1>1 DEF IInv, SelectionsFromCache
<1> DEFINE sel == Selection(cache[i], n)
<1>3. /\ sel \in Seq(CPUs)
      /\ Len(sel) = n
      /\ \A a, b \in 1 .. n : sel[a] = sel[b] => a = b
  BY <1>1, SelectionOfCache
<1> HIDE DEF sel
<1>4. selections[v] = sel
  BY <1>2 DEF sel
<1> QED
  BY <1>1, <1>3, <1>4

\* SelectCPUs, repeated request: the answer is the recorded selection, and
\* this one has as many CPUs as requested, all different.
LEMMA StickyInvariant ==
    ASSUME IInv, NEW v \in VMs, NEW n \in Requests, SelectSticky(v, n)
    PROVE  IInv'
<1>1. selections[v] # <<>> /\ Len(selections[v]) = n
  BY DEF SelectSticky, Sticky
<1>2. answer' = [asked |-> n, cpus |-> selections[v]]
  BY DEF SelectSticky, Answer
<1>3. selections[v] \in Seq(CPUs)
  BY <1>1, RecordedSelection
<1>4. IsInjective(selections[v])
  <2>1. DOMAIN selections[v] = 1 .. Len(selections[v])
    BY <1>3, LenProperties
  <2> QED
    BY <1>1, <2>1, RecordedSelection DEF IsInjective
<1>5. /\ answer' \in [asked : Requests, cpus : Seq(CPUs)]
      /\ Len(answer'.cpus) = answer'.asked
      /\ IsInjective(answer'.cpus)
  BY <1>1, <1>2, <1>3, <1>4
<1> QED
  BY <1>5, Untouched DEF SelectSticky, IInv, TypeOK

\* Where SelectFresh goes: the position whose turn it is, lastIndex + 1 when
\* counted from 1, has not opened a selection in this round.
LEMMA NextPosition ==
    ASSUME IInv, cache # <<>>
    PROVE  /\ CacheShape(cache)
           /\ Len(cache) \in Nat \ {0}
           /\ DOMAIN cache = 1 .. Len(cache)
           /\ lastIndex \in 0 .. Len(cache) - 1
           /\ NextIndex \in 0 .. Len(cache) - 1
           /\ lastIndex + 1 = Len(cache) => NextIndex = 0
           /\ lastIndex + 1 # Len(cache) => NextIndex = lastIndex + 1
<1>1. CacheShape(cache) /\ Len(cache) \in Nat \ {0} /\ DOMAIN cache = 1 .. Len(cache)
  BY CacheIsRanking DEF IInv, TypeOK
<1>2. lastIndex \in 0 .. Len(cache) - 1
  BY <1>1 DEF IInv, TypeOK
<1>3. /\ NextIndex \in 0 .. Len(cache) - 1
      /\ lastIndex + 1 = Len(cache) => NextIndex = 0
      /\ lastIndex + 1 # Len(cache) => NextIndex = lastIndex + 1
  BY <1>1, <1>2, ModNext DEF NextIndex
<1> QED
  BY <1>1, <1>2, <1>3

\* How the turns of the present state and of one in which the next position
\* was taken are related.
LEMMA TurnsOfNext ==
    ASSUME IInv, cache # <<>>, NEW i \in 1 .. Len(cache)
    PROVE  /\ Turn(i) \in 1 .. Len(cache)
           /\ TurnFrom(NextIndex, Len(cache), i) \in 1 .. Len(cache)
           /\ Turn(NextIndex + 1) = 1
           /\ TurnFrom(NextIndex, Len(cache), NextIndex + 1) = Len(cache)
           /\ i # NextIndex + 1 =>
                 /\ Turn(i) > 1
                 /\ TurnFrom(NextIndex, Len(cache), i) = Turn(i) - 1
<1> DEFINE n == Len(cache)
           l == lastIndex
           m == NextIndex
<1>1. /\ n \in Nat \ {0} /\ l \in 0 .. n - 1 /\ m \in 0 .. n - 1
      /\ l + 1 = n => m = 0
      /\ l + 1 # n => m = l + 1
  BY NextPosition
<1>2. \A j : Turn(j) = TurnFrom(l, n, j)
  BY DEF Turn, TurnFrom
<1>3. i \in 1 .. n
  OBVIOUS
<1> HIDE DEF n, l, m
<1>4. /\ TurnFrom(l, n, i) \in 1 .. n
      /\ TurnFrom(m, n, i) \in 1 .. n
      /\ TurnFrom(l, n, m + 1) = 1
      /\ TurnFrom(m, n, m + 1) = n
      /\ i # m + 1 => /\ TurnFrom(l, n, i) > 1
                      /\ TurnFrom(m, n, i) = TurnFrom(l, n, i) - 1
  BY <1>1, <1>3 DEF TurnFrom
<1> QED
  BY <1>2, <1>4 DEF n, m

\* The next position has not opened a selection in this round: it has the
\* lowest turn, and some position has not.
LEMMA NextHasNotOpened ==
    ASSUME IInv, cache # <<>>
    PROVE  NextIndex + 1 \in 1 .. Len(cache) /\ opened[NextIndex + 1] = 0
<1> DEFINE p == NextIndex + 1
<1>1. Len(cache) \in Nat \ {0} /\ DOMAIN cache = 1 .. Len(cache)
  BY NextPosition
<1>2. p \in 1 .. Len(cache)
  BY <1>1, NextPosition
<1>3. PICK i \in 1 .. Len(cache) : opened[i] = 0
  BY <1>1 DEF IInv, RoundRobin
<1>4. i # p => Turn(p) < Turn(i)
  BY <1>1, TurnsOfNext
<1> HIDE DEF p
<1>5. i # p => opened[p] <= opened[i]
  BY <1>1, <1>2, <1>4 DEF IInv, RoundRobin
<1>6. opened[p] \in {0, 1}
  BY <1>1, <1>2 DEF IInv, RoundRobin
<1>7. opened[p] = 0
  BY <1>3, <1>5, <1>6
<1> QED
  BY <1>2, <1>7 DEF p

\* A new selection moves the position it opens from the first turn to the last
\* and every other one a turn forward, so the order of RoundRobin is kept.
LEMMA FreshRoundRobin ==
    ASSUME IInv, NEW v \in VMs, NEW n \in Requests, SelectFresh(v, n)
    PROVE  RoundRobin'
<1> DEFINE len == Len(cache)
           p == NextIndex + 1
           more == [opened EXCEPT ![p] = @ + 1]
<1>1. /\ len \in Nat \ {0} /\ DOMAIN cache = 1 .. len
      /\ p \in 1 .. len
      /\ opened[p] = 0
  BY NextPosition, NextHasNotOpened DEF SelectFresh
<1>2. cache' = cache /\ lastIndex' = NextIndex /\ opened' = Count(p)
  BY DEF SelectFresh
<1>3. opened \in [1 .. len -> {0, 1}]
  BY <1>1 DEF IInv, RoundRobin
<1>4. ASSUME NEW i \in 1 .. len
      PROVE  /\ Turn(i) \in 1 .. len
             /\ Turn(i)' \in 1 .. len
             /\ i = p => Turn(i)' = len
             /\ i # p => Turn(i)' = Turn(i) - 1
  <2>1. Turn(i)' = TurnFrom(NextIndex, len, i)
    BY <1>2 DEF Turn, TurnFrom
  <2>2. /\ Turn(i) \in 1 .. len
        /\ TurnFrom(NextIndex, len, i) \in 1 .. len
        /\ TurnFrom(NextIndex, len, p) = len
        /\ i # p => TurnFrom(NextIndex, len, i) = Turn(i) - 1
    BY TurnsOfNext DEF SelectFresh
  <2> QED
    BY <2>1, <2>2
<1> HIDE DEF len, p
<1>5. /\ more \in [1 .. len -> {0, 1}] /\ more[p] = 1
      /\ \A i \in 1 .. len : i # p => more[i] = opened[i]
  BY <1>1, <1>3
<1>6. opened' = IF \A j \in 1 .. len : more[j] > 0
                  THEN [j \in 1 .. len |-> more[j] - 1] ELSE more
  BY <1>2, <1>5 DEF Count
<1> HIDE DEF more
<1>7. CASE \A j \in 1 .. len : more[j] > 0
  <2>1. \A j \in 1 .. len : more[j] - 1 = 0
    BY <1>5, <1>7
  <2>2. opened' \in [1 .. len -> {0, 1}] /\ \A j \in 1 .. len : opened'[j] = 0
    BY <1>6, <1>7, <2>1
  <2> QED
    BY <1>1, <1>2, <2>2 DEF RoundRobin
<1>8. CASE ~\A j \in 1 .. len : more[j] > 0
  <2>1. opened' = more
    BY <1>6, <1>8
  <2>2. \E i \in 1 .. len : more[i] = 0
    BY <1>5, <1>8
  <2>3. ASSUME NEW i \in 1 .. len, NEW j \in 1 .. len, Turn(i)' < Turn(j)'
        PROVE  more[i] <= more[j]
    <3>1. CASE j = p
      BY <1>5, <3>1
    <3>2. CASE j # p
      <4>1. i # p
        <5>1. Turn(j)' \in 1 .. len
          BY <1>4
        <5>2. i = p => Turn(i)' = len
          BY <1>4
        <5> QED
          BY <1>1, <2>3, <5>1, <5>2
      <4>2. Turn(i) < Turn(j)
        BY <1>1, <1>4, <2>3, <3>2, <4>1
      <4>3. opened[i] <= opened[j]
        BY <1>1, <4>2 DEF IInv, RoundRobin
      <4> QED
        BY <1>5, <3>2, <4>1, <4>3
    <3> QED
      BY <3>1, <3>2
  <2> QED
    BY <1>1, <1>2, <1>5, <2>1, <2>2, <2>3 DEF RoundRobin
<1> QED
  BY <1>7, <1>8

\* SelectCPUs, new selection: all parts of the invariant are kept.
LEMMA FreshInvariant ==
    ASSUME IInv, NEW v \in VMs, NEW n \in Requests, SelectFresh(v, n)
    PROVE  IInv'
<1> DEFINE res == Selection(cache[NextIndex + 1], n)
<1>1. /\ CacheShape(cache)
      /\ Len(cache) \in Nat \ {0} /\ DOMAIN cache = 1 .. Len(cache)
      /\ NextIndex + 1 \in 1 .. Len(cache)
      /\ NextIndex \in 0 .. Len(cache) - 1
  BY NextPosition, NextHasNotOpened DEF SelectFresh
<1>2. n \in 1 .. Len(cache)
  BY <1>1 DEF SelectFresh, Requests
<1>3. /\ res \in Seq(CPUs) /\ Len(res) = n
      /\ \A a, b \in 1 .. n : res[a] = res[b] => a = b
  <2> DEFINE i == NextIndex + 1
  <2>1. i \in 1 .. Len(cache)
    BY <1>1
  <2> HIDE DEF i
  <2>2. /\ Selection(cache[i], n) \in Seq(CPUs)
        /\ Len(Selection(cache[i], n)) = n
        /\ \A a, b \in 1 .. n :
              Selection(cache[i], n)[a] = Selection(cache[i], n)[b] => a = b
    BY <1>1, <1>2, <2>1, SelectionOfCache
  <2> QED
    BY <2>2 DEF i
<1>4. /\ cache' = cache /\ measuring' = measuring /\ lastIndex' = NextIndex
      /\ selections' = [selections EXCEPT ![v] = res]
      /\ answer' = [asked |-> n, cpus |-> res]
  BY DEF SelectFresh, Answer
<1>5. RoundRobin'
  BY FreshRoundRobin
<1>6. SelectionsFromCache'
  <2>1. ASSUME NEW w \in VMs, selections'[w] # <<>>
        PROVE  \E i \in DOMAIN cache : \E m \in 1 .. Len(cache) :
                  selections'[w] = Selection(cache[i], m)
    <3>1. CASE w = v
      BY <1>1, <1>2, <1>4, <3>1 DEF IInv, TypeOK
    <3>2. CASE w # v
      <4> HIDE DEF res
      <4>1. selections'[w] = selections[w]
        BY <1>4, <3>2
      <4> QED
        BY <2>1, <4>1 DEF IInv, SelectionsFromCache
    <3> QED
      BY <3>1, <3>2
  <2> QED
    BY <1>4, <2>1 DEF SelectionsFromCache
<1> HIDE DEF res
<1>7. AnswerExact'
  <2>1. DOMAIN res = 1 .. n
    BY <1>3, LenProperties
  <2> QED
    BY <1>3, <1>4, <2>1 DEF AnswerExact, IsInjective
<1>8. TypeOK'
  <2>1. lastIndex' \in Nat /\ lastIndex' < Len(cache')
    BY <1>1, <1>4
  <2>2. selections' \in [VMs -> Seq(CPUs)]
    BY <1>3, <1>4 DEF IInv, TypeOK
  <2>3. opened' \in [DOMAIN cache' -> Nat]
    BY <1>5 DEF RoundRobin
  <2> QED
    BY <1>3, <1>4, <2>1, <2>2, <2>3 DEF IInv, TypeOK
<1> QED
  BY <1>5, <1>6, <1>7, <1>8 DEF IInv

\* Every step keeps the invariant.
LEMMA NextInvariant == IInv /\ [Next]_vars => IInv'
<1> SUFFICES ASSUME IInv, [Next]_vars PROVE IInv'
  OBVIOUS
<1>1. ASSUME NEW u \in Updaters, Update(u) PROVE IInv'
  BY <1>1, DetectInvariant, FailInvariant, InstallInvariant DEF Update
<1>2. ASSUME NEW v \in VMs, NEW n \in Requests, SelectCPUs(v, n) PROVE IInv'
  BY <1>2, ErrorInvariant, StickyInvariant, FreshInvariant DEF SelectCPUs
<1>3. CASE UNCHANGED vars
  BY <1>3 DEF vars, IInv, TypeOK, SelectionsFromCache, AnswerExact, RoundRobin,
              Turn
<1> QED
  BY <1>1, <1>2, <1>3 DEF Next

-----------------------------------------------------------------------------
(* What holds of every behaviour                                           *)

\* IInv is an inductive invariant of CpuInfo.
THEOREM Invariance == Spec => []IInv
  BY InitInvariant, NextInvariant, PTL DEF Spec

\* CPUInfo's fields always have their types; lastIndex stays a position of the
\* cache through every installation of a shorter ranking.
THEOREM TypeCorrect == Spec => []TypeOK
<1>1. IInv => TypeOK
  BY DEF IInv
<1> QED
  BY <1>1, Invariance, PTL

\* However many Update goroutines finish in whatever order, no VM keeps CPUs of
\* an earlier ranking.
THEOREM NoStaleSelections == Spec => []SelectionsFromCache
<1>1. IInv => SelectionsFromCache
  BY DEF IInv
<1> QED
  BY <1>1, Invariance, PTL

\* SelectCPUs returns an error or exactly the requested number of CPUs.
THEOREM ExactAnswers == Spec => []AnswerExact
<1>1. IInv => AnswerExact
  BY DEF IInv
<1> QED
  BY <1>1, Invariance, PTL

\* In every round the positions open a selection in the order of the cache.
THEOREM RoundRobinOrder == Spec => []RoundRobin
<1>1. IInv => RoundRobin
  BY DEF IInv
<1> QED
  BY <1>1, Invariance, PTL

\* No CPU is ever two selections ahead of another.
THEOREM Even == Spec => []EvenDistribution
<1>1. IInv => EvenDistribution
  <2>1. RoundRobin => opened \in [DOMAIN cache -> {0, 1}]
    BY DEF RoundRobin
  <2> QED
    BY <2>1 DEF IInv, EvenDistribution
<1> QED
  BY <1>1, Invariance, PTL

\* An installation of the cache that is there already leaves lastIndex alone.
LEMMA InstallKeepsTurn ==
    ASSUME IInv, NEW u \in Updaters, UpdateInstall(u), cache' = cache
    PROVE  lastIndex' = lastIndex
<1>1. Len(cache) \in Nat /\ (cache # <<>> <=> Len(cache) > 0)
  BY CacheIsRanking DEF IInv, TypeOK
<1>2. lastIndex \in Nat /\ (lastIndex < Len(cache) \/ lastIndex = 0)
  BY DEF IInv, TypeOK
<1>3. Len(cache) > 0 => lastIndex % Len(cache) = lastIndex
  BY <1>1, <1>2
<1>4. lastIndex' = Wrapped(lastIndex, cache)
  BY DEF UpdateInstall
<1> QED
  BY <1>1, <1>2, <1>3, <1>4 DEF Wrapped

\* What SelectFresh hands out: n different CPUs of the cache, where n is not
\* the number of CPUs the VM had.
LEMMA FreshSelection ==
    ASSUME IInv, NEW v \in VMs, NEW n \in Requests, SelectFresh(v, n)
    PROVE  \E s \in Seq(CPUs) :
              /\ selections' = [selections EXCEPT ![v] = s]
              /\ Answer(n, s)
              /\ n \in Nat \ {0} /\ Len(s) = n
              /\ \A a, b \in 1 .. n : s[a] = s[b] => a = b
              /\ \A a \in 1 .. n : \E x \in DOMAIN cache : s[a] = cache[x].cpu
              /\ selections[v] # <<>> => Len(selections[v]) # n
<1>1. /\ CacheShape(cache)
      /\ Len(cache) \in Nat \ {0} /\ DOMAIN cache = 1 .. Len(cache)
      /\ NextIndex + 1 \in 1 .. Len(cache)
  BY NextPosition, NextHasNotOpened DEF SelectFresh
<1>2. n \in 1 .. Len(cache)
  BY <1>1 DEF SelectFresh, Requests
<1> DEFINE i == NextIndex + 1
           res == Selection(cache[i], n)
<1>3. selections' = [selections EXCEPT ![v] = res] /\ Answer(n, res)
  BY DEF SelectFresh
<1>4. i \in 1 .. Len(cache)
  BY <1>1
<1>5. selections[v] # <<>> => Len(selections[v]) # n
  BY DEF SelectFresh, Sticky
<1> HIDE DEF i
<1>6. /\ res \in Seq(CPUs) /\ Len(res) = n
      /\ \A a, b \in 1 .. n : res[a] = res[b] => a = b
      /\ \A a \in 1 .. n : \E x \in 1 .. Len(cache) : res[a] = cache[x].cpu
  BY <1>1, <1>2, <1>4, SelectionOfCache
<1> HIDE DEF res
<1>7. /\ n \in Nat \ {0}
      /\ \A a \in 1 .. n : \E x \in DOMAIN cache : res[a] = cache[x].cpu
  <2>1. n \in Nat \ {0}
    BY <1>1, <1>2
  <2>2. DOMAIN cache = 1 .. Len(cache)
    BY <1>1
  <2> QED
    BY <1>6, <2>1, <2>2
<1>8. res \in Seq(CPUs)
  BY <1>6
<1> WITNESS res \in Seq(CPUs)
<1> QED
  BY <1>3, <1>5, <1>6, <1>7

\* One step of TurnsAreGrants.
LEMMA TurnIsGrant ==
    ASSUME IInv, [Next]_vars, cache' = cache, lastIndex' # lastIndex
    PROVE  \E v \in VMs : selections'[v] # selections[v]
<1>1. ASSUME NEW u \in Updaters, Update(u) PROVE FALSE
  BY <1>1, InstallKeepsTurn DEF Update, UpdateDetect, UpdateFail
<1>2. ASSUME NEW v \in VMs, NEW n \in Requests, SelectFresh(v, n)
      PROVE  selections'[v] # selections[v]
  <2>1. PICK s \in Seq(CPUs) :
           /\ selections' = [selections EXCEPT ![v] = s]
           /\ n \in Nat \ {0} /\ Len(s) = n
           /\ selections[v] # <<>> => Len(selections[v]) # n
    BY <1>2, FreshSelection
  <2>2. selections'[v] = s
    BY <2>1 DEF IInv, TypeOK
  <2>3. s # <<>>
    BY <2>1
  <2> QED
    BY <2>1, <2>2, <2>3
<1>3. ASSUME NEW v \in VMs, NEW n \in Requests,
             SelectError(v, n) \/ SelectSticky(v, n)
      PROVE  FALSE
  BY <1>3 DEF SelectError, SelectSticky
<1>4. CASE UNCHANGED vars
  BY <1>4 DEF vars
<1> QED
  BY <1>1, <1>2, <1>3, <1>4 DEF Next, SelectCPUs

\* A request that fails or is repeated never uses up a turn of the round robin.
THEOREM TurnsOnlyForGrants == Spec => TurnsAreGrants
<1>1. IInv /\ [Next]_vars =>
         [cache' = cache /\ lastIndex' # lastIndex
             => \E v \in VMs : selections'[v] # selections[v]]_vars
  BY TurnIsGrant
<1> QED
  BY <1>1, Invariance, PTL DEF Spec, TurnsAreGrants

-----------------------------------------------------------------------------
(* CpuInfo implements AffinityMap                                          *)

\* The initial states are initial states of the abstract specification.
LEMMA RefinesInit == Init => Map!Init
<1> SUFFICES ASSUME Init PROVE Map!Init
  OBVIOUS
<1>1. RankedCPUs = {}
  BY DEF Init, RankedCPUs
<1>2. \A v \in VMs : ToSet(selections[v]) = {}
  BY DEF Init, NoSelections, ToSet
<1> QED
  BY <1>1, <1>2 DEF Map!Init, Map!NoGrants

\* An installation withdraws every grant.
LEMMA InstallRebuilds ==
    ASSUME NEW u \in Updaters, UpdateInstall(u)
    PROVE  Map!Rebuild
<1> DEFINE R == [cpu : CPUs, ranking : Seq(CPUs)]
<1>1. CacheShape(cache')
  BY CachesShape DEF UpdateInstall
<1>2. cache' \in Seq(R)
  BY <1>1 DEF CacheShape
<1>3. \A i \in DOMAIN cache' : cache'[i] \in R
  <2> HIDE DEF R
  <2> QED
    BY <1>2, LenProperties, ElementOfSeq
<1>4. \A i \in DOMAIN cache' : cache'[i].cpu \in CPUs
  BY <1>3
<1>5. RankedCPUs' \in SUBSET CPUs
  BY <1>4 DEF RankedCPUs
<1>6. \A v \in VMs : ToSet(selections'[v]) = {}
  BY DEF UpdateInstall, NoSelections, ToSet
<1> QED
  BY <1>5, <1>6 DEF Map!Rebuild, Map!NoGrants

\* The instance's Cardinality is that of FiniteSets.
LEMMA SameCardinality == \A S : Map!Cardinality(S) = Cardinality(S)
  BY DEF Map!Cardinality, Cardinality

\* A VM is granted as many CPUs as its selection is long.
LEMMA GrantedSize ==
    ASSUME IInv, NEW v \in VMs
    PROVE  /\ Len(selections[v]) \in Nat
           /\ Cardinality(ToSet(selections[v])) = Len(selections[v])
<1>1. CASE selections[v] = <<>>
  <2>1. ToSet(selections[v]) = {} /\ Len(selections[v]) = 0
    BY <1>1 DEF ToSet
  <2> QED
    BY <2>1, FS_EmptySet
<1>2. CASE selections[v] # <<>>
  <2> DEFINE m == Len(selections[v])
  <2>1. /\ m \in Nat
        /\ selections[v] \in [1 .. m -> CPUs]
        /\ \A a, b \in 1 .. m : selections[v][a] = selections[v][b] => a = b
    BY <1>2, RecordedSelection, LenProperties
  <2> HIDE DEF m
  <2>2. Cardinality(ToSet(selections[v])) = m
    BY <2>1, CardinalityOfDistinct
  <2> QED
    BY <2>1, <2>2 DEF m
<1> QED
  BY <1>1, <1>2

\* A new selection is a grant of ranked CPUs, in another number than before.
LEMMA FreshGrants ==
    ASSUME IInv, NEW v \in VMs, NEW n \in Requests, SelectFresh(v, n)
    PROVE  \E S \in SUBSET CPUs : /\ Map!Grant(v, S)
                                  /\ Cardinality(S) = n
                                  /\ ToSet(answer'.cpus) = S
<1>1. PICK s \in Seq(CPUs) :
         /\ selections' = [selections EXCEPT ![v] = s]
         /\ Answer(n, s)
         /\ n \in Nat \ {0} /\ Len(s) = n
         /\ \A a, b \in 1 .. n : s[a] = s[b] => a = b
         /\ \A a \in 1 .. n : \E x \in DOMAIN cache : s[a] = cache[x].cpu
         /\ selections[v] # <<>> => Len(selections[v]) # n
  BY FreshSelection
<1>2. s \in [1 .. n -> CPUs]
  BY <1>1, LenProperties
<1>3. Cardinality(ToSet(s)) = n
  BY <1>1, <1>2, CardinalityOfDistinct
<1>4. /\ ToSet(s) # {}
      /\ ToSet(s) \subseteq CPUs
      /\ ToSet(s) \subseteq RankedCPUs
  BY <1>1, <1>2 DEF ToSet, RankedCPUs
<1>5. Cardinality(ToSet(selections[v])) # n
  <2>1. Len(selections[v]) # n
    BY <1>1
  <2> QED
    BY <2>1, GrantedSize
<1>6. [w \in VMs |-> ToSet(selections[w])]' =
         [[w \in VMs |-> ToSet(selections[w])] EXCEPT ![v] = ToSet(s)]
  <2>1. selections \in [VMs -> Seq(CPUs)]
    BY DEF IInv, TypeOK
  <2> QED
    BY <1>1, <2>1
<1>7. RankedCPUs' = RankedCPUs
  BY DEF SelectFresh, RankedCPUs
<1>8. [w \in VMs |-> ToSet(selections[w])][v] = ToSet(selections[v])
  OBVIOUS
<1>9. Map!Grant(v, ToSet(s))
  BY <1>3, <1>4, <1>5, <1>6, <1>7, <1>8, SameCardinality DEF Map!Grant
<1>10. ToSet(answer'.cpus) = ToSet(s)
  BY <1>1 DEF Answer
<1> QED
  BY <1>3, <1>4, <1>9, <1>10

\* Every step maps to a step of the abstract specification or to a stutter.
LEMMA RefinesNext == IInv /\ [Next]_vars => [Map!Next]_Map!vars
<1> SUFFICES ASSUME IInv, [Next]_vars PROVE [Map!Next]_Map!vars
  OBVIOUS
<1>1. ASSUME UNCHANGED <<cache, selections>> PROVE UNCHANGED Map!vars
  BY <1>1 DEF Map!vars, RankedCPUs
<1>2. ASSUME NEW u \in Updaters, Update(u) PROVE [Map!Next]_Map!vars
  <2>1. CASE UpdateInstall(u)
    BY <2>1, InstallRebuilds DEF Map!Next
  <2>2. CASE UpdateFail(u) \/ \E t \in Topologies : UpdateDetect(u, t)
    BY <1>1, <2>2 DEF UpdateFail, UpdateDetect
  <2> QED
    BY <1>2, <2>1, <2>2 DEF Update
<1>3. ASSUME NEW v \in VMs, NEW n \in Requests, SelectCPUs(v, n)
      PROVE  [Map!Next]_Map!vars
  <2>1. CASE SelectFresh(v, n)
    BY <2>1, FreshGrants DEF Map!Next
  <2>2. CASE SelectError(v, n) \/ SelectSticky(v, n)
    BY <1>1, <2>2 DEF SelectError, SelectSticky
  <2> QED
    BY <1>3, <2>1, <2>2 DEF SelectCPUs
<1>4. CASE UNCHANGED vars
  BY <1>1, <1>4 DEF vars
<1> QED
  BY <1>2, <1>3, <1>4 DEF Next

\* CpuInfo does what AffinityMap promises.
THEOREM Refinement == Spec => ImplementsAffinityMap
  BY RefinesInit, RefinesNext, Invariance, PTL
     DEF Spec, ImplementsAffinityMap, Map!Spec

-----------------------------------------------------------------------------
(* SelectCPUs as Pinning has it: in terms of the CPUs ranked and granted   *)

\* The alternatives of Pinning's Select for a request of n CPUs: it fails, it
\* repeats what the VM has been granted, or it grants n ranked CPUs.
Granted(v) == ToSet(selections[v])
Fails(v, n) ==
    /\ n > Cardinality(RankedCPUs) /\ Cardinality(Granted(v)) # n
    /\ answer'.cpus = <<>>
    /\ UNCHANGED Map!vars
Repeats(v, n) ==
    /\ Cardinality(Granted(v)) = n
    /\ ToSet(answer'.cpus) = Granted(v)
    /\ UNCHANGED Map!vars
Grants(v, n) ==
    \E S \in SUBSET RankedCPUs : /\ Cardinality(S) = n
                                 /\ Map!Grant(v, S)
                                 /\ ToSet(answer'.cpus) = S

\* As many CPUs are ranked as the cache has positions.
LEMMA RankedCount ==
    ASSUME IInv
    PROVE  Len(cache) \in Nat /\ Cardinality(RankedCPUs) = Len(cache)
<1> DEFINE R == [cpu : CPUs, ranking : Seq(CPUs)]
           m == Len(cache)
           s == [i \in 1 .. m |-> cache[i].cpu]
<1>1. CacheShape(cache) /\ m \in Nat /\ DOMAIN cache = 1 .. m
  BY CacheIsRanking DEF IInv, TypeOK
<1>2. ASSUME NEW i \in 1 .. m PROVE cache[i].cpu \in CPUs
  <2>1. cache \in Seq(R)
    BY <1>1 DEF CacheShape
  <2> HIDE DEF R
  <2>2. cache[i] \in R
    BY <1>1, <2>1, LenProperties, ElementOfSeq
  <2> QED
    BY <2>2 DEF R
<1>3. \A i, j \in 1 .. m : cache[i].cpu = cache[j].cpu => i = j
  BY <1>1 DEF CacheShape
<1> HIDE DEF m
<1>4. s \in [1 .. m -> CPUs] /\ \A i, j \in 1 .. m : s[i] = s[j] => i = j
  BY <1>2, <1>3
<1>5. ToSet(s) = RankedCPUs
  BY <1>1 DEF ToSet, RankedCPUs
<1> HIDE DEF s
<1>6. Cardinality(ToSet(s)) = m
  BY <1>1, <1>4, CardinalityOfDistinct
<1> QED
  BY <1>1, <1>5, <1>6 DEF m

\* Nothing is granted while nothing is ranked.
LEMMA NothingGranted ==
    ASSUME IInv, cache = <<>>, NEW v \in VMs
    PROVE  selections[v] = <<>>
  BY DEF IInv, SelectionsFromCache

\* One step of SelectsAsPinned.
LEMMA SelectionAsPinned ==
    ASSUME IInv, NEW v \in VMs, NEW n \in Requests \ {0}, SelectCPUs(v, n)
    PROVE  Fails(v, n) \/ Repeats(v, n) \/ Grants(v, n)
<1>1. n \in Nat \ {0}
  BY CpuInfoAssumption DEF Requests
<1>2. /\ Len(cache) \in Nat /\ Cardinality(RankedCPUs) = Len(cache)
      /\ Len(selections[v]) \in Nat
      /\ Cardinality(Granted(v)) = Len(selections[v])
  BY RankedCount, GrantedSize DEF Granted
<1>3. ASSUME UNCHANGED <<cache, selections>> PROVE UNCHANGED Map!vars
  BY <1>3 DEF Map!vars, RankedCPUs
<1>4. CASE SelectError(v, n)
  <2>1. answer'.cpus = <<>> /\ UNCHANGED <<cache, selections>>
    BY <1>4 DEF SelectError, Answer
  <2>2. CASE cache = <<>>
    <3>1. Len(selections[v]) = 0 /\ Len(cache) = 0
      BY <2>2, NothingGranted
    <3> QED
      BY <1>1, <1>2, <1>3, <2>1, <3>1 DEF Fails
  <2>3. CASE ~Sticky(v, n) /\ (n <= 0 \/ n > Len(cache))
    <3>1. Len(selections[v]) # n
      <4>1. selections[v] = <<>> => Len(selections[v]) = 0
        OBVIOUS
      <4> QED
        BY <1>1, <2>3, <4>1 DEF Sticky
    <3> QED
      BY <1>1, <1>2, <1>3, <2>1, <2>3, <3>1 DEF Fails
  <2> QED
    BY <1>4, <2>2, <2>3 DEF SelectError
<1>5. CASE SelectSticky(v, n)
  <2>1. /\ answer'.cpus = selections[v] /\ Len(selections[v]) = n
        /\ UNCHANGED <<cache, selections>>
    BY <1>5 DEF SelectSticky, Sticky, Answer
  <2> QED
    BY <1>2, <1>3, <2>1 DEF Repeats, Granted
<1>6. CASE SelectFresh(v, n)
  <2>1. PICK S \in SUBSET CPUs : /\ Map!Grant(v, S)
                                 /\ Cardinality(S) = n
                                 /\ ToSet(answer'.cpus) = S
    BY <1>6, FreshGrants
  <2>2. S \in SUBSET RankedCPUs
    BY <2>1 DEF Map!Grant
  <2> QED
    BY <2>1, <2>2 DEF Grants
<1> QED
  BY <1>4, <1>5, <1>6 DEF SelectCPUs

\* Whatever a VM asks for, SelectCPUs fails, repeats or grants exactly as
\* Pinning's Select does it on the CPUs ranked and granted: it fails only when
\* more CPUs are wanted than are ranked and the VM has not been granted as many.
THEOREM SelectsAsPinned ==
    Spec => [][ \A v \in VMs, n \in Requests \ {0} : SelectCPUs(v, n) =>
                   Fails(v, n) \/ Repeats(v, n) \/ Grants(v, n) ]_vars
<1>1. IInv /\ [Next]_vars =>
         [ \A v \in VMs, n \in Requests \ {0} : SelectCPUs(v, n) =>
              Fails(v, n) \/ Repeats(v, n) \/ Grants(v, n) ]_vars
  BY SelectionAsPinned
<1> QED
  BY <1>1, Invariance, PTL DEF Spec

=============================================================================
