------------------------- MODULE MeasurementProofs -------------------------
(***************************************************************************)
(* Proofs about one call of CPUInfo.Update: the theorems of RankingTime,   *)
(* and the inductive invariant of Measurement.                             *)
(***************************************************************************)
EXTENDS Measurement, RankingTime, SequenceTheorems, FunctionTheorems,
        FiniteSetTheorems, WellFoundedInduction, TLAPS

-----------------------------------------------------------------------------
(* The inductive invariant                                                 *)

NoneMeasured == [p \in CPUs \X CPUs |-> [calls |-> 0, total |-> 0]]

\* The types, of the sums up to the sort; rounds remain while it measures;
\* Update has returned nothing before it is done.
Types ==
    /\ TypeOK
    /\ at \in {"measure", "sort"} => latSums \in [Pairs -> Nat]
    /\ at = "measure" => round < rounds
    /\ at # "done" => result = "running"

\* While the files are read, a CPU that stays online is found or still listed,
\* and one that is online, or was found, has been seen.
Detection ==
    /\ at = "list" => cores = <<>>
    /\ at \in {"list", "read"} => steady \subseteq Online /\ Online \subseteq seen
    /\ at = "read" => steady \subseteq Found \cup listed /\ Found \cap listed = {}
    /\ at \in {"list", "read", "detected"} => Found \subseteq seen
    /\ at = "detected" => steady \subseteq Found

\* Every CPU is found once, and from the detection on they ascend.
Distinct == \A i, j \in DOMAIN cores : cores[i] = cores[j] => i = j

Ascending ==
    at \notin {"list", "read"} =>
        \A i, j \in DOMAIN cores : i < j => cores[i] < cores[j]

\* A CPU that is not online now has faded if it was found, and a lock that
\* failed is the proof of one.
Faded ==
    /\ Found \ Online \subseteq faded
    /\ failed => Found \cap faded # {}
    /\ outcome = "error" => failed
    /\ outcome = "latency" => trying = {} /\ ~failed

\* Both CPUs of every pair that has been measured could be locked.
Locked ==
    /\ at = "measure" =>
         /\ Online \subseteq lockable
         /\ ~failed => \A t \in Link!Threads \ trying : CPUOf(t) \in lockable
         /\ \A p \in Measurable : p < pair \/ round > 0 =>
                Src(p) \in lockable /\ Dst(p) \in lockable
    /\ at = "sort" /\ rounds > 0 =>
         \A p \in Measurable : Src(p) \in lockable /\ Dst(p) \in lockable

\* What has been measured of each pair is what its sum has, once per round.
Tallied(p, calls) == measured[<<Src(p), Dst(p)>>] = [calls |-> calls, total |-> latSums[p]]

Tally ==
    /\ at \in {"list", "read", "detected"} => round = 0 /\ measured = NoneMeasured
    /\ at = "measure" =>
         \A p \in Measurable : Tallied(p, IF p < pair THEN round + 1 ELSE round)
    /\ at = "sort" => \A p \in Measurable : Tallied(p, rounds)

IInv ==
    /\ Types /\ Detection /\ Distinct /\ Ascending /\ Faded /\ Locked /\ Tally
    /\ OutcomeFaithful /\ RankingFaithful


-----------------------------------------------------------------------------
(* Pairs, sequences and least numbers                                      *)

\* Indexes i and j, and no others, make an index of the linearised matrix.
LEMMA IndexOf ==
    ASSUME NEW n \in Nat, NEW i \in 0 .. n - 1, NEW j \in 0 .. n - 1
    PROVE  /\ i * n + j \in 0 .. n * n - 1
           /\ (i * n + j) \div n = i /\ (i * n + j) % n = j
<1>1. (i * n + j) \div n = i /\ (i * n + j) % n = j
  OBVIOUS
<1>2. PICK d \in Nat : n = i + d + 1
  <2>1. n - i - 1 \in Nat /\ n = i + (n - i - 1) + 1
    OBVIOUS
  <2> QED BY <2>1
<1>3. n * n = i * n + d * n + n
  BY <1>2
<1>4. d * n \in Nat /\ i * n \in Nat
  BY <1>2
<1> QED BY <1>1, <1>3, <1>4

\* Every index of the matrix is made of two.
LEMMA IndexSplit ==
    ASSUME NEW n \in Nat, NEW p \in 0 .. n * n - 1
    PROVE  /\ p \div n \in 0 .. n - 1 /\ p % n \in 0 .. n - 1
           /\ p = (p \div n) * n + (p % n)
<1>1. n > 0
  OBVIOUS
<1>2. p = (p \div n) * n + (p % n) /\ p % n \in 0 .. n - 1 /\ p \div n \in Nat
  BY <1>1
<1>3. p \div n < n
  <2>1. SUFFICES ASSUME p \div n >= n PROVE FALSE
    BY <1>1, <1>2
  <2>2. PICK e \in Nat : p \div n = n + e
    <3>1. (p \div n) - n \in Nat /\ p \div n = n + ((p \div n) - n)
      BY <1>2, <2>1
    <3> QED BY <3>1
  <2>3. (n + e) * n = n * n + e * n
    BY <2>2
  <2>4. e * n \in Nat
    BY <2>2
  <2> QED BY <1>2, <2>2, <2>3, <2>4
<1> QED BY <1>2, <1>3

\* A set of natural numbers that is not empty has a least one.
LEMMA LeastOf ==
    ASSUME NEW S \in SUBSET Nat, S # {}
    PROVE  \E p \in S : \A q \in S : p <= q
<1> DEFINE Below == {ss \in Nat \X Nat : ss[1] < ss[2]}
<1>1. IsWellFoundedOn(Below, Nat)
  BY NatLessThanWellFounded DEF OpToRel
<1>2. PICK p \in S : \A q \in S : ~(<<q, p>> \in Below)
  <2> HIDE DEF Below
  <2> QED BY <1>1, WFMin
<1>3. ASSUME NEW q \in S PROVE p <= q
  <2>1. <<q, p>> \in Nat \X Nat /\ p \in Nat /\ q \in Nat
    OBVIOUS
  <2> QED BY <1>2, <2>1
<1> QED BY <1>3

\* There are n numbers from 1 to n.
LEMMA UpTo ==
    ASSUME NEW n \in Nat PROVE IsFiniteSet(1 .. n) /\ Cardinality(1 .. n) = n
BY FS_Interval

\* What holds of 1, and of i + 1 if of i, holds of all indexes.
LEMMA OneByOne ==
    ASSUME NEW n \in Nat, NEW S, n > 0 => 1 \in S,
           \A i \in 1 .. n - 1 : i \in S => i + 1 \in S
    PROVE  1 .. n \subseteq S
<1> SUFFICES ASSUME (1 .. n) \ S # {} PROVE FALSE
  OBVIOUS
<1>1. PICK p \in (1 .. n) \ S : \A q \in (1 .. n) \ S : p <= q
  <2> DEFINE T == (1 .. n) \ S
  <2>1. T \in SUBSET Nat /\ T # {}
    OBVIOUS
  <2> HIDE DEF T
  <2>2. \E p \in T : \A q \in T : p <= q
    BY <2>1, LeastOf
  <2> QED BY <2>2 DEF T
<1>2. p - 1 \in 1 .. n - 1 /\ p - 1 \in S
  BY <1>1
<1>3. (p - 1) + 1 = p
  BY <1>1
<1> QED BY <1>1, <1>2, <1>3

\* A sequence of a finite set's elements, each once, has them all.
LEMMA SeqOfSet ==
    ASSUME NEW S, IsFiniteSet(S), NEW s \in SetToSeqs(S)
    PROVE  s \in Seq(S) /\ Len(s) = Cardinality(S) /\ ToSet(s) = S
<1>1. Cardinality(S) \in Nat
  BY FS_CardinalityType
<1>2. /\ s \in [1 .. Cardinality(S) -> S]
      /\ \A i, j \in 1 .. Cardinality(S) : s[i] = s[j] => i = j
  BY DEF SetToSeqs
<1>3. s \in Injection(1 .. Cardinality(S), S)
  BY <1>2, Fun_IsInj
<1>4. Cardinality(1 .. Cardinality(S)) = Cardinality(S)
  BY <1>1, FS_Interval
<1>5. s \in Surjection(1 .. Cardinality(S), S)
  BY <1>3, <1>4, FS_Injection
<1>6. \A x \in S : \E i \in 1 .. Cardinality(S) : s[i] = x
  BY <1>5 DEF Surjection
<1>7. s \in Seq(S) /\ Len(s) = Cardinality(S) /\ DOMAIN s = 1 .. Cardinality(S)
  BY <1>1, <1>2
<1>8. ToSet(s) = S
  BY <1>2, <1>6, <1>7 DEF ToSet
<1> QED BY <1>7, <1>8

\* The CPUs of a sequence in which each is once are as many as it is long.
LEMMA FoundAre ==
    ASSUME cores \in Seq(CPUs), Distinct
    PROVE  IsFiniteSet(Found) /\ Cardinality(Found) = NumCores /\ NumCores \in Nat
<1>1. NumCores \in Nat /\ DOMAIN cores = 1 .. NumCores
  BY DEF NumCores
<1>2. /\ cores \in [1 .. NumCores -> Found]
      /\ \A x \in Found : \E i \in 1 .. NumCores : cores[i] = x
  BY <1>1 DEF Found, ToSet
<1>3. cores \in Bijection(1 .. NumCores, Found)
  BY <1>1, <1>2, Fun_IsBij DEF Distinct
<1>4. IsFiniteSet(1 .. NumCores) /\ Cardinality(1 .. NumCores) = NumCores
  BY <1>1, FS_Interval
<1> QED BY <1>1, <1>3, <1>4, FS_Bijection DEF ExistsBijection

\* Two different CPUs of the topology are a pair to measure.
LEMMA PairOf ==
    ASSUME cores \in Seq(CPUs), Distinct,
           NEW i \in 0 .. NumCores - 1, NEW j \in 0 .. NumCores - 1, i # j
    PROVE  /\ i * NumCores + j \in Measurable
           /\ Src(i * NumCores + j) = cores[i + 1]
           /\ Dst(i * NumCores + j) = cores[j + 1]
<1>1. NumCores \in Nat /\ DOMAIN cores = 1 .. NumCores
  BY DEF NumCores
<1>2. i * NumCores + j \in Pairs
  BY <1>1, IndexOf DEF Pairs
<1>3. /\ (i * NumCores + j) \div NumCores = i
      /\ (i * NumCores + j) % NumCores = j
  BY <1>1, IndexOf
<1>4. Src(i * NumCores + j) = cores[i + 1] /\ Dst(i * NumCores + j) = cores[j + 1]
  BY <1>3 DEF Src, Dst
<1>5. cores[i + 1] # cores[j + 1]
  BY <1>1 DEF Distinct
<1> QED BY <1>2, <1>4, <1>5 DEF Measurable

\* A pair has its CPUs from the topology.
LEMMA PairTypes ==
    ASSUME cores \in Seq(CPUs), NEW p \in Pairs
    PROVE  /\ Src(p) \in Found /\ Dst(p) \in Found
           /\ Src(p) \in CPUs /\ Dst(p) \in CPUs
           /\ p \in Nat
<1>1. NumCores \in Nat /\ DOMAIN cores = 1 .. NumCores
  BY DEF NumCores
<1>2. p \in 0 .. NumCores * NumCores - 1
  BY DEF Pairs
<1>3. p \div NumCores \in 0 .. NumCores - 1 /\ p % NumCores \in 0 .. NumCores - 1
  BY <1>1, <1>2, IndexSplit
<1>4. /\ (p \div NumCores) + 1 \in DOMAIN cores
      /\ (p % NumCores) + 1 \in DOMAIN cores
  BY <1>1, <1>3
<1>5. \A k \in DOMAIN cores : cores[k] \in CPUs
  BY <1>1
<1>6. p \in Nat
  BY <1>1, <1>2
<1> QED BY <1>4, <1>5, <1>6 DEF Src, Dst, Found, ToSet

\* No two pairs have the same CPUs.
LEMMA PairsDiffer ==
    ASSUME cores \in Seq(CPUs), Distinct, NEW p \in Pairs, NEW q \in Pairs,
           Src(p) = Src(q), Dst(p) = Dst(q)
    PROVE  p = q
<1>1. NumCores \in Nat /\ DOMAIN cores = 1 .. NumCores
  BY DEF NumCores
<1>2. /\ p \div NumCores \in 0 .. NumCores - 1 /\ p % NumCores \in 0 .. NumCores - 1
      /\ p = (p \div NumCores) * NumCores + (p % NumCores)
  BY <1>1, IndexSplit DEF Pairs
<1>3. /\ q \div NumCores \in 0 .. NumCores - 1 /\ q % NumCores \in 0 .. NumCores - 1
      /\ q = (q \div NumCores) * NumCores + (q % NumCores)
  BY <1>1, IndexSplit DEF Pairs
<1>4. ASSUME NEW a \in 0 .. NumCores - 1, NEW b \in 0 .. NumCores - 1,
             cores[a + 1] = cores[b + 1]
      PROVE  a = b
  <2>1. a + 1 \in DOMAIN cores /\ b + 1 \in DOMAIN cores
    BY <1>1
  <2>2. a + 1 = b + 1
    BY <1>4, <2>1 DEF Distinct
  <2> QED BY <2>2
<1>5. p \div NumCores = q \div NumCores /\ p % NumCores = q % NumCores
  BY <1>2, <1>3, <1>4 DEF Src, Dst
<1> QED BY <1>2, <1>3, <1>5

\* The loops begin with a pair to measure, before which there is none.
LEMMA FirstIs ==
    ASSUME cores \in Seq(CPUs), Measurable # {}
    PROVE  FirstPair \in Measurable /\ \A q \in Measurable : FirstPair <= q
<1>1. Measurable \in SUBSET Nat
  BY PairTypes DEF Measurable
<1>2. \E p \in Measurable : \A q \in Measurable : p <= q
  BY <1>1, LeastOf
<1> QED BY <1>2 DEF FirstPair

-----------------------------------------------------------------------------
(* The steps keep the invariant                                            *)

\* What is said of the topology stays while its CPUs are the same.
LEMMA SameTopology ==
    ASSUME cores' = cores
    PROVE  /\ NumCores' = NumCores /\ Found' = Found
           /\ Pairs' = Pairs /\ Measurable' = Measurable
           /\ \A p : Src(p)' = Src(p) /\ Dst(p)' = Dst(p)
<1>1. NumCores' = NumCores
  BY DEF NumCores
<1>2. Found' = Found
  BY DEF Found
<1>3. \A p : Src(p)' = Src(p) /\ Dst(p)' = Dst(p)
  BY <1>1 DEF Src, Dst
<1>4. Pairs' = Pairs
  BY <1>1 DEF Pairs
<1>5. Measurable' = Measurable
  BY <1>3, <1>4 DEF Measurable
<1> QED BY <1>1, <1>2, <1>3, <1>4, <1>5

\* Until Update returns there is nothing to say of what it returns.
LEMMA NotYet ==
    ASSUME result = "running" PROVE OutcomeFaithful /\ RankingFaithful
BY DEF OutcomeFaithful, RankingFaithful

\* The invariant holds at the beginning.
LEMMA InitInvariant == Init => IInv
<1> SUFFICES ASSUME Init PROVE IInv
  OBVIOUS
<1> USE MeasurementAssumption
<1>1. Found = {} /\ cores \in Seq(CPUs) /\ DOMAIN cores = {}
  BY EmptySeq DEF Init, Found, ToSet
<1>2. NoneMeasured \in [CPUs \X CPUs -> [calls : Nat, total : Nat]]
  BY DEF NoneMeasured
<1>3. TypeOK
  <2>1. power \in [CPUs -> {"absent", "offline", "online"}]
    BY DEF Init
  <2>2. changes \in 0 .. MaxChanges /\ rounds \in 0 .. MaxRounds /\ round \in 0 .. rounds
    BY DEF Init
  <2>3. steady \in SUBSET CPUs /\ seen \in SUBSET CPUs
    BY DEF Init, Online
  <2>4. cache \in Seq([cpu : CPUs, ranking : Rankings])
    BY DEF Init
  <2>5. trying \in SUBSET Link!Threads
    BY DEF Init
  <2>6. measured \in [CPUs \X CPUs -> [calls : Nat, total : Nat]]
    BY <1>2 DEF Init, NoneMeasured
  <2> QED BY <1>1, <2>1, <2>2, <2>3, <2>4, <2>5, <2>6 DEF Init, TypeOK
<1>4. Types
  BY <1>3 DEF Init, Types
<1>5. Detection /\ Distinct /\ Ascending
  BY <1>1 DEF Init, Detection, Distinct, Ascending
<1>6. Faded /\ Locked /\ Tally
  BY <1>1 DEF Init, Faded, Locked, Tally, NoneMeasured
<1>7. OutcomeFaithful /\ RankingFaithful
  BY NotYet DEF Init
<1> QED BY <1>4, <1>5, <1>6, <1>7 DEF IInv

\* A CPU that is switched off while it is found fades at once.
LEMMA HotplugKeeps ==
    ASSUME IInv, NEW c \in CPUs, Hotplug(c) PROVE IInv'
<1> USE DEF IInv
<1>1. cores' = cores /\ at' = at /\ result' = result /\ result = "running"
  BY DEF Hotplug
<1>2. /\ NumCores' = NumCores /\ Found' = Found
      /\ Pairs' = Pairs /\ Measurable' = Measurable
      /\ \A p : Src(p)' = Src(p) /\ Dst(p)' = Dst(p)
  BY <1>1, SameTopology
<1>3. Online \subseteq CPUs /\ Online' \subseteq CPUs
  BY DEF Online
<1>4. power' \in [CPUs -> {"absent", "offline", "online"}]
  <2>1. PICK p \in NextPower(power[c]) : power' = [power EXCEPT ![c] = p]
    BY DEF Hotplug
  <2>2. p \in {"absent", "offline", "online"}
    BY DEF NextPower
  <2> QED BY <2>1, <2>2 DEF Types, TypeOK
<1>5. Types'
  <2>1. changes' \in 0 .. MaxChanges
    BY MeasurementAssumption DEF Hotplug, Types, TypeOK
  <2>2. /\ steady' \in SUBSET CPUs /\ seen' \in SUBSET CPUs
        /\ lockable' \in SUBSET CPUs /\ faded' \in SUBSET CPUs
    <3>1. Found \subseteq CPUs
      BY DEF Types, TypeOK, Found, ToSet
    <3> QED BY <1>3, <3>1 DEF Hotplug, Types, TypeOK
  <2>3. TypeOK'
    BY <1>1, <1>2, <1>4, <2>1, <2>2 DEF Hotplug, Types, TypeOK, linkVars, sumVars, Rankings
  <2> QED BY <1>1, <1>2, <2>3 DEF Hotplug, Types, sumVars
<1>6. Detection'
  BY <1>1, <1>2 DEF Hotplug, Detection
<1>7. Distinct' /\ Ascending'
  BY <1>1 DEF Distinct, Ascending
<1>8. Faded'
  BY <1>1, <1>2 DEF Hotplug, Faded, linkVars
<1>9. Locked'
  <2>1. \A t : CPUOf(t)' = CPUOf(t)
    BY <1>2 DEF CPUOf, Hotplug, sumVars
  <2>2. lockable \subseteq lockable'
    BY DEF Hotplug
  <2>3. at = "measure" => Online' \subseteq lockable'
    BY DEF Hotplug
  <2> QED BY <1>1, <1>2, <2>1, <2>2, <2>3 DEF Hotplug, Locked, linkVars, sumVars
<1>10. Tally'
  BY <1>1, <1>2 DEF Hotplug, Tally, Tallied, sumVars
<1>11. OutcomeFaithful' /\ RankingFaithful'
  BY <1>1 DEF OutcomeFaithful, RankingFaithful
<1> QED BY <1>5, <1>6, <1>7, <1>8, <1>9, <1>10, <1>11

\* The listing holds every CPU that has been online since the start.
LEMMA ListKeeps == ASSUME IInv, List PROVE IInv'
<1> USE DEF IInv
<1>1. /\ at = "list" /\ at' = "read" /\ cores' = cores /\ cores = <<>>
      /\ result' = result /\ result = "running"
  BY DEF List, Types, Detection
<1>2. Found = {} /\ Found' = {}
  BY <1>1 DEF Found, ToSet
<1>3. Online' = Online
  BY DEF List, hwVars, Online
<1>4. TypeOK'
  BY <1>1 DEF List, Types, TypeOK, hwVars, linkVars, sumVars, Rankings
<1>5. Types'
  BY <1>1, <1>4 DEF Types
<1>6. Detection'
  BY <1>1, <1>2, <1>3 DEF List, Detection, Online
<1>7. Distinct' /\ Ascending'
  BY <1>1 DEF Distinct, Ascending
<1>8. Faded' /\ Locked'
  BY <1>1, <1>2, <1>3 DEF List, Faded, Locked, linkVars
<1>9. Tally'
  BY <1>1 DEF List, Tally, sumVars, NoneMeasured
<1>10. OutcomeFaithful' /\ RankingFaithful'
  BY <1>1 DEF OutcomeFaithful, RankingFaithful
<1> QED BY <1>5, <1>6, <1>7, <1>8, <1>9, <1>10

\* A CPU whose file is read was listed, and so has not been found before.
LEMMA ReadKeeps == ASSUME IInv, NEW c \in CPUs, ReadTopology(c) PROVE IInv'
<1> USE DEF IInv
<1>1. /\ at = "read" /\ at' = "read" /\ c \in listed /\ cores \in Seq(CPUs)
      /\ result' = result /\ result = "running"
  BY DEF ReadTopology, Types, TypeOK
<1>2. Online' = Online
  BY DEF ReadTopology, hwVars, Online
<1>3. /\ cores' \in Seq(CPUs) /\ Distinct'
      /\ Found' = IF c \in Online THEN Found \cup {c} ELSE Found
  <2>1. CASE c \in Online
    <3>1. cores' = Append(cores, c)
      BY <2>1 DEF ReadTopology, Online
    <3>2. /\ cores' \in Seq(CPUs) /\ DOMAIN cores = 1 .. Len(cores) /\ Len(cores) \in Nat
          /\ DOMAIN cores' = 1 .. Len(cores) + 1
          /\ cores'[Len(cores) + 1] = c
          /\ \A i \in DOMAIN cores : cores'[i] = cores[i]
      BY <1>1, <3>1
    <3>3. \A i \in DOMAIN cores : cores[i] # c
      BY <1>1 DEF Detection, Found, ToSet
    <3>4. Distinct'
      BY <3>2, <3>3 DEF Distinct
    <3>5. Found' = Found \cup {c}
      BY <3>2 DEF Found, ToSet
    <3> QED BY <2>1, <3>2, <3>4, <3>5
  <2>2. CASE c \notin Online
    <3>1. cores' = cores
      BY <2>2 DEF ReadTopology, Online
    <3> QED BY <1>1, <2>2, <3>1 DEF Distinct, Found
  <2> QED BY <2>1, <2>2
<1>4. TypeOK'
  BY <1>1, <1>3 DEF ReadTopology, Types, TypeOK, hwVars, linkVars, sumVars, Rankings
<1>5. Types'
  BY <1>1, <1>4 DEF Types
<1>6. Detection'
  BY <1>1, <1>2, <1>3 DEF ReadTopology, Detection
<1>7. Ascending'
  BY <1>1 DEF Ascending
<1>8. Faded' /\ Locked'
  BY <1>1, <1>2, <1>3 DEF ReadTopology, Faded, Locked, linkVars
<1>9. Tally'
  BY <1>1 DEF ReadTopology, Tally, sumVars, NoneMeasured
<1>10. OutcomeFaithful' /\ RankingFaithful'
  BY <1>1 DEF OutcomeFaithful, RankingFaithful
<1> QED BY <1>3, <1>5, <1>6, <1>7, <1>8, <1>9, <1>10

\* To sort what has been found neither loses nor adds a CPU.
LEMMA DetectedKeeps == ASSUME IInv, Detected PROVE IInv'
<1> USE DEF IInv
<1>1. /\ at = "read" /\ listed = {} /\ at' = "detected" /\ cores \in Seq(CPUs)
      /\ result' = result /\ result = "running"
  BY DEF Detected, Types, TypeOK
<1>2. Online' = Online
  BY DEF Detected, hwVars, Online
<1>3. PICK p \in SetToSeqs(DOMAIN cores) : cores' = [i \in DOMAIN cores |-> cores[p[i]]]
  BY DEF Detected
<1>4. DOMAIN cores = 1 .. Len(cores) /\ Len(cores) \in Nat
  BY <1>1
<1>5. IsFiniteSet(DOMAIN cores) /\ Cardinality(DOMAIN cores) = Len(cores)
  <2>1. IsFiniteSet(1 .. Len(cores)) /\ Cardinality(1 .. Len(cores)) = Len(cores)
    BY <1>4, UpTo
  <2> QED BY <1>4, <2>1
<1>6. ToSet(p) = DOMAIN cores
  BY <1>5, SeqOfSet
<1>7. /\ p \in [DOMAIN cores -> DOMAIN cores]
      /\ \A i, j \in DOMAIN cores : p[i] = p[j] => i = j
  BY <1>4, <1>5 DEF SetToSeqs
<1>8. DOMAIN cores' = DOMAIN cores /\ \A i \in DOMAIN cores : cores'[i] = cores[p[i]]
  BY <1>3
<1>9. cores' \in Seq(CPUs)
  BY <1>1, <1>3, <1>4, <1>7
<1>10. Distinct'
  BY <1>7, <1>8 DEF Distinct
<1>11. Found' = Found
  BY <1>6, <1>7, <1>8 DEF Found, ToSet
<1>12. Ascending'
  <2>1. SUFFICES ASSUME NEW i \in DOMAIN cores, NEW j \in DOMAIN cores, i < j
                 PROVE  cores'[i] < cores'[j]
    BY <1>8 DEF Ascending
  <2>2. cores'[i] <= cores'[j]
    BY <1>8, <2>1 DEF Detected
  <2>3. cores'[i] \in Nat /\ cores'[j] \in Nat
    BY <1>8, <1>9, MeasurementAssumption
  <2>4. i \in Nat /\ j \in Nat
    BY <1>4
  <2>5. cores'[i] # cores'[j]
    BY <1>8, <1>10, <2>1, <2>4 DEF Distinct
  <2> QED BY <2>2, <2>3, <2>5
<1>13. TypeOK'
  BY <1>1, <1>9 DEF Detected, Types, TypeOK, hwVars, linkVars, detectVars, sumVars, Rankings
<1>14. Types'
  BY <1>1, <1>13 DEF Types
<1>15. Detection'
  BY <1>1, <1>2, <1>11 DEF Detected, Detection, detectVars
<1>16. Faded' /\ Locked'
  BY <1>1, <1>2, <1>11 DEF Detected, Faded, Locked, linkVars
<1>17. Tally'
  BY <1>1 DEF Detected, Tally, sumVars, NoneMeasured
<1>18. OutcomeFaithful' /\ RankingFaithful'
  BY <1>1 DEF OutcomeFaithful, RankingFaithful
<1> QED BY <1>10, <1>12, <1>14, <1>15, <1>16, <1>17, <1>18

\* The measurements begin with the first pair, before any has been made.
LEMMA BeginKeeps == ASSUME IInv, Begin PROVE IInv'
<1> USE DEF IInv
<1>1. /\ at = "detected" /\ cores' = cores /\ cores \in Seq(CPUs)
      /\ result' = result /\ result = "running"
  BY DEF Begin, Types, TypeOK
<1>2. /\ NumCores' = NumCores /\ Found' = Found
      /\ Pairs' = Pairs /\ Measurable' = Measurable
      /\ \A p : Src(p)' = Src(p) /\ Dst(p)' = Dst(p)
  BY <1>1, SameTopology
<1>3. Online' = Online /\ Online \subseteq CPUs
  BY DEF Begin, hwVars, Online
<1>4. /\ at' \in {"measure", "sort"}
      /\ at' = "measure" => rounds > 0 /\ Measurable # {}
      /\ at' = "sort" => ~(rounds > 0) \/ Measurable = {}
  BY DEF Begin
<1>5. at' = "measure" => pair' \in Measurable /\ \A q \in Measurable : pair' <= q
  BY <1>1, <1>4, FirstIs DEF Begin
<1>6. latSums' \in [Pairs -> Nat] /\ \A p \in Pairs : latSums'[p] = 0
  BY DEF Begin
<1>7. /\ trying' = Link!Threads /\ failed' = FALSE /\ outcome' = "running"
      /\ lockable' = Online /\ listed' = {} /\ steady' = {} /\ seen' = {}
      /\ rounds' = rounds /\ round' = round /\ measured' = measured /\ faded' = faded
      /\ power' = power /\ changes' = changes /\ cache' = cache
  BY DEF Begin, hwVars
<1>8. Types'
  <2>1. TypeOK'
    BY <1>1, <1>2, <1>3, <1>4, <1>5, <1>6, <1>7 DEF Types, TypeOK, Rankings
  <2>2. at' = "measure" => round' < rounds'
    BY <1>1, <1>4, <1>7, MeasurementAssumption DEF Tally, Types, TypeOK
  <2> QED BY <1>1, <1>2, <1>6, <2>1, <2>2 DEF Types
<1>9. Detection' /\ Distinct' /\ Ascending'
  BY <1>1, <1>4 DEF Detection, Distinct, Ascending
<1>10. Faded'
  BY <1>2, <1>3, <1>7 DEF Faded
<1>11. \A p \in Measurable : p \in Pairs /\ p \in Nat
  BY <1>1, PairTypes DEF Measurable
<1>12. at' = "measure" => \A p \in Measurable : ~(p < pair')
  BY <1>5, <1>11
<1>13. round' = 0
  BY <1>1, <1>7 DEF Tally
<1>14. Locked'
  BY <1>2, <1>3, <1>4, <1>7, <1>12, <1>13 DEF Locked
<1>15. Tally'
  <2>1. ASSUME NEW p \in Measurable
        PROVE  measured'[<<Src(p), Dst(p)>>] = [calls |-> 0, total |-> latSums'[p]]
    <3>1. Src(p) \in CPUs /\ Dst(p) \in CPUs
      BY <1>1, <1>11, PairTypes
    <3>2. measured' = NoneMeasured
      BY <1>1, <1>7 DEF Tally
    <3> QED BY <1>6, <1>11, <3>1, <3>2 DEF NoneMeasured
  <2>2. rounds > 0 \/ rounds = 0
    BY MeasurementAssumption DEF Types, TypeOK
  <2>3. at' = "measure" => \A p \in Measurable : Tallied(p, IF p < pair THEN round + 1 ELSE round)'
    BY <1>2, <1>12, <1>13, <2>1 DEF Tallied
  <2>4. at' = "sort" => \A p \in Measurable : Tallied(p, rounds)'
    BY <1>2, <1>4, <1>7, <2>1, <2>2 DEF Tallied
  <2> QED BY <1>2, <1>4, <2>3, <2>4 DEF Tally
<1>16. OutcomeFaithful' /\ RankingFaithful'
  BY <1>1 DEF OutcomeFaithful, RankingFaithful
<1> QED BY <1>8, <1>9, <1>10, <1>14, <1>15, <1>16

\* A lock succeeds for a CPU that is lockable; if it fails, a CPU that was
\* found has faded.
LEMMA LockKeeps == ASSUME IInv, NEW t \in Link!Threads, LockToCPU(t) PROVE IInv'
<1> USE DEF IInv
<1>1. /\ at = "measure" /\ at' = at /\ cores' = cores /\ cores \in Seq(CPUs)
      /\ result' = result /\ result = "running" /\ pair \in Measurable
  BY DEF LockToCPU, Types, TypeOK
<1>2. /\ NumCores' = NumCores /\ Found' = Found
      /\ Pairs' = Pairs /\ Measurable' = Measurable
      /\ \A p : Src(p)' = Src(p) /\ Dst(p)' = Dst(p)
  BY <1>1, SameTopology
<1>3. Online' = Online
  BY DEF LockToCPU, hwVars, Online
<1>4. \A u : CPUOf(u)' = CPUOf(u)
  BY <1>2 DEF CPUOf, LockToCPU, sumVars
<1>5. CPUOf(t) \in Found
  BY <1>1, PairTypes DEF CPUOf, Measurable
<1>6. /\ t \in trying /\ trying' = trying \ {t}
      /\ failed' = (failed \/ CPUOf(t) \notin Online) /\ outcome' = outcome
  BY DEF LockToCPU, Link!Lock
<1>7. Types'
  <2>1. TypeOK'
    BY <1>1, <1>2, <1>6 DEF LockToCPU, Types, TypeOK, hwVars, detectVars, sumVars, Rankings
  <2> QED BY <1>1, <1>2, <2>1 DEF LockToCPU, Types, sumVars
<1>8. Detection' /\ Distinct' /\ Ascending'
  BY <1>1 DEF Detection, Distinct, Ascending
<1>9. Faded'
  BY <1>2, <1>3, <1>5, <1>6 DEF LockToCPU, Faded
<1>10. Locked'
  <2>1. lockable' = lockable /\ round' = round /\ pair' = pair /\ rounds' = rounds
    BY DEF LockToCPU, sumVars
  <2>2. ~failed' => \A u \in Link!Threads \ trying' : CPUOf(u) \in lockable
    BY <1>1, <1>6 DEF Locked
  <2> QED BY <1>1, <1>2, <1>3, <1>4, <2>1, <2>2 DEF Locked
<1>11. Tally'
  BY <1>1, <1>2 DEF LockToCPU, Tally, Tallied, sumVars
<1>12. OutcomeFaithful' /\ RankingFaithful'
  BY <1>1 DEF OutcomeFaithful, RankingFaithful
<1> QED BY <1>7, <1>8, <1>9, <1>10, <1>11, <1>12

\* A measurement returns a latency only if neither lock failed.
LEMMA ReturnKeeps == ASSUME IInv, MeasureReturns PROVE IInv'
<1> USE DEF IInv
<1>1. /\ at = "measure" /\ at' = at /\ cores' = cores
      /\ result' = result /\ result = "running"
  BY DEF MeasureReturns, Types
<1>2. /\ NumCores' = NumCores /\ Found' = Found
      /\ Pairs' = Pairs /\ Measurable' = Measurable
      /\ \A p : Src(p)' = Src(p) /\ Dst(p)' = Dst(p)
  BY <1>1, SameTopology
<1>3. Online' = Online
  BY DEF MeasureReturns, hwVars, Online
<1>4. \A u : CPUOf(u)' = CPUOf(u)
  BY <1>2 DEF CPUOf, MeasureReturns, sumVars
<1>5. /\ trying = {} /\ trying' = trying /\ failed' = failed
      /\ outcome' = IF failed THEN "error" ELSE "latency"
  BY DEF MeasureReturns, Link!Return
<1>6. Types'
  <2>1. TypeOK'
    BY <1>1, <1>2, <1>5 DEF MeasureReturns, Types, TypeOK, hwVars, detectVars, sumVars, Rankings
  <2> QED BY <1>1, <1>2, <2>1 DEF MeasureReturns, Types, sumVars
<1>7. Detection' /\ Distinct' /\ Ascending'
  BY <1>1 DEF Detection, Distinct, Ascending
<1>8. Faded'
  BY <1>2, <1>3, <1>5 DEF MeasureReturns, Faded
<1>9. Locked'
  BY <1>1, <1>2, <1>3, <1>4, <1>5 DEF MeasureReturns, Locked, sumVars
<1>10. Tally'
  BY <1>1, <1>2 DEF MeasureReturns, Tally, Tallied, sumVars
<1>11. OutcomeFaithful' /\ RankingFaithful'
  BY <1>1 DEF OutcomeFaithful, RankingFaithful
<1> QED BY <1>6, <1>7, <1>8, <1>9, <1>10, <1>11

\* Update returns an error only for a CPU that has faded.
LEMMA FailedKeeps == ASSUME IInv, MeasureFailed PROVE IInv'
<1> USE DEF IInv
<1>1. at' = "done" /\ cores' = cores /\ result' = "error" /\ outcome = "error"
  BY DEF MeasureFailed
<1>2. /\ NumCores' = NumCores /\ Found' = Found
      /\ Pairs' = Pairs /\ Measurable' = Measurable
      /\ \A p : Src(p)' = Src(p) /\ Dst(p)' = Dst(p)
  BY <1>1, SameTopology
<1>3. Online' = Online
  BY DEF MeasureFailed, hwVars, Online
<1>4. Types'
  <2>1. TypeOK'
    BY <1>1 DEF MeasureFailed, Types, TypeOK, hwVars, linkVars, detectVars, sumVars, Rankings
  <2> QED BY <1>1, <2>1 DEF Types
<1>5. Detection' /\ Distinct'
  BY <1>1 DEF Detection, Distinct
<1>6. Ascending'
  BY <1>1 DEF MeasureFailed, Ascending
<1>7. Faded' /\ Locked' /\ Tally'
  BY <1>1, <1>2, <1>3 DEF MeasureFailed, Faded, Locked, Tally, linkVars
<1>8. OutcomeFaithful' /\ RankingFaithful'
  BY <1>1, <1>2 DEF MeasureFailed, Faded, OutcomeFaithful, RankingFaithful
<1> QED BY <1>4, <1>5, <1>6, <1>7, <1>8

\* A latency is added to the sum of its pair only, and counted there.
LEMMA AccumulateKeeps == ASSUME IInv, Accumulate PROVE IInv'
<1> USE DEF IInv
<1>1. /\ at = "measure" /\ outcome = "latency" /\ cores' = cores /\ cores \in Seq(CPUs)
      /\ result' = result /\ result = "running"
      /\ pair \in Measurable /\ round \in Nat /\ rounds \in Nat /\ round < rounds
  BY MeasurementAssumption DEF Accumulate, Proceed, Types, TypeOK
<1>2. /\ NumCores' = NumCores /\ Found' = Found
      /\ Pairs' = Pairs /\ Measurable' = Measurable
      /\ \A p : Src(p)' = Src(p) /\ Dst(p)' = Dst(p)
  BY <1>1, SameTopology
<1>3. /\ Online' = Online /\ lockable' = lockable /\ faded' = faded
      /\ trying' = Link!Threads /\ failed' = FALSE /\ outcome' = "running"
      /\ rounds' = rounds /\ power' = power /\ changes' = changes /\ cache' = cache
      /\ listed' = listed /\ steady' = steady /\ seen' = seen
  BY DEF Accumulate, Proceed, hwVars, detectVars, Online
<1>4. \A p \in Measurable : /\ p \in Pairs /\ p \in Nat
                            /\ Src(p) \in CPUs /\ Dst(p) \in CPUs
  BY <1>1, PairTypes DEF Measurable
<1>5. latSums \in [Pairs -> Nat]
  BY <1>1 DEF Types
<1>6. PICK lat \in Latencies :
        /\ latSums' = [latSums EXCEPT ![pair] = @ + lat]
        /\ measured' = [measured EXCEPT ![<<Src(pair), Dst(pair)>>] =
                           [calls |-> @.calls + 1, total |-> @.total + lat]]
  BY DEF Accumulate, Proceed
<1>7. lat \in Nat
  BY MeasurementAssumption
<1>8. latSums' \in [Pairs -> Nat]
  BY <1>1, <1>4, <1>5, <1>6, <1>7
<1>9. /\ measured[<<Src(pair), Dst(pair)>>] = [calls |-> round, total |-> latSums[pair]]
      /\ latSums[pair] \in Nat
  BY <1>1, <1>4, <1>5 DEF Tally, Tallied
<1>10. measured \in [CPUs \X CPUs -> [calls : Nat, total : Nat]]
  BY DEF Types, TypeOK
<1>11. <<Src(pair), Dst(pair)>> \in CPUs \X CPUs
  BY <1>1, <1>4
<1>12. [calls |-> round + 1, total |-> latSums[pair] + lat] \in [calls : Nat, total : Nat]
  BY <1>1, <1>7, <1>9
<1>13. measured' = [measured EXCEPT ![<<Src(pair), Dst(pair)>>] =
                       [calls |-> round + 1, total |-> latSums[pair] + lat]]
  BY <1>6, <1>9, <1>10, <1>11
<1>14. measured' \in [CPUs \X CPUs -> [calls : Nat, total : Nat]]
  BY <1>10, <1>12, <1>13
<1>15. ASSUME NEW p \in Measurable, NEW calls,
              IF p = pair THEN calls = round + 1
                          ELSE measured[<<Src(p), Dst(p)>>] = [calls |-> calls, total |-> latSums[p]]
       PROVE  measured'[<<Src(p), Dst(p)>>] = [calls |-> calls, total |-> latSums'[p]]
  <2>1. CASE p = pair
    BY <1>1, <1>4, <1>5, <1>6, <1>10, <1>11, <1>13, <1>15, <2>1
  <2>2. CASE p # pair
    <3>1. <<Src(p), Dst(p)>> # <<Src(pair), Dst(pair)>>
      BY <1>1, <1>4, <2>2, PairsDiffer
    <3>2. <<Src(p), Dst(p)>> \in CPUs \X CPUs
      BY <1>4
    <3>3. measured'[<<Src(p), Dst(p)>>] = measured[<<Src(p), Dst(p)>>]
      BY <1>10, <1>13, <3>1, <3>2
    <3>4. latSums'[p] = latSums[p]
      BY <1>4, <1>5, <1>6, <2>2
    <3> QED BY <1>15, <2>2, <3>3, <3>4
  <2> QED BY <2>1, <2>2
<1>16. Src(pair) \in lockable /\ Dst(pair) \in lockable
  <2>1. \A t \in Link!Threads : CPUOf(t) \in lockable
    BY <1>1 DEF Faded, Locked
  <2>2. 0 \in Link!Threads /\ 1 \in Link!Threads
    BY DEF Link!Threads
  <2>3. CPUOf(0) \in lockable /\ CPUOf(1) \in lockable
    BY <2>1, <2>2
  <2> QED BY <2>3 DEF CPUOf
<1>17. Later \in SUBSET Nat /\ Later \subseteq Measurable
  BY <1>4 DEF Later
<1>18. Detection' /\ Distinct' /\ Ascending'
  <2>1. at' \in {"measure", "sort"}
    BY <1>1 DEF Accumulate, Proceed
  <2> QED BY <1>1, <2>1 DEF Detection, Distinct, Ascending
<1>19. Faded'
  BY <1>2, <1>3 DEF Faded
<1>20. OutcomeFaithful' /\ RankingFaithful'
  BY <1>1 DEF OutcomeFaithful, RankingFaithful
<1>21. CASE Later # {}
  <2>1. /\ pair' \in Later /\ \A q \in Later : pair' <= q
        /\ round' = round /\ at' = at
    <3>1. /\ pair' = CHOOSE p \in Later : \A q \in Later : p <= q
          /\ round' = round /\ at' = at
      BY <1>21 DEF Accumulate, Proceed
    <3>2. \E p \in Later : \A q \in Later : p <= q
      BY <1>17, <1>21, LeastOf
    <3> QED BY <3>1, <3>2
  <2>2. pair' \in Measurable /\ pair' > pair /\ pair' \in Nat /\ pair \in Nat
    BY <1>1, <1>4, <2>1 DEF Later
  <2>3. \A p \in Measurable : p < pair' <=> p < pair \/ p = pair
    BY <1>4, <2>1, <2>2 DEF Later
  <2>4. Types'
    <3>1. TypeOK'
      BY <1>1, <1>2, <1>3, <1>8, <1>14, <2>1, <2>2 DEF Types, TypeOK, Rankings
    <3> QED BY <1>1, <1>2, <1>3, <1>8, <2>1, <3>1 DEF Types
  <2>5. Locked'
    BY <1>1, <1>2, <1>3, <1>16, <2>1, <2>3 DEF Locked
  <2>6. Tally'
    <3>1. ASSUME NEW p \in Measurable
          PROVE  measured'[<<Src(p), Dst(p)>>] =
                     [calls |-> IF p < pair' THEN round + 1 ELSE round, total |-> latSums'[p]]
      <4>1. p # pair => (p < pair' <=> p < pair)
        BY <2>3
      <4>2. p = pair => p < pair'
        BY <2>2
      <4>3. p # pair => measured[<<Src(p), Dst(p)>>] =
               [calls |-> IF p < pair' THEN round + 1 ELSE round, total |-> latSums[p]]
        BY <1>1, <4>1 DEF Tally, Tallied
      <4> QED BY <1>15, <4>2, <4>3
    <3> QED BY <1>1, <1>2, <2>1, <3>1 DEF Tally, Tallied
  <2> QED BY <1>18, <1>19, <1>20, <2>4, <2>5, <2>6
<1>22. CASE Later = {}
  <2>1. /\ pair' = FirstPair /\ round' = round + 1
        /\ at' = IF round + 1 < rounds THEN "measure" ELSE "sort"
    BY <1>22 DEF Accumulate, Proceed
  <2>2. pair' \in Measurable /\ \A q \in Measurable : pair' <= q
    BY <1>1, <2>1, FirstIs
  <2>3. \A p \in Measurable : p < pair \/ p = pair
    BY <1>1, <1>4, <1>22 DEF Later
  <2>4. \A p \in Measurable : ~(p < pair')
    BY <1>4, <2>2
  <2>5. /\ round' \in 0 .. rounds /\ round' > 0
        /\ at' = "measure" => round' < rounds
        /\ at' = "sort" => round' = rounds
    BY <1>1, <2>1
  <2>6. Types'
    <3>1. TypeOK'
      BY <1>1, <1>2, <1>3, <1>8, <1>14, <2>1, <2>2, <2>5 DEF Types, TypeOK, Rankings
    <3> QED BY <1>1, <1>2, <1>3, <1>8, <2>5, <3>1 DEF Types
  <2>7. Locked'
    <3>1. \A p \in Measurable : Src(p) \in lockable /\ Dst(p) \in lockable
      BY <1>1, <1>16, <2>3 DEF Locked
    <3> QED BY <1>1, <1>2, <1>3, <3>1 DEF Locked
  <2>8. Tally'
    <3>1. ASSUME NEW p \in Measurable
          PROVE  measured'[<<Src(p), Dst(p)>>] = [calls |-> round', total |-> latSums'[p]]
      <4>1. p # pair => measured[<<Src(p), Dst(p)>>] = [calls |-> round', total |-> latSums[p]]
        BY <1>1, <2>1, <2>3 DEF Tally, Tallied
      <4> QED BY <1>15, <2>1, <4>1
    <3>2. at' = "measure" => \A p \in Measurable : Tallied(p, IF p < pair THEN round + 1 ELSE round)'
      BY <1>2, <2>4, <3>1 DEF Tallied
    <3>3. at' = "sort" => \A p \in Measurable : Tallied(p, rounds)'
      BY <1>2, <1>3, <2>5, <3>1 DEF Tallied
    <3> QED BY <1>2, <2>1, <3>2, <3>3 DEF Tally
  <2> QED BY <1>18, <1>19, <1>20, <2>6, <2>7, <2>8
<1> QED BY <1>21, <1>22

\* A sorting of the neighbours of CPU i has each of the other CPUs once.
LEMMA SortingHas ==
    ASSUME cores \in Seq(CPUs), Distinct, NEW i \in 0 .. NumCores - 1, NEW ns \in Sortings(i)
    PROVE  /\ DOMAIN ns = 1 .. Len(ns) /\ Len(ns) = NumCores - 1 /\ Sorted(ns)
           /\ \A k \in DOMAIN ns : \E j \in 0 .. NumCores - 1 : j # i /\ ns[k] = Neighbour(i, j)
           /\ \A j \in 0 .. NumCores - 1 : j # i => \E k \in DOMAIN ns : ns[k] = Neighbour(i, j)
<1> DEFINE N == { Neighbour(i, j) : j \in 0 .. NumCores - 1 }
           f == [j \in 0 .. NumCores - 1 |-> Neighbour(i, j)]
<1>1. NumCores \in Nat /\ DOMAIN cores = 1 .. NumCores
  BY DEF NumCores
<1>2. ASSUME NEW a \in 0 .. NumCores - 1, NEW b \in 0 .. NumCores - 1,
             Neighbour(i, a) = Neighbour(i, b)
      PROVE  a = b
  <2>1. cores[a + 1] = cores[b + 1]
    BY <1>2 DEF Neighbour
  <2>2. a + 1 \in DOMAIN cores /\ b + 1 \in DOMAIN cores
    BY <1>1
  <2>3. a + 1 = b + 1
    BY <2>1, <2>2 DEF Distinct
  <2> QED BY <2>3
<1>3. f \in Bijection(0 .. NumCores - 1, N)
  <2>1. f \in [0 .. NumCores - 1 -> N]
    OBVIOUS
  <2>2. \A a, b \in 0 .. NumCores - 1 : f[a] = f[b] => a = b
    BY <1>2
  <2>3. \A x \in N : \E a \in 0 .. NumCores - 1 : f[a] = x
    OBVIOUS
  <2> HIDE DEF f, N
  <2> QED BY <2>1, <2>2, <2>3, Fun_IsBij
<1>4. IsFiniteSet(0 .. NumCores - 1) /\ Cardinality(0 .. NumCores - 1) = NumCores
  <2> HIDE DEF f, N
  <2>1. /\ IsFiniteSet(0 .. NumCores - 1)
        /\ Cardinality(0 .. NumCores - 1) =
             IF 0 > NumCores - 1 THEN 0 ELSE (NumCores - 1) - 0 + 1
    BY <1>1, FS_Interval, 0 \in Int, NumCores - 1 \in Int
  <2> QED BY <1>1, <2>1
<1>5. IsFiniteSet(N) /\ Cardinality(N) = NumCores
  <2> HIDE DEF f, N
  <2> QED BY <1>3, <1>4, FS_Bijection DEF ExistsBijection
<1>6. Neighbour(i, i) \in N
  OBVIOUS
<1>7. IsFiniteSet(N \ {Neighbour(i, i)}) /\ Cardinality(N \ {Neighbour(i, i)}) = NumCores - 1
  <2> HIDE DEF N
  <2> QED BY <1>5, <1>6, FS_RemoveElement
<1>8. ns \in SetToSeqs(N \ {Neighbour(i, i)}) /\ Sorted(ns)
  BY DEF Sortings
<1>9. /\ ns \in Seq(N \ {Neighbour(i, i)}) /\ Len(ns) = NumCores - 1
      /\ ToSet(ns) = N \ {Neighbour(i, i)}
  <2> HIDE DEF N
  <2> QED BY <1>7, <1>8, SeqOfSet
<1>10. DOMAIN ns = 1 .. Len(ns)
  BY <1>9
<1>11. \A k \in DOMAIN ns : \E j \in 0 .. NumCores - 1 : j # i /\ ns[k] = Neighbour(i, j)
  <2>1. \A k \in DOMAIN ns : ns[k] \in N /\ ns[k] # Neighbour(i, i)
    BY <1>9 DEF ToSet
  <2> QED BY <2>1
<1>12. \A j \in 0 .. NumCores - 1 : j # i => \E k \in DOMAIN ns : ns[k] = Neighbour(i, j)
  <2>1. \A j \in 0 .. NumCores - 1 : j # i => Neighbour(i, j) \in N \ {Neighbour(i, i)}
    BY <1>2
  <2> QED BY <1>9, <2>1 DEF ToSet
<1> QED BY <1>8, <1>9, <1>10, <1>11, <1>12

\* A neighbour n of CPU s has the latency of as many calls as there are rounds.
Genuine(s, n) ==
    /\ n.cpu \in Found \ {s} /\ n.socket = PackageOf[n.cpu]
    /\ measured[<<s, n.cpu>>].calls = rounds /\ measured[<<s, n.cpu>>].total \in Nat
    /\ n.latency = IF rounds = 0 THEN NaN ELSE measured[<<s, n.cpu>>].total

\* What Update installs is faithful to what it has measured.
LEMMA SortKeeps == ASSUME IInv, Sort PROVE IInv'
<1> USE DEF IInv
<1>1. /\ at = "sort" /\ at' = "done" /\ cores' = cores /\ cores \in Seq(CPUs)
      /\ result' = "ok" /\ rounds' = rounds /\ rounds \in Nat
      /\ measured' = measured /\ latSums' = latSums /\ lockable' = lockable
  BY MeasurementAssumption DEF Sort, sumVars, Types, TypeOK
<1>2. /\ NumCores' = NumCores /\ Found' = Found
      /\ Pairs' = Pairs /\ Measurable' = Measurable
      /\ \A p : Src(p)' = Src(p) /\ Dst(p)' = Dst(p)
  BY <1>1, SameTopology
<1>3. Online' = Online
  BY DEF Sort, hwVars, Online
<1>4. NumCores \in Nat /\ DOMAIN cores = 1 .. NumCores
  BY <1>1 DEF NumCores
<1>5. PICK r : /\ \A i \in 1 .. NumCores : r[i] \in Sortings(i - 1)
               /\ cache' = [i \in 1 .. NumCores |-> [cpu |-> cores[i], ranking |-> r[i]]]
  BY DEF Sort
<1>6. /\ DOMAIN cache' = 1 .. NumCores /\ Len(cache') = NumCores
      /\ \A i \in 1 .. NumCores : cache'[i].cpu = cores[i] /\ cache'[i].ranking = r[i]
  BY <1>4, <1>5
<1>7. ASSUME NEW i \in 1 .. NumCores, NEW j \in 0 .. NumCores - 1, j # i - 1
      PROVE  /\ Neighbour(i - 1, j).cpu = cores[j + 1]
             /\ Genuine(cores[i], Neighbour(i - 1, j))
  <2> DEFINE p == (i - 1) * NumCores + j
  <2>1. i - 1 \in 0 .. NumCores - 1 /\ (i - 1) + 1 = i
    BY <1>4
  <2>2. p \in Measurable /\ Src(p) = cores[i] /\ Dst(p) = cores[j + 1]
    BY <1>1, <1>7, <2>1, PairOf
  <2>3. p \in Pairs /\ cores[j + 1] # cores[i] /\ cores[j + 1] \in Found
    BY <1>1, <2>2, PairTypes DEF Measurable
  <2>4. latSums[p] \in Nat
    BY <1>1, <2>3 DEF Types
  <2>5. measured[<<cores[i], cores[j + 1]>>] = [calls |-> rounds, total |-> latSums[p]]
    BY <1>1, <2>2 DEF Tally, Tallied
  <2>6. /\ Neighbour(i - 1, j).cpu = cores[j + 1]
        /\ Neighbour(i - 1, j).socket = PackageOf[cores[j + 1]]
        /\ Neighbour(i - 1, j).latency = IF rounds = 0 THEN NaN ELSE latSums[p]
    BY DEF Neighbour, Average
  <2> HIDE DEF p
  <2> QED BY <2>3, <2>4, <2>5, <2>6 DEF Genuine
<1>8. ASSUME NEW i \in 1 .. NumCores
      PROVE  /\ DOMAIN r[i] = 1 .. Len(r[i]) /\ Len(r[i]) = NumCores - 1 /\ Sorted(r[i])
             /\ \A k \in DOMAIN r[i] :
                  \E j \in 0 .. NumCores - 1 : j # i - 1 /\ r[i][k] = Neighbour(i - 1, j)
             /\ \A j \in 0 .. NumCores - 1 :
                  j # i - 1 => \E k \in DOMAIN r[i] : r[i][k] = Neighbour(i - 1, j)
  <2>1. i - 1 \in 0 .. NumCores - 1 /\ r[i] \in Sortings(i - 1)
    BY <1>4, <1>5
  <2> QED BY <1>1, <2>1, SortingHas
<1>9. ASSUME NEW i \in 1 .. NumCores PROVE NeighboursFaithful(cores[i], r[i])
  <2>1. ASSUME NEW k \in DOMAIN r[i] PROVE Genuine(cores[i], r[i][k])
    <3>1. PICK j \in 0 .. NumCores - 1 : j # i - 1 /\ r[i][k] = Neighbour(i - 1, j)
      BY <1>8
    <3> QED BY <1>7, <3>1
  <2>2. ASSUME NEW c \in Found \ {cores[i]} PROVE \E k \in DOMAIN r[i] : r[i][k].cpu = c
    <3>1. PICK q \in 1 .. NumCores : c = cores[q]
      BY <1>4 DEF Found, ToSet
    <3>2. q - 1 \in 0 .. NumCores - 1 /\ q - 1 # i - 1 /\ (q - 1) + 1 = q
      BY <1>4, <2>2, <3>1
    <3>3. Neighbour(i - 1, q - 1).cpu = cores[(q - 1) + 1]
      BY <1>7, <3>2
    <3>4. \E k \in DOMAIN r[i] : r[i][k] = Neighbour(i - 1, q - 1)
      BY <1>8, <3>2
    <3> QED BY <3>1, <3>2, <3>3, <3>4
  <2>3. { n.cpu : n \in ToSet(r[i]) } = Found \ {cores[i]}
    <3>1. \A k \in DOMAIN r[i] : r[i][k].cpu \in Found \ {cores[i]}
      BY <2>1 DEF Genuine
    <3>2. ASSUME NEW n \in ToSet(r[i]) PROVE n.cpu \in Found \ {cores[i]}
      <4>1. PICK k \in DOMAIN r[i] : n = r[i][k]
        BY DEF ToSet
      <4> QED BY <3>1, <4>1
    <3>3. ASSUME NEW c \in Found \ {cores[i]} PROVE \E n \in ToSet(r[i]) : n.cpu = c
      <4>1. PICK k \in DOMAIN r[i] : r[i][k].cpu = c
        BY <2>2
      <4>2. r[i][k] \in ToSet(r[i])
        BY DEF ToSet
      <4> QED BY <4>1, <4>2
    <3> QED BY <3>2, <3>3
  <2>4. ASSUME NEW k \in 1 .. Len(r[i]) - 1 PROVE r[i][k].latency <= r[i][k + 1].latency
    <3>1. k \in DOMAIN r[i] /\ k + 1 \in DOMAIN r[i] /\ k < k + 1
      <4>1. DOMAIN r[i] = 1 .. Len(r[i]) /\ Len(r[i]) \in Nat
        BY <1>4, <1>8
      <4> QED BY <4>1
    <3>2. ~Less(r[i][k + 1].latency, r[i][k].latency)
      BY <1>8, <3>1 DEF Sorted
    <3>3. \/ r[i][k].latency = NaN /\ r[i][k + 1].latency = NaN
          \/ r[i][k].latency \in Nat /\ r[i][k + 1].latency \in Nat
      BY <2>1, <3>1 DEF Genuine
    <3> QED BY <3>2, <3>3 DEF Less, NaN
  <2>5. \A k \in DOMAIN r[i] :
          /\ measured[<<cores[i], r[i][k].cpu>>].calls = rounds
          /\ r[i][k].latency = IF rounds = 0 THEN NaN ELSE measured[<<cores[i], r[i][k].cpu>>].total
          /\ r[i][k].socket = PackageOf[r[i][k].cpu]
    BY <2>1 DEF Genuine
  <2> QED BY <1>8, <2>3, <2>4, <2>5 DEF NeighboursFaithful
<1>10. RankingFaithful'
  <2>1. \A i, j \in 1 .. NumCores : i < j => cores[i] < cores[j]
    BY <1>1, <1>4 DEF Ascending
  <2>2. { cache'[i].cpu : i \in DOMAIN cache' } = Found
    BY <1>4, <1>6 DEF Found, ToSet
  <2>3. \A s, ns : NeighboursFaithful(s, ns)' <=> NeighboursFaithful(s, ns)
    BY <1>1, <1>2 DEF NeighboursFaithful
  <2>4. \A i \in DOMAIN cache' : NeighboursFaithful(cache[i].cpu, cache[i].ranking)'
    BY <1>6, <1>9, <2>3
  <2> QED BY <1>1, <1>2, <1>6, <2>1, <2>2, <2>4 DEF RankingFaithful
<1>11. OutcomeFaithful'
  <2>1. SUFFICES ASSUME rounds > 0, NumCores > 1, NEW c \in Found PROVE c \in lockable
    BY <1>1, <1>2 DEF OutcomeFaithful
  <2>2. PICK q \in 1 .. NumCores : c = cores[q]
    BY <1>4 DEF Found, ToSet
  <2>3. PICK w \in 1 .. NumCores : w # q
    BY <1>4, <2>1
  <2>4. /\ q - 1 \in 0 .. NumCores - 1 /\ w - 1 \in 0 .. NumCores - 1
        /\ q - 1 # w - 1 /\ (q - 1) + 1 = q
    BY <1>4, <2>3
  <2>5. /\ (q - 1) * NumCores + (w - 1) \in Measurable
        /\ Src((q - 1) * NumCores + (w - 1)) = cores[(q - 1) + 1]
    BY <1>1, <2>4, PairOf
  <2> QED BY <1>1, <2>1, <2>2, <2>4, <2>5 DEF Locked
<1>12. Types'
  <2>1. ASSUME NEW i \in 1 .. NumCores PROVE r[i] \in Rankings
    <3> DEFINE R == [cpu : CPUs, socket : { PackageOf[c] : c \in CPUs }, latency : Int]
    <3>1. ASSUME NEW k \in DOMAIN r[i] PROVE r[i][k] \in R
      <4>1. PICK j \in 0 .. NumCores - 1 : j # i - 1 /\ r[i][k] = Neighbour(i - 1, j)
        BY <1>8
      <4>2. Neighbour(i - 1, j).latency \in Int
        <5>1. Genuine(cores[i], Neighbour(i - 1, j))
          BY <1>7, <4>1
        <5>2. NaN \in Int
          BY DEF NaN
        <5>3. Nat \subseteq Int
          OBVIOUS
        <5> HIDE DEF R
        <5> QED BY <5>1, <5>2, <5>3 DEF Genuine
      <4>3. cores[j + 1] \in CPUs
        BY <1>1, <1>4
      <4>4. Neighbour(i - 1, j) \in R
        BY <4>2, <4>3 DEF Neighbour
      <4> QED BY <4>1, <4>4
    <3>2. DOMAIN r[i] = 1 .. Len(r[i]) /\ Len(r[i]) \in Nat
      BY <1>4, <1>8
    <3>3. r[i] = [k \in 1 .. Len(r[i]) |-> r[i][k]]
      <4>1. r[i] \in SetToSeqs({ Neighbour(i - 1, j) : j \in 0 .. NumCores - 1 }
                                 \ {Neighbour(i - 1, i - 1)})
        BY <1>5 DEF Sortings
      <4> QED BY <3>2, <4>1 DEF SetToSeqs
    <3>4. r[i] \in Seq(R)
      <4> HIDE DEF R
      <4>1. r[i] \in [1 .. Len(r[i]) -> R]
        BY <3>1, <3>2, <3>3
      <4> QED BY <3>2, <4>1
    <3> QED BY <3>4 DEF Rankings
  <2>2. cache' \in Seq([cpu : CPUs, ranking : Rankings])
    <3>1. \A i \in 1 .. NumCores : cores[i] \in CPUs
      BY <1>1, <1>4
    <3>2. cache' \in [1 .. NumCores -> [cpu : CPUs, ranking : Rankings]]
      BY <1>5, <2>1, <3>1
    <3> DEFINE R == [cpu : CPUs, ranking : Rankings]
    <3> HIDE DEF R
    <3>3. ASSUME NEW s \in [1 .. NumCores -> R] PROVE s \in Seq(R)
      BY <1>4
    <3> QED BY <3>2, <3>3 DEF R
  <2>3. TypeOK'
    BY <1>1, <1>2, <2>2 DEF Sort, Types, TypeOK, hwVars, linkVars, detectVars, sumVars, Rankings
  <2> QED BY <1>1, <2>3 DEF Types
<1>13. Detection' /\ Distinct' /\ Ascending'
  BY <1>1 DEF Detection, Distinct, Ascending
<1>14. Faded' /\ Locked' /\ Tally'
  BY <1>1, <1>2, <1>3 DEF Sort, Faded, Locked, Tally, linkVars
<1> QED BY <1>10, <1>11, <1>12, <1>13, <1>14

\* Every step keeps the invariant.
LEMMA NextInvariant == IInv /\ [Next]_vars => IInv'
<1> SUFFICES ASSUME IInv, [Next]_vars PROVE IInv'
  OBVIOUS
<1>1. CASE UNCHANGED vars
  <2>1. cores' = cores /\ at' = at /\ result' = result
    BY <1>1 DEF vars
  <2>2. /\ NumCores' = NumCores /\ Found' = Found
        /\ Pairs' = Pairs /\ Measurable' = Measurable
        /\ \A p : Src(p)' = Src(p) /\ Dst(p)' = Dst(p)
    BY <2>1, SameTopology
  <2>3. Online' = Online
    BY <1>1 DEF vars, hwVars, Online
  <2>4. Types'
    BY <1>1, <2>2 DEF IInv, Types, TypeOK, Rankings, vars, hwVars, linkVars, detectVars, sumVars
  <2>5. Detection' /\ Distinct' /\ Ascending' /\ Faded'
    BY <1>1, <2>2, <2>3 DEF IInv, Detection, Distinct, Ascending, Faded, vars, detectVars, linkVars
  <2>6. \A u : CPUOf(u)' = CPUOf(u)
    BY <1>1, <2>2 DEF CPUOf, vars, sumVars
  <2>7. Locked' /\ Tally'
    BY <1>1, <2>2, <2>3, <2>6 DEF IInv, Locked, Tally, Tallied, NoneMeasured, vars, linkVars, sumVars
  <2>8. OutcomeFaithful' /\ RankingFaithful'
    BY <1>1, <2>2 DEF IInv, OutcomeFaithful, RankingFaithful, NeighboursFaithful, vars, sumVars
  <2> QED BY <2>4, <2>5, <2>7, <2>8 DEF IInv
<1>2. CASE Update
  BY <1>2, ListKeeps, DetectedKeeps, ReadKeeps, BeginKeeps, LockKeeps, ReturnKeeps,
     FailedKeeps, AccumulateKeeps, SortKeeps DEF Update
<1>3. CASE \E c \in CPUs : Hotplug(c)
  BY <1>3, HotplugKeeps
<1>4. CASE Returned
  BY <1>1, <1>4 DEF Returned
<1> QED BY <1>1, <1>2, <1>3, <1>4 DEF Next

-----------------------------------------------------------------------------
(* The theorems                                                            *)

\* The inductive invariant holds in every behaviour.
THEOREM Invariance == Spec => []IInv
BY InitInvariant, NextInvariant, PTL DEF Spec

\* In every call of Update every variable has its type, on every host.
THEOREM TypeCorrect == Spec => []TypeOK
<1>1. IInv => TypeOK
  BY DEF IInv, Types
<1> QED BY <1>1, Invariance, PTL

\* detectTopologySystem finds every CPU that is online throughout, and none
\* that was online at no moment of the detection.
THEOREM DetectionIsFaithful == Spec => []TopologyFaithful
<1>1. IInv => TopologyFaithful
  BY DEF IInv, Detection, TopologyFaithful
<1> QED BY <1>1, Invariance, PTL

\* Update ranks no CPU that it could not have measured, and fails only for one
\* that was not online.
THEOREM OutcomeIsFaithful == Spec => []OutcomeFaithful
<1>1. IInv => OutcomeFaithful
  BY DEF IInv
<1> QED BY <1>1, Invariance, PTL

\* The ranking that Update installs has for each CPU all the others, by the
\* average of the measurements of just that pair, as many as there are rounds.
THEOREM RankingIsFaithful == Spec => []RankingFaithful
<1>1. IInv => RankingFaithful
  BY DEF IInv
<1> QED BY <1>1, Invariance, PTL

\* The ranking of a CPU is a sequence of neighbours.
LEMMA ElementIn ==
    ASSUME NEW S, NEW s \in Seq(S), NEW i \in DOMAIN s PROVE s[i] \in S
OBVIOUS

LEMMA RowTyped ==
    ASSUME TypeOK, NEW i \in DOMAIN cache PROVE cache[i].ranking \in Rankings
<1>1. cache \in Seq([cpu : CPUs, ranking : Rankings])
  BY DEF TypeOK
<1>2. cache[i] \in [cpu : CPUs, ranking : Rankings]
  <2> DEFINE R == [cpu : CPUs, ranking : Rankings]
  <2> HIDE DEF R
  <2>1. cache \in Seq(R)
    BY <1>1 DEF R
  <2> QED BY <2>1, ElementIn DEF R
<1> QED BY <1>2

\* The neighbours of a ranked CPU are in their places one each: there are as
\* many places as other CPUs, so a row that has all of them has none twice.
LEMMA RowOf ==
    ASSUME cores \in Seq(CPUs), Distinct, NEW s \in Found, NEW ns \in Rankings,
           NeighboursFaithful(s, ns)
    PROVE  /\ DOMAIN ns = 1 .. NumCores - 1
           /\ [k \in DOMAIN ns |-> ns[k].cpu] \in Bijection(DOMAIN ns, Found \ {s})
<1> DEFINE f == [k \in DOMAIN ns |-> ns[k].cpu]
           S == Found \ {s}
           n == NumCores - 1
<1>1. IsFiniteSet(Found) /\ Cardinality(Found) = NumCores /\ NumCores \in Nat
  BY FoundAre
<1>2. IsFiniteSet(S) /\ Cardinality(S) = n
  BY <1>1, FS_RemoveElement
<1>3. n \in Nat
  <2> HIDE DEF S, n
  <2> QED BY <1>2, FS_CardinalityType
<1>4. DOMAIN ns = 1 .. n
  <2>1. DOMAIN ns = 1 .. Len(ns)
    BY DEF Rankings
  <2> QED BY <2>1 DEF NeighboursFaithful
<1>5. { x.cpu : x \in ToSet(ns) } = S
  BY DEF NeighboursFaithful
<1>6. { x.cpu : x \in ToSet(ns) } = { f[k] : k \in 1 .. n }
  BY <1>4 DEF ToSet
<1>7. f \in [1 .. n -> S]
  <2>1. f = [k \in 1 .. n |-> f[k]]
    BY <1>4
  <2> HIDE DEF f, S, n
  <2> QED BY <1>5, <1>6, <2>1
<1> HIDE DEF f, S, n
<1>8. f \in Surjection(1 .. n, S)
  BY <1>5, <1>6, <1>7, Fun_IsSurj
<1>9. f \in Injection(1 .. n, S)
  BY <1>2, <1>3, <1>8, UpTo, FS_SurjSameCardinalityImpliesInj
<1> QED BY <1>4, <1>8, <1>9 DEF f, S, n, Bijection

\* Every CPU of a ranking of several is another one's neighbour.
LEMMA EachIsNeighbour ==
    ASSUME cores \in Seq(CPUs), Distinct, RankingFaithful, result = "ok", NumCores > 1,
           NEW c \in Found
    PROVE  \E i \in DOMAIN cache : \E n \in ToSet(cache[i].ranking) : n.cpu = c
<1>1. NumCores \in Nat /\ DOMAIN cores = 1 .. NumCores
  BY DEF NumCores
<1>2. PICK d \in Found : d # c
  <2>1. 1 \in DOMAIN cores /\ 2 \in DOMAIN cores
    BY <1>1
  <2>2. cores[1] # cores[2]
    BY <2>1 DEF Distinct
  <2>3. cores[1] \in Found /\ cores[2] \in Found
    BY <2>1 DEF Found, ToSet
  <2> QED BY <2>2, <2>3
<1>3. PICK i \in DOMAIN cache : cache[i].cpu = d
  BY <1>2 DEF RankingFaithful
<1>4. { n.cpu : n \in ToSet(cache[i].ranking) } = Found \ {d}
  BY <1>3 DEF RankingFaithful, NeighboursFaithful
<1> QED BY <1>2, <1>4

\* SummarizeRankings counts the CPUs found and, if there are several, their
\* packages.
LEMMA CountsOf ==
    ASSUME IInv, result = "ok"
    PROVE  /\ SummarizeRankings(cache).cpus = NumCores
           /\ NumCores > 1 =>
                SummarizeRankings(cache).sockets = Cardinality({ PackageOf[c] : c \in Found })
           /\ NumCores <= 1 => SummarizeRankings(cache).sockets = 0
<1> DEFINE N == UNION { ToSet(cache[i].ranking) : i \in DOMAIN cache }
<1>1. cores \in Seq(CPUs) /\ Distinct /\ RankingFaithful
  BY DEF IInv, Types, TypeOK
<1>2. ASSUME NEW n \in N PROVE n.cpu \in Found /\ n.socket = PackageOf[n.cpu]
  <2>1. PICK i \in DOMAIN cache : n \in ToSet(cache[i].ranking)
    OBVIOUS
  <2>2. NeighboursFaithful(cache[i].cpu, cache[i].ranking)
    BY <1>1 DEF RankingFaithful
  <2>3. PICK k \in DOMAIN cache[i].ranking : n = cache[i].ranking[k]
    BY <2>1 DEF ToSet
  <2>4. n.cpu \in Found
    BY <2>1, <2>2 DEF NeighboursFaithful
  <2>5. n.socket = PackageOf[n.cpu]
    BY <2>2, <2>3 DEF NeighboursFaithful
  <2> QED BY <2>4, <2>5
<1>3. { cache[i].cpu : i \in DOMAIN cache } = Found
  BY <1>1 DEF RankingFaithful
<1>4. { cache[i].cpu : i \in DOMAIN cache } \cup { n.cpu : n \in N } = Found
  <2> HIDE DEF N
  <2> QED BY <1>2, <1>3
<1>5. SummarizeRankings(cache).cpus = NumCores
  <2>1. SummarizeRankings(cache).cpus =
          Cardinality({ cache[i].cpu : i \in DOMAIN cache } \cup { n.cpu : n \in N })
    BY DEF SummarizeRankings
  <2> HIDE DEF N
  <2> QED BY <1>1, <1>4, <2>1, FoundAre
<1>6. ASSUME NumCores > 1
      PROVE  SummarizeRankings(cache).sockets = Cardinality({ PackageOf[c] : c \in Found })
  <2>1. SummarizeRankings(cache).sockets = Cardinality({ n.socket : n \in N })
    BY DEF SummarizeRankings
  <2>2. ASSUME NEW c \in Found PROVE \E n \in N : n.cpu = c
    BY <1>1, <1>6, EachIsNeighbour
  <2>3. { n.socket : n \in N } = { PackageOf[c] : c \in Found }
    <3> HIDE DEF N
    <3>1. ASSUME NEW n \in N PROVE n.socket \in { PackageOf[c] : c \in Found }
      BY <1>2
    <3>2. ASSUME NEW c \in Found PROVE \E n \in N : n.socket = PackageOf[c]
      BY <1>2, <2>2
    <3> QED BY <3>1, <3>2
  <2> QED BY <2>1, <2>3
<1>7. ASSUME NumCores <= 1 PROVE SummarizeRankings(cache).sockets = 0
  <2>1. SummarizeRankings(cache).sockets = Cardinality({ n.socket : n \in N })
    BY DEF SummarizeRankings
  <2>2. N = {}
    <3>1. ASSUME NEW i \in DOMAIN cache PROVE ToSet(cache[i].ranking) = {}
      <4>1. /\ cache[i].cpu \in Found /\ cache[i].ranking \in Rankings
            /\ NeighboursFaithful(cache[i].cpu, cache[i].ranking)
        <5>1. cache[i].ranking \in Rankings
          BY RowTyped DEF IInv, Types
        <5> QED BY <1>1, <1>3, <5>1 DEF RankingFaithful
      <4>2. DOMAIN cache[i].ranking = 1 .. NumCores - 1
        BY <1>1, <4>1, RowOf
      <4>3. NumCores \in Nat
        BY <1>1, FoundAre
      <4>4. DOMAIN cache[i].ranking = {}
        BY <1>7, <4>2, <4>3
      <4> QED BY <4>4 DEF ToSet
    <3> QED BY <3>1
  <2> HIDE DEF N
  <2>3. { n.socket : n \in N } = {}
    BY <2>2
  <2> QED BY <2>1, <2>3, FS_EmptySet
<1> QED BY <1>5, <1>6, <1>7

-----------------------------------------------------------------------------
(* The latencies of the summary                                            *)

\* The places of the elements of the first n of a sequence of sequences.
Places(ss, n) == UNION { {a} \X DOMAIN ss[a] : a \in 1 .. n }

\* The recursion of FlattenSeq, as a function up to n.
Flattening(ss, n, f) == f = [i \in 1 .. n |-> IF i = 1 THEN ss[i] ELSE f[i - 1] \o ss[i]]

LEMMA FlatteningExists ==
    ASSUME NEW X, NEW ss \in Seq(Seq(X)), NEW n \in 1 .. Len(ss)
    PROVE  \E f : Flattening(ss, n, f)
<1> DEFINE S == { m \in 1 .. n : \E f : Flattening(ss, m, f) }
<1>0. n \in Nat
  OBVIOUS
<1>1. 1 \in S
  <2>1. Flattening(ss, 1, [i \in 1 .. 1 |-> ss[1]])
    BY DEF Flattening
  <2> QED BY <2>1
<1>2. ASSUME NEW i \in 1 .. n - 1, i \in S PROVE i + 1 \in S
  <2>1. PICK f : Flattening(ss, i, f)
    BY <1>2
  <2> DEFINE g == [k \in 1 .. i + 1 |-> IF k <= i THEN f[k] ELSE f[i] \o ss[i + 1]]
  <2>2. ASSUME NEW k \in 1 .. i + 1
        PROVE  g[k] = IF k = 1 THEN ss[k] ELSE g[k - 1] \o ss[k]
    <3>1. CASE k <= i
      <4>1. f[k] = IF k = 1 THEN ss[k] ELSE f[k - 1] \o ss[k]
        <5>1. k \in 1 .. i
          BY <1>0, <3>1
        <5> HIDE DEF S, g
        <5> QED BY <2>1, <5>1 DEF Flattening
      <4>2. g[k] = f[k] /\ (k # 1 => g[k - 1] = f[k - 1])
        BY <3>1
      <4> QED BY <4>1, <4>2
    <3>2. CASE k = i + 1
      <4>1. k - 1 = i /\ k # 1 /\ k - 1 \in 1 .. i + 1 /\ ~(k <= i) /\ k - 1 <= i
        BY <1>0, <3>2
      <4>2. g[k] = f[i] \o ss[i + 1] /\ g[k - 1] = f[i]
        BY <4>1
      <4> QED BY <3>2, <4>1, <4>2
    <3> QED BY <3>1, <3>2
  <2>3. Flattening(ss, i + 1, g)
    <3>1. g = [k \in 1 .. i + 1 |-> g[k]]
      OBVIOUS
    <3> HIDE DEF g
    <3> QED BY <2>2, <3>1 DEF Flattening
  <2>4. i + 1 \in 1 .. n
    OBVIOUS
  <2> QED BY <2>3, <2>4
<1>3. 1 .. n \subseteq S
  <2>1. n > 0 => 1 \in S
    BY <1>1
  <2>2. \A i \in 1 .. n - 1 : i \in S => i + 1 \in S
    BY <1>2
  <2> HIDE DEF S
  <2> QED BY <1>0, <2>1, <2>2, OneByOne
<1> QED BY <1>3

\* FlattenSeq has at each index the element of one place, and of each place
\* just once.
LEMMA Flattened ==
    ASSUME NEW X, NEW ss \in Seq(Seq(X))
    PROVE  /\ FlattenSeq(ss) \in Seq(X)
           /\ \E b \in Bijection(DOMAIN FlattenSeq(ss), Places(ss, Len(ss))) :
                \A k \in DOMAIN FlattenSeq(ss) : FlattenSeq(ss)[k] = ss[b[k][1]][b[k][2]]
<1> DEFINE n == Len(ss)
           At(F, m) == /\ F \in Seq(X)
                       /\ \E b \in Bijection(DOMAIN F, Places(ss, m)) :
                            \A k \in DOMAIN F : F[k] = ss[b[k][1]][b[k][2]]
<1>1. CASE n = 0
  <2>1. FlattenSeq(ss) = ss /\ ss = << >>
    BY <1>1 DEF FlattenSeq
  <2>2. Places(ss, n) = {} /\ DOMAIN ss = {}
    BY <1>1 DEF Places
  <2>3. [k \in {} |-> k] \in Bijection({}, {})
    BY DEF Bijection, Injection, Surjection, IsInjective
  <2>4. ss \in Seq(X)
    BY <2>1
  <2> QED BY <2>1, <2>2, <2>3, <2>4
<1>2. CASE n # 0
  <2>1. n \in Nat \ {0}
    BY <1>2
  <2> DEFINE f == CHOOSE f : Flattening(ss, n, f)
  <2>2. Flattening(ss, n, f)
    BY <2>1, FlatteningExists
  <2>3. FlattenSeq(ss) = f[n]
    BY <1>2 DEF FlattenSeq, Flattening
  <2> HIDE DEF f
  <2> DEFINE S == { m \in 1 .. n : At(f[m], m) }
  <2>4. 1 \in S
    <3>1. f[1] = ss[1] /\ ss[1] \in Seq(X) /\ 1 \in 1 .. n
      BY <2>1, <2>2 DEF Flattening
    <3> DEFINE b == [k \in DOMAIN ss[1] |-> <<1, k>>]
    <3>2. Places(ss, 1) = {1} \X DOMAIN ss[1]
      BY DEF Places
    <3>3. b \in Bijection(DOMAIN ss[1], Places(ss, 1))
      <4>1. b \in [DOMAIN ss[1] -> Places(ss, 1)]
        BY <3>2
      <4>2. \A j, k \in DOMAIN ss[1] : b[j] = b[k] => j = k
        OBVIOUS
      <4>3. \A q \in Places(ss, 1) : \E k \in DOMAIN ss[1] : b[k] = q
        BY <3>2
      <4> HIDE DEF b
      <4> QED BY <4>1, <4>2, <4>3 DEF Bijection, Injection, Surjection, IsInjective
    <3>4. \A k \in DOMAIN ss[1] : ss[1][k] = ss[b[k][1]][b[k][2]]
      OBVIOUS
    <3> HIDE DEF b
    <3> QED BY <3>1, <3>3, <3>4
  <2>5. ASSUME NEW i \in 1 .. n - 1, i \in S PROVE i + 1 \in S
    <3> DEFINE t == ss[i + 1]
               F == f[i]
               G == f[i + 1]
    <3>1. G = F \o t /\ t \in Seq(X) /\ F \in Seq(X) /\ i + 1 \in 1 .. n
      <4>1. i + 1 \in 1 .. n /\ i + 1 # 1 /\ (i + 1) - 1 = i
        BY <2>1
      <4>2. f[i + 1] = f[(i + 1) - 1] \o ss[i + 1]
        BY <2>2, <4>1 DEF Flattening
      <4>3. G = F \o t
        BY <4>1, <4>2
      <4>4. t \in Seq(X)
        BY <4>1
      <4>5. F \in Seq(X)
        BY <2>5
      <4> HIDE DEF F, G, t, S
      <4> QED BY <4>1, <4>3, <4>4, <4>5
    <3>2. PICK b \in Bijection(DOMAIN F, Places(ss, i)) :
               \A k \in DOMAIN F : F[k] = ss[b[k][1]][b[k][2]]
      BY <2>5
    <3> HIDE DEF F, G, t
    <3>3. /\ G \in Seq(X) /\ DOMAIN G = 1 .. Len(F) + Len(t)
          /\ DOMAIN F = 1 .. Len(F) /\ DOMAIN t = 1 .. Len(t)
          /\ Len(F) \in Nat /\ Len(t) \in Nat
          /\ \A k \in 1 .. Len(F) : G[k] = F[k]
          /\ \A k \in 1 .. Len(t) : G[Len(F) + k] = t[k]
      BY <3>1
    <3> DEFINE c == [k \in DOMAIN G |-> IF k <= Len(F) THEN b[k] ELSE <<i + 1, k - Len(F)>>]
    <3>4. Places(ss, i + 1) = Places(ss, i) \cup ({i + 1} \X DOMAIN t)
      BY <2>1 DEF Places, t
    <3>5. ASSUME NEW q \in Places(ss, i) PROVE q[1] # i + 1
      BY DEF Places
    <3>6. ASSUME NEW k \in DOMAIN F PROVE b[k] \in Places(ss, i)
      BY <3>2, <3>6 DEF Bijection, Injection
    <3>7. c \in [DOMAIN G -> Places(ss, i + 1)]
      <4>1. ASSUME NEW k \in DOMAIN G, k <= Len(F) PROVE c[k] \in Places(ss, i + 1)
        BY <3>3, <3>4, <3>6, <4>1
      <4>2. ASSUME NEW k \in DOMAIN G, ~(k <= Len(F)) PROVE c[k] \in Places(ss, i + 1)
        <5>1. k - Len(F) \in DOMAIN t
          BY <3>3, <4>2
        <5> QED BY <3>4, <4>2, <5>1
      <4> QED BY <4>1, <4>2
    <3>8. ASSUME NEW j \in DOMAIN G, NEW k \in DOMAIN G, c[j] = c[k] PROVE j = k
      <4>1. CASE j <= Len(F) /\ k <= Len(F)
        <5>1. j \in DOMAIN F /\ k \in DOMAIN F /\ b[j] = b[k]
          BY <3>3, <3>8, <4>1
        <5> QED BY <3>2, <5>1 DEF Bijection, Injection, IsInjective
      <4>2. CASE ~(j <= Len(F)) /\ ~(k <= Len(F))
        <5>1. c[j] = <<i + 1, j - Len(F)>> /\ c[k] = <<i + 1, k - Len(F)>>
          BY <4>2
        <5>2. j - Len(F) = k - Len(F)
          BY <3>8, <5>1
        <5>3. j \in Nat /\ k \in Nat /\ Len(F) \in Nat
          BY <3>3
        <5> HIDE DEF c
        <5> QED BY <5>2, <5>3
      <4>3. CASE j <= Len(F) /\ ~(k <= Len(F))
        <5>1. j \in DOMAIN F
          BY <3>3, <4>3
        <5>2. c[j] = b[j] /\ c[k] = <<i + 1, k - Len(F)>>
          BY <4>3
        <5>3. b[j] = <<i + 1, k - Len(F)>> /\ b[j] \in Places(ss, i)
          BY <3>6, <3>8, <5>1, <5>2
        <5> HIDE DEF c
        <5> QED BY <3>5, <5>3
      <4>4. CASE ~(j <= Len(F)) /\ k <= Len(F)
        <5>1. k \in DOMAIN F
          BY <3>3, <4>4
        <5>2. c[k] = b[k] /\ c[j] = <<i + 1, j - Len(F)>>
          BY <4>4
        <5>3. b[k] = <<i + 1, j - Len(F)>> /\ b[k] \in Places(ss, i)
          BY <3>6, <3>8, <5>1, <5>2
        <5> HIDE DEF c
        <5> QED BY <3>5, <5>3
      <4> QED BY <4>1, <4>2, <4>3, <4>4
    <3>9. ASSUME NEW q \in Places(ss, i + 1) PROVE \E k \in DOMAIN G : c[k] = q
      <4>1. CASE q \in Places(ss, i)
        <5>1. PICK k \in DOMAIN F : b[k] = q
          BY <3>2, <4>1 DEF Bijection, Surjection
        <5>2. k \in DOMAIN G /\ k <= Len(F)
          BY <3>3
        <5> QED BY <5>1, <5>2
      <4>2. CASE q \in {i + 1} \X DOMAIN t
        <5>1. PICK k \in DOMAIN t : q = <<i + 1, k>>
          BY <4>2
        <5>2. Len(F) + k \in DOMAIN G /\ ~(Len(F) + k <= Len(F)) /\ (Len(F) + k) - Len(F) = k
          BY <3>3
        <5> QED BY <5>1, <5>2
      <4> QED BY <3>4, <4>1, <4>2
    <3>10. ASSUME NEW k \in DOMAIN G PROVE G[k] = ss[c[k][1]][c[k][2]]
      <4>1. CASE k <= Len(F)
        <5>1. k \in 1 .. Len(F) /\ c[k] = b[k]
          BY <3>3, <4>1
        <5> QED BY <3>2, <3>3, <5>1
      <4>2. CASE ~(k <= Len(F))
        <5>1. k - Len(F) \in 1 .. Len(t) /\ Len(F) + (k - Len(F)) = k
          BY <3>3, <4>2
        <5>2. c[k] = <<i + 1, k - Len(F)>>
          BY <4>2
        <5>3. G[k] = t[k - Len(F)]
          BY <3>3, <5>1
        <5> QED BY <5>2, <5>3 DEF t
      <4> QED BY <4>1, <4>2
    <3> HIDE DEF c
    <3>11. c \in Bijection(DOMAIN G, Places(ss, i + 1))
      BY <3>7, <3>8, <3>9 DEF Bijection, Injection, Surjection, IsInjective
    <3> QED BY <3>1, <3>3, <3>10, <3>11 DEF G
  <2>6. 1 .. n \subseteq S
    <3> HIDE DEF S
    <3> QED BY <2>1, <2>4, <2>5, OneByOne
  <2>7. At(f[n], n)
    <3>1. n \in 1 .. n
      BY <2>1
    <3>2. n \in S
      BY <2>6, <3>1
    <3> HIDE DEF At
    <3> QED BY <3>2
  <2> QED BY <2>3, <2>7
<1> QED BY <1>1, <1>2

\* In a finite sequence of integers every place is taken, and Place says how
\* many elements there are before.
LEMMA PlaceTaken ==
    ASSUME NEW s \in Seq(Int), NEW q \in 0 .. Len(s) - 1
    PROVE  \E k \in DOMAIN s : Place(s, k) = q
<1> DEFINE n == Len(s)
           B(k) == { j \in DOMAIN s : s[j] < s[k] \/ (s[j] = s[k] /\ j < k) }
           f == [k \in 1 .. n |-> Place(s, k)]
<1>1. /\ n \in Nat /\ DOMAIN s = 1 .. n /\ \A k \in 1 .. n : s[k] \in Int
      /\ IsFiniteSet(1 .. n) /\ Cardinality(1 .. n) = n
  BY UpTo
<1> HIDE DEF n
<1>2. ASSUME NEW k \in 1 .. n
      PROVE  IsFiniteSet(B(k)) /\ Place(s, k) = Cardinality(B(k)) /\ Place(s, k) \in 0 .. n - 1
  <2>1. B(k) \in SUBSET (1 .. n) /\ k \notin B(k)
    BY <1>1
  <2>3. Place(s, k) = Cardinality(B(k))
    BY DEF Place
  <2> HIDE DEF B
  <2>2. IsFiniteSet(B(k)) /\ Cardinality(B(k)) <= n /\ (Cardinality(B(k)) = n => B(k) = 1 .. n)
    BY <1>1, <2>1, FS_Subset
  <2>4. Cardinality(B(k)) \in Nat
    BY <2>2, FS_CardinalityType
  <2> HIDE DEF B
  <2> QED BY <1>1, <2>1, <2>2, <2>3, <2>4
<1>3. ASSUME NEW j \in 1 .. n, NEW k \in 1 .. n, j \in B(k)
      PROVE  Place(s, j) < Place(s, k)
  <2>1. B(j) \in SUBSET B(k) /\ j \notin B(j)
    BY <1>1, <1>3
  <2>2. Cardinality(B(j)) <= Cardinality(B(k)) /\ Cardinality(B(j)) # Cardinality(B(k))
    BY <1>2, <1>3, <2>1, FS_Subset
  <2> HIDE DEF B
  <2> QED BY <1>2, <2>2
<1>4. ASSUME NEW j \in 1 .. n, NEW k \in 1 .. n, Place(s, j) = Place(s, k) PROVE j = k
  <2>1. j # k => j \in B(k) \/ k \in B(j)
    BY <1>1
  <2> HIDE DEF B
  <2>2. Place(s, j) \in Int /\ Place(s, k) \in Int
    BY <1>2
  <2> QED BY <1>3, <1>4, <2>1, <2>2
<1>5. f \in Injection(1 .. n, 0 .. n - 1)
  <2>1. f \in [1 .. n -> 0 .. n - 1] /\ \A j, k \in 1 .. n : f[j] = f[k] => j = k
    BY <1>2, <1>4
  <2> HIDE DEF f
  <2> QED BY <2>1 DEF Injection, IsInjective
<1>6. IsFiniteSet(0 .. n - 1) /\ Cardinality(0 .. n - 1) = n
  <2>1. 0 \in Int /\ n - 1 \in Int /\ (0 > n - 1 <=> n = 0) /\ (n - 1) - 0 + 1 = n
    BY <1>1
  <2> QED BY <1>1, <2>1, FS_Interval
<1>7. f \in Surjection(1 .. n, 0 .. n - 1)
  <2> HIDE DEF f
  <2> QED BY <1>1, <1>5, <1>6, FS_Injection
<1>8. PICK k \in 1 .. n : f[k] = q
  BY <1>7 DEF n, Surjection
<1> QED BY <1>1, <1>8

\* In a list of latencies one is the smallest and one the largest.
LEMMA Extremes ==
    ASSUME NEW s \in Seq(Int), s # << >>
    PROVE  /\ \E k \in DOMAIN s : \A j \in DOMAIN s : s[k] <= s[j]
           /\ \E k \in DOMAIN s : \A j \in DOMAIN s : s[j] <= s[k]
<1> DEFINE B(k) == { j \in DOMAIN s : s[j] < s[k] \/ (s[j] = s[k] /\ j < k) }
<1>1. /\ Len(s) \in Nat \ {0} /\ DOMAIN s = 1 .. Len(s) /\ \A k \in DOMAIN s : s[k] \in Int
      /\ IsFiniteSet(DOMAIN s) /\ Cardinality(DOMAIN s) = Len(s)
  BY UpTo
<1>2. \A k \in DOMAIN s : B(k) \in SUBSET (DOMAIN s \ {k}) /\ IsFiniteSet(B(k))
  <2>1. ASSUME NEW k \in DOMAIN s PROVE B(k) \in SUBSET (DOMAIN s \ {k}) /\ B(k) \in SUBSET DOMAIN s
    BY <1>1
  <2> HIDE DEF B
  <2> QED BY <1>1, <2>1, FS_Subset
<1>3. PICK k \in DOMAIN s : Place(s, k) = 0
  <2>1. 0 \in 0 .. Len(s) - 1
    BY <1>1
  <2> QED BY <2>1, PlaceTaken
<1>4. B(k) = {}
  <2>1. Cardinality(B(k)) = 0
    BY <1>3 DEF Place
  <2> HIDE DEF B
  <2> QED BY <1>2, <2>1, FS_EmptySet
<1>5. \A j \in DOMAIN s : s[k] <= s[j]
  BY <1>1, <1>4
<1>6. PICK l \in DOMAIN s : Place(s, l) = Len(s) - 1
  <2>1. Len(s) - 1 \in 0 .. Len(s) - 1
    BY <1>1
  <2> QED BY <2>1, PlaceTaken
<1>7. B(l) = DOMAIN s \ {l}
  <2>1. Cardinality(B(l)) = Len(s) - 1
    BY <1>6 DEF Place
  <2>2. IsFiniteSet(DOMAIN s \ {l}) /\ Cardinality(DOMAIN s \ {l}) = Len(s) - 1
    BY <1>1, FS_RemoveElement
  <2> HIDE DEF B
  <2> QED BY <1>2, <2>1, <2>2, FS_Subset
<1>8. \A j \in DOMAIN s : s[j] <= s[l]
  BY <1>1, <1>7
<1> QED BY <1>5, <1>8

\* Of a list of latencies no more than half are below the median, and fewer
\* than half above it.
LEMMA MedianHalves ==
    ASSUME NEW s \in Seq(Int), s # << >>
    PROVE  LET below == { j \in DOMAIN s : s[j] < Median(s) }
               above == { j \in DOMAIN s : s[j] > Median(s) }
           IN  /\ IsFiniteSet(below) /\ 2 * Cardinality(below) <= Len(s)
               /\ IsFiniteSet(above) /\ 2 * Cardinality(above) < Len(s)
<1> DEFINE n == Len(s)
           h == n \div 2
           B(k) == { j \in DOMAIN s : s[j] < s[k] \/ (s[j] = s[k] /\ j < k) }
<1>1. /\ n \in Nat \ {0} /\ DOMAIN s = 1 .. n /\ \A k \in DOMAIN s : s[k] \in Int
      /\ IsFiniteSet(DOMAIN s) /\ Cardinality(DOMAIN s) = n
  BY UpTo
<1> HIDE DEF n
<1>2. h \in 0 .. n - 1 /\ 2 * h <= n /\ n <= 2 * h + 1
  BY <1>1
<1> HIDE DEF h
<1>3. PICK k \in DOMAIN s : Place(s, k) = h /\ Median(s) = s[k]
  <2>1. \E k \in DOMAIN s : Place(s, k) = Len(s) \div 2
    BY <1>2, PlaceTaken DEF n, h
  <2> QED BY <2>1 DEF Median, n, h
<1> DEFINE below == { j \in DOMAIN s : s[j] < s[k] }
           above == { j \in DOMAIN s : s[j] > s[k] }
<1>4. Cardinality(B(k)) = h
  BY <1>3 DEF Place
<1>5. /\ below \in SUBSET B(k) /\ B(k) \in SUBSET DOMAIN s
      /\ above \in SUBSET (DOMAIN s \ (B(k) \cup {k})) /\ k \notin B(k)
  BY <1>1
<1> HIDE DEF below, above, B
<1>6. IsFiniteSet(B(k)) /\ IsFiniteSet(below) /\ Cardinality(below) <= h /\ Cardinality(below) \in Nat
  BY <1>1, <1>4, <1>5, FS_Subset, FS_CardinalityType
<1>7. /\ IsFiniteSet(DOMAIN s \ (B(k) \cup {k}))
      /\ Cardinality(DOMAIN s \ (B(k) \cup {k})) = n - (h + 1)
  <2>1. IsFiniteSet(B(k) \cup {k}) /\ Cardinality(B(k) \cup {k}) = h + 1
    BY <1>4, <1>5, <1>6, FS_AddElement
  <2>2. (DOMAIN s) \cap (B(k) \cup {k}) = B(k) \cup {k}
    BY <1>5
  <2> DEFINE U == B(k) \cup {k}
  <2>3. IsFiniteSet(DOMAIN s \ U) /\ Cardinality(DOMAIN s \ U) = n - Cardinality((DOMAIN s) \cap U)
    <3> HIDE DEF U
    <3> QED BY <1>1, FS_Difference
  <2> QED BY <2>1, <2>2, <2>3
<1>8. IsFiniteSet(above) /\ Cardinality(above) <= n - (h + 1) /\ Cardinality(above) \in Nat
  BY <1>5, <1>7, FS_Subset, FS_CardinalityType
<1>9. 2 * Cardinality(below) <= n /\ 2 * Cardinality(above) < n
  BY <1>1, <1>2, <1>6, <1>8
<1> QED BY <1>3, <1>6, <1>8, <1>9 DEF below, above, n

\* The latencies that SummarizeRankings collects.
Collected == FlattenSeq([i \in DOMAIN cache |->
                 [k \in DOMAIN cache[i].ranking |-> cache[i].ranking[k].latency]])

OtherPairs == { p \in Found \X Found : p[1] # p[2] }

\* They are those of the pairs of different CPUs, one of each, and no numbers if
\* there were no rounds.
LEMMA CollectedAre ==
    ASSUME IInv, result = "ok"
    PROVE  /\ Collected \in Seq(Int)
           /\ rounds = 0 => \A k \in DOMAIN Collected : Collected[k] = NaN
           /\ \E g \in Bijection(DOMAIN Collected, OtherPairs) :
                rounds > 0 => \A k \in DOMAIN Collected : Collected[k] = measured[g[k]].total
<1> DEFINE row(i) == [k \in DOMAIN cache[i].ranking |-> cache[i].ranking[k].latency]
           ss == [i \in DOMAIN cache |-> row(i)]
           n == NumCores
<1>1. /\ cores \in Seq(CPUs) /\ Distinct /\ RankingFaithful /\ TypeOK
      /\ cache \in Seq([cpu : CPUs, ranking : Rankings])
  BY DEF IInv, Types, TypeOK
<1>2. n \in Nat /\ DOMAIN cache = 1 .. n /\ Len(cache) = n
  <2>1. Len(cache) = n /\ n \in Nat
    BY <1>1, FoundAre DEF RankingFaithful
  <2> QED BY <1>1, <2>1
<1>3. ASSUME NEW i \in 1 .. n
      PROVE  /\ cache[i].cpu \in Found /\ cache[i].ranking \in Rankings
             /\ NeighboursFaithful(cache[i].cpu, cache[i].ranking)
             /\ DOMAIN cache[i].ranking = 1 .. n - 1
             /\ [k \in DOMAIN cache[i].ranking |-> cache[i].ranking[k].cpu]
                  \in Bijection(DOMAIN cache[i].ranking, Found \ {cache[i].cpu})
  <2>1. cache[i].ranking \in Rankings
    BY <1>1, <1>2, RowTyped
  <2>2. cache[i].cpu \in Found /\ NeighboursFaithful(cache[i].cpu, cache[i].ranking)
    BY <1>1, <1>2 DEF RankingFaithful
  <2> QED BY <1>1, <2>1, <2>2, RowOf
<1>4. ss \in Seq(Seq(Int)) /\ Len(ss) = n
  <2>1. ASSUME NEW i \in 1 .. n PROVE row(i) \in Seq(Int)
    <3>1. /\ cache[i].ranking \in Seq([cpu : CPUs, socket : { PackageOf[c] : c \in CPUs }, latency : Int])
      BY <1>3 DEF Rankings
    <3>2. ASSUME NEW k \in DOMAIN cache[i].ranking PROVE cache[i].ranking[k].latency \in Int
      <4> DEFINE R == [cpu : CPUs, socket : { PackageOf[c] : c \in CPUs }, latency : Int]
                 ns == cache[i].ranking
      <4>1. ns \in Seq(R) /\ k \in DOMAIN ns
        BY <3>1
      <4>2. ns[k] \in R
        <5> HIDE DEF R, ns
        <5> QED BY <4>1, ElementIn
      <4> QED BY <4>2
    <3>3. row(i) \in [1 .. n - 1 -> Int] /\ n - 1 \in Nat
      <4>1. n - 1 \in Nat
        BY <1>2
      <4> QED BY <1>3, <3>2, <4>1
    <3> HIDE DEF row
    <3> QED BY <3>3
  <2>2. ss \in [1 .. n -> Seq(Int)]
    <3> HIDE DEF row
    <3> QED BY <1>2, <2>1
  <2> HIDE DEF ss
  <2>3. ASSUME NEW s \in [1 .. n -> Seq(Int)] PROVE s \in Seq(Seq(Int)) /\ Len(s) = n
    BY <1>2
  <2> QED BY <2>2, <2>3
<1>5. Collected = FlattenSeq(ss)
  BY DEF Collected
<1>6. \A i \in 1 .. n : DOMAIN ss[i] = 1 .. n - 1
  BY <1>2, <1>3
<1>7. \A i \in 1 .. n : \A k \in 1 .. n - 1 : ss[i][k] = cache[i].ranking[k].latency
  BY <1>2, <1>3
<1> HIDE DEF ss, n
<1>8. Places(ss, Len(ss)) = (1 .. n) \X (1 .. n - 1)
  BY <1>4, <1>6 DEF Places
<1>9. PICK b \in Bijection(DOMAIN Collected, (1 .. n) \X (1 .. n - 1)) :
           \A k \in DOMAIN Collected : Collected[k] = ss[b[k][1]][b[k][2]]
  <2>1. \E b \in Bijection(DOMAIN FlattenSeq(ss), Places(ss, Len(ss))) :
          \A k \in DOMAIN FlattenSeq(ss) : FlattenSeq(ss)[k] = ss[b[k][1]][b[k][2]]
    BY <1>4, Flattened
  <2> QED BY <1>5, <1>8, <2>1
<1> DEFINE h == [q \in (1 .. n) \X (1 .. n - 1) |-> <<cache[q[1]].cpu, cache[q[1]].ranking[q[2]].cpu>>]
<1>10. h \in Bijection((1 .. n) \X (1 .. n - 1), OtherPairs)
  <2>1. ASSUME NEW i \in 1 .. n, NEW k \in 1 .. n - 1
        PROVE  cache[i].ranking[k].cpu \in Found \ {cache[i].cpu}
    BY <1>3 DEF Bijection, Injection
  <2>2. h \in [(1 .. n) \X (1 .. n - 1) -> OtherPairs]
    <3>1. ASSUME NEW q \in (1 .. n) \X (1 .. n - 1) PROVE h[q] \in OtherPairs
      <4>1. PICK i \in 1 .. n, k \in 1 .. n - 1 : q = <<i, k>>
        OBVIOUS
      <4>2. h[q] = <<cache[i].cpu, cache[i].ranking[k].cpu>>
        BY <4>1
      <4> HIDE DEF h
      <4>3. cache[i].ranking[k].cpu \in Found /\ cache[i].ranking[k].cpu # cache[i].cpu
        BY <2>1
      <4>4. cache[i].cpu \in Found
        BY <1>3
      <4> QED BY <4>2, <4>3, <4>4 DEF OtherPairs
    <3> QED BY <3>1
  <2>3. ASSUME NEW q \in (1 .. n) \X (1 .. n - 1), NEW w \in (1 .. n) \X (1 .. n - 1), h[q] = h[w]
        PROVE  q = w
    <3>1. PICK i \in 1 .. n, k \in 1 .. n - 1 : q = <<i, k>>
      OBVIOUS
    <3>2. PICK j \in 1 .. n, l \in 1 .. n - 1 : w = <<j, l>>
      OBVIOUS
    <3>3. cache[i].cpu = cache[j].cpu /\ cache[i].ranking[k].cpu = cache[j].ranking[l].cpu
      BY <2>3, <3>1, <3>2
    <3> HIDE DEF h
    <3>4. i = j
      <4>1. \A x, y \in 1 .. n : x < y => cache[x].cpu < cache[y].cpu
        BY <1>1, <1>2 DEF RankingFaithful
      <4>2. \A x \in 1 .. n : cache[x].cpu \in Int
        <5>1. Found \subseteq CPUs /\ CPUs \subseteq Int
          BY <1>1, MeasurementAssumption DEF Found, ToSet
        <5> QED BY <1>3, <5>1
      <4> QED BY <1>2, <3>3, <4>1, <4>2
    <3>5. k = l
      BY <1>3, <3>3, <3>4 DEF Bijection, Injection, IsInjective
    <3> QED BY <3>1, <3>2, <3>4, <3>5
  <2>4. ASSUME NEW p \in OtherPairs PROVE \E q \in (1 .. n) \X (1 .. n - 1) : h[q] = p
    <3>1. PICK s \in Found, d \in Found : p = <<s, d>> /\ s # d
      BY DEF OtherPairs
    <3>2. PICK i \in 1 .. n : cache[i].cpu = s
      BY <1>1, <1>2 DEF RankingFaithful
    <3>3. PICK k \in 1 .. n - 1 : cache[i].ranking[k].cpu = d
      <4>1. d \in Found \ {cache[i].cpu}
        BY <3>1, <3>2
      <4> DEFINE ns == cache[i].ranking
                 f == [k \in DOMAIN ns |-> ns[k].cpu]
      <4>2. f \in Bijection(DOMAIN ns, Found \ {cache[i].cpu}) /\ DOMAIN ns = 1 .. n - 1
        BY <1>3
      <4>3. PICK k \in 1 .. n - 1 : f[k] = d
        <5> HIDE DEF f, ns
        <5> QED BY <4>1, <4>2 DEF Bijection, Surjection
      <4> QED BY <4>2, <4>3
    <3>4. <<i, k>> \in (1 .. n) \X (1 .. n - 1) /\ h[<<i, k>>] = p
      BY <3>1, <3>2, <3>3
    <3> QED BY <3>4
  <2> HIDE DEF h
  <2> QED BY <2>2, <2>3, <2>4 DEF Bijection, Injection, Surjection, IsInjective
<1> DEFINE g == [k \in DOMAIN Collected |-> h[b[k]]]
<1>11. g \in Bijection(DOMAIN Collected, OtherPairs)
  <2> HIDE DEF h
  <2>1. \A k \in DOMAIN Collected : b[k] \in (1 .. n) \X (1 .. n - 1) /\ h[b[k]] \in OtherPairs
    BY <1>9, <1>10 DEF Bijection, Injection
  <2>2. g \in [DOMAIN Collected -> OtherPairs]
    BY <2>1
  <2>3. ASSUME NEW j \in DOMAIN Collected, NEW k \in DOMAIN Collected, g[j] = g[k] PROVE j = k
    BY <1>9, <1>10, <2>1, <2>3 DEF Bijection, Injection, IsInjective
  <2>4. ASSUME NEW p \in OtherPairs PROVE \E k \in DOMAIN Collected : g[k] = p
    <3>1. PICK q \in (1 .. n) \X (1 .. n - 1) : h[q] = p
      BY <1>10 DEF Bijection, Surjection
    <3>2. PICK k \in DOMAIN Collected : b[k] = q
      BY <1>9 DEF Bijection, Surjection
    <3> QED BY <3>1, <3>2
  <2> HIDE DEF g
  <2> QED BY <2>2, <2>3, <2>4 DEF Bijection, Injection, Surjection, IsInjective
<1>12. ASSUME rounds > 0, NEW k \in DOMAIN Collected PROVE Collected[k] = measured[g[k]].total
  <2>0. b[k] \in (1 .. n) \X (1 .. n - 1)
    BY <1>9 DEF Bijection, Injection
  <2>1. PICK i \in 1 .. n, l \in 1 .. n - 1 : b[k] = <<i, l>>
    BY <2>0
  <2>2. Collected[k] = cache[i].ranking[l].latency
    BY <1>7, <1>9, <2>1
  <2>3. g[k] = <<cache[i].cpu, cache[i].ranking[l].cpu>>
    <3>1. g[k] = h[<<i, l>>]
      <4> HIDE DEF h
      <4> QED BY <2>1
    <3> QED BY <2>0, <2>1, <3>1
  <2>4. cache[i].ranking[l].latency = measured[<<cache[i].cpu, cache[i].ranking[l].cpu>>].total
    <3>1. rounds # 0
      BY <1>12
    <3> HIDE DEF g, h
    <3> QED BY <1>3, <3>1 DEF NeighboursFaithful
  <2> HIDE DEF g, h
  <2> QED BY <2>2, <2>3, <2>4
<1>13. Collected \in Seq(Int)
  BY <1>4, <1>5, Flattened
<1>14. ASSUME rounds = 0, NEW k \in DOMAIN Collected PROVE Collected[k] = NaN
  <2>1. b[k] \in (1 .. n) \X (1 .. n - 1)
    BY <1>9 DEF Bijection, Injection
  <2>2. PICK i \in 1 .. n, l \in 1 .. n - 1 : b[k] = <<i, l>>
    BY <2>1
  <2>3. Collected[k] = cache[i].ranking[l].latency
    BY <1>7, <1>9, <2>2
  <2> HIDE DEF g, h
  <2>4. cache[i].ranking[l].latency = NaN
    BY <1>3, <1>14 DEF NeighboursFaithful
  <2> QED BY <2>3, <2>4
<1> HIDE DEF g
<1> QED BY <1>11, <1>12, <1>13, <1>14

\* A bijection counts what it maps to.
LEMMA CountedBy ==
    ASSUME NEW D, NEW T, NEW g \in Bijection(D, T), NEW P \in SUBSET T,
           IsFiniteSet({ k \in D : g[k] \in P })
    PROVE  Cardinality(P) = Cardinality({ k \in D : g[k] \in P })
<1> DEFINE A == { k \in D : g[k] \in P }
           f == [k \in A |-> g[k]]
<1>1. f \in Bijection(A, P)
  <2>1. f \in [A -> P]
    OBVIOUS
  <2>2. \A j, k \in A : f[j] = f[k] => j = k
    BY DEF Bijection, Injection, IsInjective
  <2>3. ASSUME NEW p \in P PROVE \E k \in A : f[k] = p
    <3>1. PICK k \in D : g[k] = p
      BY DEF Bijection, Surjection
    <3> QED BY <3>1
  <2> HIDE DEF f, A
  <2> QED BY <2>1, <2>2, <2>3 DEF Bijection, Injection, Surjection, IsInjective
<1>2. ExistsBijection(A, P)
  BY <1>1 DEF ExistsBijection
<1> HIDE DEF A, f
<1> QED BY <1>2, FS_Bijection DEF A

LEMMA LeastIs ==
    ASSUME NEW S \in SUBSET Int, NEW x \in S, \A y \in S : x <= y PROVE Min(S) = x
<1>1. \A z \in S : (\A y \in S : z <= y) => z = x
  OBVIOUS
<1> QED BY <1>1 DEF Min

LEMMA LargestIs ==
    ASSUME NEW S \in SUBSET Int, NEW x \in S, \A y \in S : y <= x PROVE Max(S) = x
<1>1. \A z \in S : (\A y \in S : y <= z) => z = x
  OBVIOUS
<1> QED BY <1>1 DEF Max

\* There are pairs of different CPUs if there are several CPUs.
LEMMA OtherPairsExist ==
    ASSUME cores \in Seq(CPUs), Distinct PROVE OtherPairs # {} <=> NumCores > 1
<1>1. NumCores \in Nat /\ DOMAIN cores = 1 .. NumCores
  BY DEF NumCores
<1>2. ASSUME NumCores > 1 PROVE OtherPairs # {}
  <2>1. 1 \in DOMAIN cores /\ 2 \in DOMAIN cores
    BY <1>1, <1>2
  <2>2. cores[1] # cores[2] /\ cores[1] \in Found /\ cores[2] \in Found
    BY <2>1 DEF Distinct, Found, ToSet
  <2>3. <<cores[1], cores[2]>> \in OtherPairs
    BY <2>2 DEF OtherPairs
  <2> QED BY <2>3
<1>3. ASSUME NEW p \in OtherPairs PROVE NumCores > 1
  <2>1. PICK i \in DOMAIN cores, j \in DOMAIN cores : cores[i] # cores[j]
    BY DEF OtherPairs, Found, ToSet
  <2> QED BY <1>1, <2>1
<1> QED BY <1>2, <1>3

\* The summary that Update logs, and that status asks for, is that of the
\* measurements: the CPUs and their packages are counted once, no latency lies
\* outside the bounds it names, and the median has no more than half of the
\* latencies below and fewer than half above; with no rounds the median is no
\* number and the bounds are those of an empty measurement.
THEOREM SummaryIsFaithful == Spec => []SummaryFaithful
<1>1. ASSUME IInv, result = "ok" PROVE SummaryFaithful
  <2> DEFINE s == SummarizeRankings(cache)
             latency(p) == measured[p].total
             lats == Collected
  <2>1. cores \in Seq(CPUs) /\ Distinct /\ rounds \in Nat
    BY <1>1, MeasurementAssumption DEF IInv, Types, TypeOK
  <2>2. NumCores \in Nat
    BY <2>1, FoundAre
  <2>3. /\ s.cpus = NumCores
        /\ NumCores > 1 => s.sockets = Cardinality({ PackageOf[c] : c \in Found })
        /\ NumCores <= 1 => s.sockets = 0
    BY <1>1, CountsOf
  <2>4. /\ s.min = IF lats = << >> THEN 0
                     ELSE IF ToSet(lats) \ {NaN} = {} THEN Huge ELSE Min(ToSet(lats) \ {NaN})
        /\ s.max = IF lats = << >> THEN 0 ELSE Max((ToSet(lats) \ {NaN}) \cup {-1})
        /\ s.median = IF lats = << >> THEN 0 ELSE Median(lats)
    BY DEF SummarizeRankings, Collected
  <2> HIDE DEF s
  <2>5. lats \in Seq(Int) /\ (rounds = 0 => \A k \in DOMAIN lats : lats[k] = NaN)
    BY <1>1, CollectedAre
  <2>6. PICK g \in Bijection(DOMAIN lats, OtherPairs) :
             rounds > 0 => \A k \in DOMAIN lats : lats[k] = measured[g[k]].total
    BY <1>1, CollectedAre
  <2> HIDE DEF lats
  <2>7. OtherPairs # {} <=> NumCores > 1
    BY <2>1, OtherPairsExist
  <2>8. lats = << >> <=> OtherPairs = {}
    <3>1. lats = << >> <=> DOMAIN lats = {}
      BY <2>5, EmptySeq
    <3>2. (DOMAIN lats = {}) <=> (OtherPairs = {})
      BY <2>6 DEF Bijection, Injection, Surjection
    <3> QED BY <3>1, <3>2
  <2>9. CASE OtherPairs = {}
    <3>1. s.min = 0 /\ s.max = 0 /\ s.median = 0 /\ s.sockets = 0
      BY <2>2, <2>3, <2>4, <2>7, <2>8, <2>9
    <3> QED BY <2>3, <2>9, <3>1 DEF SummaryFaithful, OtherPairs, s
  <2>10. CASE OtherPairs # {} /\ rounds = 0
    <3>1. lats # << >> /\ \A k \in DOMAIN lats : lats[k] = NaN
      BY <2>5, <2>8, <2>10
    <3>2. ToSet(lats) \ {NaN} = {}
      BY <3>1 DEF ToSet
    <3>3. Max({-1}) = -1
      BY LargestIs
    <3>4. Median(lats) = NaN
      <4>1. Len(lats) \in Nat \ {0}
        BY <2>5, <3>1, UpTo
      <4>2. Len(lats) \div 2 \in 0 .. Len(lats) - 1
        BY <4>1
      <4>3. \E k \in DOMAIN lats : Place(lats, k) = Len(lats) \div 2
        BY <2>5, <4>2, PlaceTaken
      <4> QED BY <3>1, <4>3 DEF Median
    <3>5. s.min = Huge /\ s.max = -1 /\ s.median = NaN
      BY <2>4, <3>1, <3>2, <3>3, <3>4
    <3> QED BY <2>3, <2>7, <2>10, <3>5 DEF SummaryFaithful, OtherPairs, s
  <2>11. CASE OtherPairs # {} /\ rounds > 0
    <3>1. lats # << >>
      BY <2>8, <2>11
    <3>2. /\ \A k \in DOMAIN lats : g[k] \in OtherPairs /\ lats[k] = latency(g[k])
          /\ \A p \in OtherPairs : \E k \in DOMAIN lats : g[k] = p
      BY <2>6, <2>11 DEF Bijection, Injection, Surjection
    <3>3. ASSUME NEW p \in OtherPairs PROVE latency(p) \in Nat
      <4>1. p \in CPUs \X CPUs
        BY <2>1 DEF OtherPairs, Found, ToSet
      <4>2. measured[p] \in [calls : Nat, total : Nat]
        BY <1>1, <4>1 DEF IInv, Types, TypeOK
      <4> QED BY <4>2
    <3> HIDE DEF latency
    <3>4. /\ ToSet(lats) = { lats[k] : k \in DOMAIN lats }
          /\ \A k \in DOMAIN lats : lats[k] \in Nat
      BY <3>2, <3>3 DEF ToSet
    <3>5. ToSet(lats) \ {NaN} = ToSet(lats) /\ ToSet(lats) \subseteq Nat
      BY <3>4 DEF NaN
    <3>6. PICK k \in DOMAIN lats : \A j \in DOMAIN lats : lats[k] <= lats[j]
      BY <2>5, <3>1, Extremes
    <3>7. s.min = lats[k]
      <4>1. lats[k] \in ToSet(lats) /\ \A y \in ToSet(lats) : lats[k] <= y
        BY <3>4, <3>6
      <4>2. Min(ToSet(lats)) = lats[k]
        BY <3>5, <4>1, LeastIs
      <4> QED BY <2>4, <3>1, <3>5, <4>1, <4>2
    <3>8. PICK l \in DOMAIN lats : \A j \in DOMAIN lats : lats[j] <= lats[l]
      BY <2>5, <3>1, Extremes
    <3>9. s.max = lats[l]
      <4> DEFINE S == ToSet(lats) \cup {-1}
      <4>1. lats[l] \in S /\ S \subseteq Int /\ \A y \in S : y <= lats[l]
        BY <3>4, <3>5, <3>8
      <4>2. Max(S) = lats[l]
        <5> HIDE DEF S
        <5> QED BY <4>1, LargestIs
      <4> QED BY <2>4, <3>1, <3>5, <4>2
    <3>10. \A p \in OtherPairs : s.min <= latency(p) /\ latency(p) <= s.max
      BY <3>2, <3>6, <3>7, <3>8, <3>9
    <3>11. (\E p \in OtherPairs : latency(p) = s.min) /\ (\E p \in OtherPairs : latency(p) = s.max)
      BY <3>2, <3>7, <3>9
    <3> DEFINE m == s.median
               below == { p \in OtherPairs : latency(p) < m }
               above == { p \in OtherPairs : latency(p) > m }
               placed(P) == { j \in DOMAIN lats : g[j] \in P }
    <3>12. m = Median(lats)
      BY <2>4, <3>1
    <3> HIDE DEF m
    <3>13. /\ placed(below) = { j \in DOMAIN lats : lats[j] < Median(lats) }
           /\ placed(above) = { j \in DOMAIN lats : lats[j] > Median(lats) }
      BY <3>2, <3>12
    <3>14. /\ IsFiniteSet(placed(below)) /\ 2 * Cardinality(placed(below)) <= Len(lats)
           /\ IsFiniteSet(placed(above)) /\ 2 * Cardinality(placed(above)) < Len(lats)
      <4> HIDE DEF placed, below, above
      <4> QED BY <2>5, <3>1, <3>13, MedianHalves
    <3>15. /\ Cardinality(below) = Cardinality(placed(below))
           /\ Cardinality(above) = Cardinality(placed(above))
      <4>1. below \in SUBSET OtherPairs /\ above \in SUBSET OtherPairs
        OBVIOUS
      <4> HIDE DEF below, above
      <4> QED BY <2>6, <3>14, <4>1, CountedBy
    <3>16. Cardinality(OtherPairs) = Len(lats)
      <4>1. Len(lats) \in Nat /\ DOMAIN lats = 1 .. Len(lats)
        BY <2>5
      <4>2. placed(OtherPairs) = 1 .. Len(lats)
        BY <3>2, <4>1
      <4> HIDE DEF placed
      <4>3. IsFiniteSet(placed(OtherPairs)) /\ Cardinality(placed(OtherPairs)) = Len(lats)
        BY <4>1, <4>2, UpTo
      <4> QED BY <2>6, <4>3, CountedBy DEF placed
    <3>17. /\ 2 * Cardinality(below) <= Cardinality(OtherPairs)
           /\ 2 * Cardinality(above) < Cardinality(OtherPairs)
      <4> HIDE DEF below, above, placed
      <4> QED BY <3>14, <3>15, <3>16
    <3> QED BY <2>3, <2>7, <2>11, <3>10, <3>11, <3>17
            DEF SummaryFaithful, OtherPairs, s, m, latency
  <2> QED BY <2>1, <2>9, <2>10, <2>11
<1>2. IInv => SummaryFaithful
  BY <1>1 DEF SummaryFaithful
<1> QED BY <1>2, Invariance, PTL

-----------------------------------------------------------------------------
(* What CPUInfo sees of it                                                 *)

\* The numbers of the CPUs that are ranked, as in CpuInfo.
Ranked ==
    IF result = "ok"
      THEN [i \in DOMAIN cache |->
              [cpu     |-> cache[i].cpu,
               ranking |-> [k \in DOMAIN cache[i].ranking |-> cache[i].ranking[k].cpu]]]
      ELSE <<>>

\* CpuInfo's goroutine 0 is this call: it detects with Detected, and installs
\* its ranking with Sort or fails.  No VM asks for CPUs meanwhile.
Info == INSTANCE CpuInfo WITH
    VMs        <- {},
    MaxRequest <- 0,
    Updaters   <- {0},
    cache      <- Ranked,
    lastIndex  <- 0,
    selections <- [v \in {} |-> <<>>],
    measuring  <- [u \in {0} |-> IF at \in {"detected", "measure", "sort"}
                                   THEN [busy |-> TRUE, topology |-> cores]
                                   ELSE [busy |-> FALSE]],
    answer     <- [asked |-> 0, cpus |-> <<>>],
    opened     <- IF result = "ok" THEN [i \in DOMAIN cache |-> 0] ELSE <<>>

\* While it measures, CpuInfo knows the topology that was detected.
Measuring == at \in {"detected", "measure", "sort"}

\* Steps that change none of this are no steps of CpuInfo.
LEMMA InfoSame ==
    ASSUME cache' = cache, result' = result, Measuring' = Measuring,
           Measuring => cores' = cores
    PROVE  UNCHANGED Info!vars
<1>1. Ranked' = Ranked
  BY DEF Ranked
<1>2. Info!vars =
        <<Ranked, 0, [v \in {} |-> <<>>],
          [u \in {0} |-> IF Measuring THEN [busy |-> TRUE, topology |-> cores] ELSE [busy |-> FALSE]],
          [asked |-> 0, cpus |-> <<>>],
          IF result = "ok" THEN [i \in DOMAIN cache |-> 0] ELSE <<>> >>
  BY DEF Info!vars, Measuring
<1>3. Info!vars' =
        <<Ranked', 0, [v \in {} |-> <<>>],
          [u \in {0} |-> IF Measuring' THEN [busy |-> TRUE, topology |-> cores'] ELSE [busy |-> FALSE]],
          [asked |-> 0, cpus |-> <<>>],
          IF result' = "ok" THEN [i \in DOMAIN cache' |-> 0] ELSE <<>> >>
  BY DEF Info!vars, Measuring
<1> QED BY <1>1, <1>2, <1>3

\* An instance of CpuInfo means the same by the operators of the library.
LEMMA SameOperators ==
    /\ \A S : Info!Cardinality(S) = Cardinality(S)
    /\ \A s : Info!ToSet(s) = ToSet(s)
    /\ \A S : Info!SetToSeqs(S) = SetToSeqs(S)
<1>1. \A S : Info!Cardinality(S) = Cardinality(S)
  BY DEF Info!Cardinality, Cardinality
<1>2. \A s : Info!ToSet(s) = ToSet(s)
  BY DEF Info!ToSet, ToSet
<1>3. \A S : Info!SetToSeqs(S) = SetToSeqs(S)
  BY <1>1 DEF Info!SetToSeqs, SetToSeqs
<1> QED BY <1>1, <1>2, <1>3

\* What was detected is a topology as CpuInfo takes it.
LEMMA TopologyTaken == IInv /\ at \notin {"list", "read"} => cores \in Info!Topologies
<1> SUFFICES ASSUME IInv, at \notin {"list", "read"} PROVE cores \in Info!Topologies
  OBVIOUS
<1>1. cores \in Seq(CPUs) /\ Distinct
  BY DEF IInv, Types, TypeOK
<1>2. IsFiniteSet(Found) /\ Cardinality(Found) = Len(cores) /\ Len(cores) \in Nat
  BY <1>1, FoundAre DEF NumCores
<1>3. Found \subseteq CPUs
  BY <1>1 DEF Found, ToSet
<1>4. Cardinality(CPUs) \in Nat /\ Len(cores) <= Cardinality(CPUs)
  <2>1. IsFiniteSet(CPUs)
    BY MeasurementAssumption
  <2> QED BY <1>2, <1>3, <2>1, FS_Subset, FS_CardinalityType
<1>5. cores \in [1 .. Len(cores) -> CPUs] /\ Len(cores) \in 0 .. Cardinality(CPUs)
  BY <1>1, <1>2, <1>4
<1>6. cores \in Info!BoundedSeq(CPUs, Info!Cardinality(CPUs))
  <2>1. cores \in Info!BoundedSeq(CPUs, Cardinality(CPUs))
    BY <1>5 DEF Info!BoundedSeq, Info!SeqOf
  <2> QED BY <2>1, SameOperators
<1>7. Info!Increasing(cores)
  BY DEF IInv, Ascending, Info!Increasing
<1> QED BY <1>6, <1>7 DEF Info!Topologies

\* What was installed is a ranking of it as CpuInfo takes it.
Installed ==
    /\ at = "done" /\ result = "ok" /\ DOMAIN cache = 1 .. NumCores
    /\ \A i \in 1 .. NumCores : cache[i].cpu = cores[i]

LEMMA RankingTaken ==
    IInv /\ Installed => Ranked \in Info!Caches /\ Info!IsRanking(Ranked, cores)
<1> SUFFICES ASSUME IInv, Installed
             PROVE  Ranked \in Info!Caches /\ Info!IsRanking(Ranked, cores)
  OBVIOUS
<1>1. cores \in Seq(CPUs) /\ Distinct /\ RankingFaithful
  BY DEF IInv, Types, TypeOK
<1>2. NumCores \in Nat /\ DOMAIN cores = 1 .. NumCores
  BY <1>1 DEF NumCores
<1>3. IsFiniteSet(Found) /\ Cardinality(Found) = NumCores
  BY <1>1, FoundAre
<1>4. /\ DOMAIN Ranked = 1 .. NumCores
      /\ \A i \in 1 .. NumCores : Ranked[i] =
            [cpu |-> cores[i],
             ranking |-> [k \in DOMAIN cache[i].ranking |-> cache[i].ranking[k].cpu]]
  BY DEF Ranked, Installed
<1>5. ASSUME NEW i \in 1 .. NumCores
      PROVE  cores[i] \in Found /\ Ranked[i].ranking \in SetToSeqs(Found \ {cores[i]})
  <2> DEFINE ns == cache[i].ranking
             f == [k \in DOMAIN ns |-> ns[k].cpu]
             S == Found \ {cores[i]}
  <2>1. cores[i] \in Found
    BY <1>2 DEF Found, ToSet
  <2>2. IsFiniteSet(S) /\ Cardinality(S) = NumCores - 1
    BY <1>3, <2>1, FS_RemoveElement
  <2>3. NeighboursFaithful(cores[i], ns) /\ ns \in Rankings
    <3>1. i \in DOMAIN cache /\ cache[i].cpu = cores[i] /\ result = "ok"
      BY DEF Installed
    <3>2. ns \in Rankings
      BY <3>1, RowTyped DEF IInv, Types
    <3> QED BY <1>1, <3>1, <3>2 DEF RankingFaithful
  <2>4. DOMAIN ns = 1 .. NumCores - 1 /\ f \in Bijection(DOMAIN ns, S)
    BY <1>1, <2>1, <2>3, RowOf
  <2>5. f \in SetToSeqs(S)
    <3> HIDE DEF f, ns, S
    <3> QED BY <2>2, <2>4 DEF SetToSeqs, Bijection, Injection, IsInjective
  <2>6. Ranked[i].ranking = f
    BY <1>4
  <2> QED BY <2>1, <2>5, <2>6
<1>6. ASSUME NEW i \in 1 .. NumCores
      PROVE  /\ Ranked[i].cpu = cores[i]
             /\ Ranked[i].ranking \in Info!Neighbours(cores, cores[i])
             /\ Ranked[i] \in Info!CoreRankings(cores)
  <2>1. Ranked[i].cpu = cores[i]
    BY <1>4
  <2>2. \A c : Info!Neighbours(cores, c) = SetToSeqs(Found \ {c})
    BY SameOperators DEF Info!Neighbours, Found
  <2>3. Ranked[i].ranking \in Info!Neighbours(cores, cores[i]) /\ cores[i] \in Info!ToSet(cores)
    BY <1>5, <2>2, SameOperators DEF Found
  <2>4. Ranked[i] = [cpu |-> Ranked[i].cpu, ranking |-> Ranked[i].ranking]
    BY <1>4
  <2>5. Ranked[i] \in Info!CoreRankings(cores)
    BY <2>1, <2>3, <2>4 DEF Info!CoreRankings
  <2> QED BY <2>1, <2>3, <2>5
<1>7. Info!IsRanking(Ranked, cores)
  BY <1>2, <1>4, <1>6 DEF Info!IsRanking
<1>8. Ranked \in [DOMAIN cores -> Info!CoreRankings(cores)]
  <2>1. Ranked = [i \in 1 .. NumCores |-> Ranked[i]]
    BY <1>4 DEF Ranked, Installed
  <2> QED BY <1>2, <1>6, <2>1
<1>9. cores \in Info!Topologies
  BY TopologyTaken DEF Installed
<1> QED BY <1>7, <1>8, <1>9 DEF Info!Caches

\* A new call of Update is a CPUInfo that has ranked nothing yet.
LEMMA RefinesInit == Init => Info!Init
BY DEF Init, Info!Init, Ranked, Info!NoSelections, Info!Idle, Info!None

\* The end of the detection is the step that CpuInfo calls UpdateDetect.
LEMMA RefinesDetected == ASSUME IInv, IInv', Detected PROVE Info!UpdateDetect(0, cores')
<1>1. /\ at = "read" /\ at' = "detected" /\ cache' = cache
      /\ result' = result /\ result = "running"
  BY DEF Detected, IInv, Types
<1>2. Ranked' = Ranked
  BY <1>1 DEF Ranked
<1> QED BY <1>1, <1>2 DEF Info!UpdateDetect, Info!Idle, Info!Busy

\* A measurement takes two CPUs, so that a topology of one cannot fail.
LEMMA RefinesFailed == ASSUME IInv, MeasureFailed PROVE Info!UpdateFail(0)
<1>1. /\ at = "measure" /\ at' = "done" /\ cache' = cache /\ cores' = cores
      /\ result = "running" /\ result' = "error"
  BY DEF MeasureFailed, IInv, Types
<1>2. Ranked' = <<>> /\ Ranked = <<>>
  BY <1>1 DEF Ranked
<1>3. Len(cores) > 1
  <2>1. pair \in Pairs /\ Src(pair) # Dst(pair)
    BY <1>1 DEF IInv, Types, TypeOK, Measurable
  <2>2. NumCores \in Nat
    BY DEF IInv, Types, TypeOK, NumCores
  <2>3. CASE NumCores = 0
    BY <2>1, <2>3 DEF Pairs
  <2>4. CASE NumCores = 1
    <3>1. pair = 0
      BY <2>1, <2>4 DEF Pairs
    <3>2. (0 \div 1) = 0 /\ (0 % 1) = 0
      OBVIOUS
    <3> QED BY <2>1, <2>4, <3>1, <3>2 DEF Src, Dst
  <2> QED BY <2>2, <2>3, <2>4 DEF NumCores
<1>4. [busy |-> TRUE, topology |-> cores] # [busy |-> FALSE]
  <2>1. [busy |-> TRUE, topology |-> cores].busy # [busy |-> FALSE].busy
    OBVIOUS
  <2> QED BY <2>1
<1> QED BY <1>1, <1>2, <1>3, <1>4 DEF Info!UpdateFail, Info!Idle

\* Sort is the step that CpuInfo calls UpdateInstall.
LEMMA RefinesSort == ASSUME IInv, IInv', Sort PROVE Info!UpdateInstall(0)
<1>1. /\ at = "sort" /\ at' = "done" /\ cores' = cores
      /\ result = "running" /\ result' = "ok"
  BY DEF Sort, IInv, Types
<1>2. NumCores' = NumCores
  BY <1>1 DEF NumCores
<1>3. Installed'
  <2>1. PICK r : cache' = [i \in 1 .. NumCores |-> [cpu |-> cores[i], ranking |-> r[i]]]
    BY DEF Sort
  <2> QED BY <1>1, <1>2, <2>1 DEF Installed
<1>4. (Ranked \in Info!Caches /\ Info!IsRanking(Ranked, cores))'
  BY <1>3, RankingTaken, PTL
<1>5. Ranked' \in Info!Caches /\ Info!IsRanking(Ranked', cores)
  BY <1>1, <1>4
<1>6. DOMAIN Ranked' = DOMAIN cache'
  BY <1>1 DEF Ranked
<1>7. Info!Wrapped(0, Ranked') = 0
  <2>1. NumCores \in Nat /\ DOMAIN Ranked' = 1 .. NumCores
    BY <1>2, <1>3, <1>6 DEF Installed, IInv, Types, TypeOK, NumCores
  <2>2. Ranked' = [i \in 1 .. NumCores |-> Ranked'[i]]
    BY <1>1, <2>1 DEF Ranked
  <2>3. Len(Ranked') = NumCores
    <3>1. PICK r : r = Ranked'
      OBVIOUS
    <3>2. r = [i \in 1 .. NumCores |-> r[i]]
      BY <2>2, <3>1
    <3>3. Len(r) = NumCores
      BY <2>1, <3>2
    <3> QED BY <3>1, <3>3
  <2> QED BY <2>1, <2>3 DEF Info!Wrapped
<1> QED BY <1>1, <1>5, <1>6, <1>7
        DEF Info!UpdateInstall, Info!Idle, Info!NoSelections

\* Every step is one of CpuInfo, or none that it sees.
LEMMA RefinesNext == IInv /\ IInv' /\ [Next]_vars => [Info!Next]_(Info!vars)
<1> SUFFICES ASSUME IInv, IInv', [Next]_vars PROVE Info!Next \/ UNCHANGED Info!vars
  OBVIOUS
<1>1. CASE Detected
  <2>1. at' = "detected"
    BY <1>1 DEF Detected
  <2>2. (at \notin {"list", "read"})'
    BY <2>1
  <2>3. (cores \in Info!Topologies)'
    BY <2>2, TopologyTaken, PTL
  <2>4. cores' \in Info!Topologies
    BY <2>3
  <2>5. Info!UpdateDetect(0, cores')
    BY <1>1, RefinesDetected
  <2> QED BY <2>4, <2>5 DEF Info!Next, Info!Update
<1>2. CASE MeasureFailed
  BY <1>2, RefinesFailed DEF Info!Next, Info!Update
<1>3. CASE Sort
  BY <1>3, RefinesSort DEF Info!Next, Info!Update
<1>4. CASE List \/ \E c \in CPUs : ReadTopology(c)
  <2>1. cache' = cache /\ result' = result /\ Measuring' = Measuring /\ ~Measuring
    BY <1>4 DEF List, ReadTopology, Measuring
  <2> QED BY <2>1, InfoSame
<1>5. CASE Begin
  <2>1. cache' = cache /\ result' = result /\ Measuring' = Measuring /\ cores' = cores
    BY <1>5 DEF Begin, Measuring
  <2> QED BY <2>1, InfoSame
<1>6. CASE (\E t \in Link!Threads : LockToCPU(t)) \/ MeasureReturns
  <2>1. cache' = cache /\ result' = result /\ Measuring' = Measuring /\ cores' = cores
    BY <1>6 DEF LockToCPU, MeasureReturns, Measuring
  <2> QED BY <2>1, InfoSame
<1>7. CASE Accumulate
  <2>1. cache' = cache /\ result' = result /\ Measuring' = Measuring /\ cores' = cores
    BY <1>7 DEF Accumulate, Proceed, Measuring
  <2> QED BY <2>1, InfoSame
<1>8. CASE (\E c \in CPUs : Hotplug(c)) \/ Returned \/ UNCHANGED vars
  <2>1. cache' = cache /\ result' = result /\ Measuring' = Measuring /\ cores' = cores
    BY <1>8 DEF Hotplug, Returned, vars, Measuring
  <2> QED BY <2>1, InfoSame
<1> QED BY <1>1, <1>2, <1>3, <1>4, <1>5, <1>6, <1>7, <1>8 DEF Next, Update

\* To CPUInfo a call of Update is what CpuInfo says of one: a detection of some
\* ascending topology, and then the installation of some ranking of just that
\* topology, or a failure that leaves everything as it was.
THEOREM Refinement == Spec => Info!Spec
BY RefinesInit, RefinesNext, Invariance, PTL DEF Spec, Info!Spec

-----------------------------------------------------------------------------
(* How long a ranking takes                                               *)

\* Products grow with their factors.
LEMMA PairsGrow ==
    ASSUME NEW n \in Nat \ {0}, NEW m \in Nat \ {0}, n <= m
    PROVE  /\ OrderedPairs(n) \in Nat
           /\ OrderedPairs(n) <= OrderedPairs(m)
<1>1. PICK d \in Nat : m = n + d
  <2>1. m - n \in Nat
    OBVIOUS
  <2>2. m = n + (m - n)
    OBVIOUS
  <2> QED BY <2>1, <2>2
<1>2. PICK e \in Nat : n = e + 1
  <2>1. n - 1 \in Nat /\ n = (n - 1) + 1
    OBVIOUS
  <2> QED BY <2>1
<1>3. OrderedPairs(n) = n * e
  BY <1>2 DEF OrderedPairs
<1>4. n * e \in Nat
  BY <1>2
<1>5. OrderedPairs(m) = (n + d) * (e + d)
  BY <1>1, <1>2 DEF OrderedPairs
<1>6. (n + d) * (e + d) = n * e + n * d + d * e + d * d
  BY <1>1, <1>2
<1>7. n * d \in Nat /\ d * e \in Nat /\ d * d \in Nat
  BY <1>1, <1>2
<1> QED BY <1>3, <1>4, <1>5, <1>6, <1>7

\* Work that is done for fewer pairs than some number m of CPUs has takes no
\* more time than m CPUs would.
LEMMA WorkBounded ==
    ASSUME NEW n \in Nat \ {0}, NEW m \in Nat \ {0}, NEW w \in Nat, n <= m,
           OrderedPairs(m) * w <= MaxRoundTrips
    PROVE  OrderedPairs(n) * w <= MaxRoundTrips
<1>1. OrderedPairs(n) \in Nat /\ OrderedPairs(n) <= OrderedPairs(m)
  BY PairsGrow
<1>2. OrderedPairs(m) \in Int
  BY DEF OrderedPairs
<1>3. PICK d \in Nat : OrderedPairs(m) = OrderedPairs(n) + d
  <2>1. OrderedPairs(m) - OrderedPairs(n) \in Nat
    BY <1>1, <1>2
  <2> QED BY <1>1, <1>2, <2>1
<1>4. OrderedPairs(m) * w = OrderedPairs(n) * w + d * w
  BY <1>1, <1>3
<1>5. d * w \in Nat /\ OrderedPairs(n) * w \in Nat
  BY <1>1, <1>3
<1> QED BY <1>4, <1>5 DEF MaxRoundTrips

\* Update ends within the time that CalculateRanking waits, by the estimate of
\* the source, on every host of up to 245 CPUs, also if it has grown by up to
\* a third since the parameters were chosen, and however many of the CPUs
\* counted then are offline and not measured.
THEOREM RankingInTime ==
    ASSUME NEW counted \in Nat \ {0}, NEW found \in Nat \ {0},
           found <= 245, 3 * found <= 4 * counted
    PROVE  RoundTrips(found, AdaptiveCpuInfoParameters(counted)) <= MaxRoundTrips
<1>1. CASE counted <= 16
  <2>1. RoundTrips(found, AdaptiveCpuInfoParameters(counted)) = OrderedPairs(found) * 1000000
    BY <1>1 DEF RoundTrips, AdaptiveCpuInfoParameters, Parameters
  <2>2. found <= 21 /\ OrderedPairs(21) * 1000000 <= MaxRoundTrips
    BY <1>1 DEF OrderedPairs, MaxRoundTrips
  <2> QED BY <2>1, <2>2, WorkBounded
<1>2. CASE counted > 16 /\ counted <= 32
  <2>1. RoundTrips(found, AdaptiveCpuInfoParameters(counted)) = OrderedPairs(found) * 250000
    BY <1>2 DEF RoundTrips, AdaptiveCpuInfoParameters, Parameters
  <2>2. found <= 42 /\ OrderedPairs(42) * 250000 <= MaxRoundTrips
    BY <1>2 DEF OrderedPairs, MaxRoundTrips
  <2> QED BY <2>1, <2>2, WorkBounded
<1>3. CASE counted > 32 /\ counted <= 64
  <2>1. RoundTrips(found, AdaptiveCpuInfoParameters(counted)) = OrderedPairs(found) * 75000
    BY <1>3 DEF RoundTrips, AdaptiveCpuInfoParameters, Parameters
  <2>2. found <= 85 /\ OrderedPairs(85) * 75000 <= MaxRoundTrips
    BY <1>3 DEF OrderedPairs, MaxRoundTrips
  <2> QED BY <2>1, <2>2, WorkBounded
<1>4. CASE counted > 64 /\ counted <= 128
  <2>1. RoundTrips(found, AdaptiveCpuInfoParameters(counted)) = OrderedPairs(found) * 20000
    BY <1>4 DEF RoundTrips, AdaptiveCpuInfoParameters, Parameters
  <2>2. found <= 170 /\ OrderedPairs(170) * 20000 <= MaxRoundTrips
    BY <1>4 DEF OrderedPairs, MaxRoundTrips
  <2> QED BY <2>1, <2>2, WorkBounded
<1>5. CASE counted > 128
  <2>1. RoundTrips(found, AdaptiveCpuInfoParameters(counted)) = OrderedPairs(found) * 10000
    BY <1>5 DEF RoundTrips, AdaptiveCpuInfoParameters, Parameters
  <2>2. OrderedPairs(245) * 10000 <= MaxRoundTrips
    BY DEF OrderedPairs, MaxRoundTrips
  <2> QED BY <2>1, <2>2, WorkBounded
<1> QED BY <1>1, <1>2, <1>3, <1>4, <1>5

\* The bound is sharp: with more CPUs the first calculation takes longer than
\* main waits for it, with the parameters chosen for just this host.
THEOREM LargeHostsTimeOut ==
    ASSUME NEW n \in Nat, n > 245
    PROVE  RoundTrips(n, AdaptiveCpuInfoParameters(n)) > MaxRoundTrips
<1>1. RoundTrips(n, AdaptiveCpuInfoParameters(n)) = OrderedPairs(n) * 10000
  BY DEF RoundTrips, AdaptiveCpuInfoParameters, Parameters
<1>2. OrderedPairs(246) = 60270
  BY DEF OrderedPairs
<1>3. OrderedPairs(n) >= 60270
  BY <1>2, PairsGrow, 246 \in Nat \ {0}
<1>4. OrderedPairs(n) \in Nat
  BY PairsGrow
<1> QED BY <1>1, <1>3, <1>4 DEF MaxRoundTrips

\* Growth is not covered in general: the parameters of a host with 16 CPUs, of
\* which another 16 come later, are too much for the recalculation.
THEOREM DoublingTimesOut ==
    RoundTrips(32, AdaptiveCpuInfoParameters(16)) > MaxRoundTrips
BY DEF RoundTrips, AdaptiveCpuInfoParameters, Parameters, OrderedPairs, MaxRoundTrips

=============================================================================
