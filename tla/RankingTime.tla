----------------------------- MODULE RankingTime -----------------------------
(***************************************************************************)
(* How long a ranking takes: the rounds and iterations that                *)
(* AdaptiveCpuInfoParameters (pkg/config/config.go) chooses once, when the  *)
(* configuration is loaded, and the measurements that Update makes with    *)
(* them, then and after every later detection, against the time for which  *)
(* CalculateRanking waits.                                                 *)
(***************************************************************************)
EXTENDS Integers

Parameters(r, i) == [rounds |-> r, iterations |-> i]

\* For the number of CPUs that numCPU counts: those listed in sysfs.
AdaptiveCpuInfoParameters(cpuCount) ==
    IF cpuCount <= 16 THEN Parameters(10, 100000)
    ELSE IF cpuCount <= 32 THEN Parameters(5, 50000)
    ELSE IF cpuCount <= 64 THEN Parameters(3, 25000)
    ELSE IF cpuCount <= 128 THEN Parameters(2, 10000)
    ELSE Parameters(2, 5000)

OrderedPairs(n) == n * (n - 1)

\* The signal goes to and fro for every iteration of every round, for every
\* ordered pair of the CPUs that were found.
RoundTrips(found, p) == OrderedPairs(found) * (p.rounds * p.iterations)

\* The two minutes of ConstantMaxCalculationRankingDuration, at the 20 ms for
\* 100,000 iterations that the comment on DefaultIterations estimates.
MaxRoundTrips == 600000000

=============================================================================
