\* Three CPUs of which one or two may be offline, two rounds, three changes.
CONSTANTS
    CPUs = {0, 1, 2}
    PackageOf <- MCPackageOf
    Latencies = {1, 2}
    MaxRounds = 2
    MaxChanges = 3
SPECIFICATION Spec
INVARIANTS
    TypeOK
    TopologyFaithful
    OutcomeFaithful
    RankingFaithful
    SummaryFaithful
