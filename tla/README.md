# Verification of proxmox-cpu-affinity

TLA+ modules of the program under `src/`, TLC configurations that check them on
small instances, and TLAPS proofs of what holds for instances of every size.

## The system

| component | state | operations | talks to |
|---|---|---|---|
| `CPUInfo` (`pkg/cpuinfo/cpuinfo.go`) | `cache` (the ranking), `lastIndex`, `selections`, all under `mu` | `Update` (measures without the lock, installs with it), `SelectCPUs`, `GetCoreRanking`, `GetSelections` | sysfs, `measureSingleLink` |
| `CalculateRanking` (same file) | a channel and a timer per call | runs `Update` in a goroutine, waits for it or for its timeout (2 min) | `CPUInfo` |
| `measureSingleLink` (same file) | `signal`, `firstErr`, a barrier, per call | two goroutines locked to one CPU each pass a signal to and fro | the kernel's scheduler |
| `hotplugReactor` (`pkg/cpuinfo/hotplug.go`) | channels `events` (100) and `jobs` (10), a batch, a timer, `stopChan` | `ingest`, `processBatches`, `workerLogic`, `stop` | netlink reader, `CalculateRanking` |
| `Hotplug` (same file) | the netlink descriptor | `StartWatchdog`, the reader goroutine, `StopWatchdog` | kernel uevents, `hotplugReactor` |
| service process (`cmd/service/main.go`) | none of its own | first ranking, watchdog, socket service, signals | all of the above, systemd |
| socket service (`pkg/service`) | the listener, the socket file | `Start` (remove, listen, chmod), accept loop, one goroutine per connection, five commands, `Shutdown` | scheduler, `CPUInfo`, clients |
| scheduler (`pkg/scheduler`) | none (it changes the affinity of threads) | `UpdateAffinity`, `ApplyAffinity` | `pvesh`, pid files, `/proc`, `CPUInfo` |
| Proxmox client (`pkg/proxmox`) | none | `GetVmConfig`, `GetVmPid` | `pvesh`, pid files |
| hook (`pkg/hook`, `cmd/hook`) | none | four phases; up to `SocketRetry + 1` calls of the service | socket service |
| CLI (`cmd/cli`) | a cache of the HA configuration per run | hookscript enable/disable (one or all), reassign (one connection per VM), reports | `qm`, `pvesh`, `ha-manager`, socket service |
| configuration (`pkg/config`) | none | reads the environment; rounds and iterations by the number of CPUs | sysfs |
| logger, executor, SVG, packaging | none | formatting, starting processes | |

How they interact: the service ranks the CPUs, then listens for CPU hotplug
uevents, which the reactor batches into recalculations of the ranking, and for
requests. A VM that starts runs the hook, which asks the service for an
affinity; the scheduler looks the VM up, takes a selection from `CPUInfo` and
pins the VM's threads to it. Everything meets in `CPUInfo`.

Hard behaviours: recalculations that run concurrently with requests and with
each other (a timed out one is never stopped); bounded channels that drop;
debouncing; a netlink reader that ends on its first error; retries of requests
that were already served; and the use of a pid, a selection or a VM
configuration after it may have changed. `PROJECT.json` lists each with its line.

What makes the components correct:

* `CPUInfo`: a selection is one of the present ranking, has as many different
  CPUs as were asked for, is stable while the ranking is, and starting CPUs are
  handed out evenly.
* detection and `Update`: the CPUs that are there are found, ranked by what was
  measured of them, or the calculation fails; it ends in time.
* `measureSingleLink`: it returns; nobody spins without a partner; a latency
  stands for all the round trips.
* `hotplugReactor`: whatever is dropped, an event is followed by a
  recalculation, once events have been quiet for a window; `stop` ends it.
* service and watchdog: the ranking ends up as that of the hardware.
* scheduler, hook and service: a VM that has started and stays is pinned to its
  selection; VMs with an affinity of their own are left alone.
* socket file: a process that is the only one starts and is reached, whatever
  others have left there; `reassign` reports what the service has answered.
* CLI: VMs that are HA-managed, templates, or have an affinity or another
  hookscript are left alone.

## The modules

| module | models | proofs |
|---|---|---|
| `AffinityMap` | abstract: the ranked CPUs and what each VM has been granted | |
| `CpuInfo` | `CPUInfo`: `New`, `Update`, `SelectCPUs` | `CpuInfoProofs` |
| `MCCpuInfo` | symmetry for `CpuInfo` | |
| `LinkCall` | abstract: a call of `measureSingleLink` | |
| `LinkMeasure` | `measureSingleLink`, implements `LinkCall` | `LinkMeasureProofs` |
| `Measurement` | `detectTopologySystem`, `Update` and `SummarizeRankings` with numbers, composed with an instance of `LinkCall` | `MeasurementProofs` |
| `MCMeasurement` | packages for `Measurement` | |
| `RankingTime` | `AdaptiveCpuInfoParameters` and the work of a ranking (operators, not checked in a run) | `MeasurementProofs` |
| `HotplugReactor` | `hotplugReactor` | `WatchdogProofs` |
| `Watchdog` | start of the service, netlink listener, `CalculateRanking`; extends `HotplugReactor` | `WatchdogProofs` |
| `Pinning` | scheduler, Proxmox client and affinity provider, composed with an instance of `AffinityMap`, against VMs and their threads | `PinningProofs` |
| `MCPinning` | symmetry for `Pinning` | |
| `HookProtocol` | hook, socket service and service process around a VM start, with time | `HookProtocolProofs` |
| `SocketService` | `Start` and `Shutdown` on the socket file, in several processes, and `reassign` | `SocketServiceProofs` |
| `Hookscript` | `hookscript enable`, `disable`, `enable-all`, `disable-all` | `HookscriptProofs` |
| `MCHookscript` | VM ids for `Hookscript` | |

**CpuInfo.** Variables `cache`, `lastIndex` and `selections` are the fields of
`CPUInfo`; `measuring` holds, for each goroutine that runs `Update`, the topology
it detected; `answer` is what the last call of `SelectCPUs` returned and `opened`
a history of the round robin. Every section under `mu` is one action:
`UpdateInstall`, and one action for each way `SelectCPUs` returns
(`SelectError`, `SelectSticky`, `SelectFresh`). `UpdateDetect` and `UpdateFail`
are the unlocked parts; between them any number of other steps can happen. A
topology is any increasing sequence of CPUs (detection sorts), a ranking any
order of the neighbours of each CPU, so the result holds whatever latencies are
measured.

**LinkMeasure.** One action per access to shared state: the lock to the CPU, the
record of an error, the two uses of the barrier, the check of `firstErr`, the
load and the store of the signal, and the return of the call. `LinkCall` is what
its caller may rely on: one attempt per goroutine, then the outcome that follows
from the two. The mapping calls a goroutine untried while it is at its lock, and
the call failed from the moment an attempt has failed, before the error is
recorded.

**Measurement.** `at` says how far `Update` has come. `List` is the glob of sysfs,
`ReadTopology` the reading of one CPU's files (which only an online CPU has),
`Detected` the sort. The two loops over the topology are `pair`, an index of the
linearised matrix `latSums`; a measurement of a pair is a call of `LinkCall` in
which a goroutine can lock itself to a CPU that is online at that moment.
`Accumulate` adds the latency, `MeasureFailed` returns the error, and `Sort`
chooses any order that `sort.Slice` may leave. The sort of the latencies in
`SummarizeRankings` is not carried out: `Median` is the one that it would put into
the middle (`Place`). Averages are in units of
`1/rounds`; with no rounds they are `NaN`, of which no comparison is true,
so that the bounds of the summary stay what its loop begins with (`SummaryFaithful`). `Hotplug`
plugs and switches CPUs between any two steps. `steady`, `seen`, `lockable` and
`faded` record which CPUs were online when, and `measured` what was measured, by
CPU number and not by index. These properties justify what the other modules
take for granted: an increasing topology of CPUs that are online and any order
of the neighbours (`CpuInfo`), and a calculation that fails only because
a CPU has gone (`Watchdog`). That the call implements `CpuInfo`, with one
goroutine that updates and no requests, is proved (`Refinement`); a run would
have to match its topologies and rankings at every step, and is left out.

**RankingTime.** The rounds and iterations by the number of CPUs listed, and the
round trips that they make of a number of CPUs found. The limit is the two
minutes of `ConstantMaxCalculationRankingDuration` at the 20 ms per 100,000
iterations that the comment on `DefaultIterations` estimates.

**HotplugReactor.** One action per case of the two `select` statements. The
handler does not look at the names in a batch, so a channel is its length. The
timer counts ticks; `stale` and `quiet` are histories for the properties. The
`go.mod` of the repository asks for a Go release whose timers deliver no stale
expiry after `Reset`, so `Stop`, drain and `Reset` are one step.

**Watchdog.** The kernel changes the hardware (`Plug`, `Switch`; external) and
multicasts uevents; the listener reads them into the reactor, whose handler is a
`CalculateRanking`: `Detect`, then `Install`, `Fail` or `TimeOut`. A goroutine
whose caller timed out stays in `inFlight`. The module extends
`HotplugReactor`: the reactor's actions are those of that module with the rest
of the state unchanged (`TimePasses` is its `Tick`), except that the worker runs a
calculation where `HotplugReactor` has an abstract handler
(`BeginRecalculation` for `TakeJob`, `EndRecalculation` for `HandlerDone`). `blame` records the
causes for which the ranking may have become out of date and is emptied by a
detection. `Faults` says which of these causes the environment produces
(`timeout` for recalculations, `slow` for the first calculation). In the first
calculation a failure ends the process, and systemd (`Restart=always`) starts it
again; `Restart` is an end at any other moment. `ForeignOverrun` stands for all else
that makes a read of the socket fail, uevents of other subsystems that overrun it
above all (it gets those too): the reader returns on any error (`ReaderFails`).

**Pinning.** `handler` holds, for each request, what `UpdateAffinity` has come to
and what it has read: configuration, pid, selection, thread ids still to be set.
The reads of the configuration (in `Request`) and of the pid file (`ReadPid`), the
call of `SelectCPUs` (`Select`, at the level of `AffinityMap`) and each
`sched_setaffinity` (`SetAffinity`) are actions of their own. So are the listing of
the threads (`ListThreads`) and that of the children with their threads
(`ListChildren`), although each is several reads of `/proc`: what starts between two
of these is listed, as if it had started before the listing, or missed, as if after.
VMs, their threads and children (which inherit the affinity of the thread that starts
them), their pid files and configurations are external and change between any two
actions; threads and children also end one by one (`ThreadEnd`), and thread ids are
used again. A `mask` of `{}` is that of a thread the service has
not touched; VMs may run when the service starts. `blame` records why the threads of a VM may not have the mask of
its selection, and is emptied when a request takes a selection for the VM alone.
Children of children are left out (the code lists one level).

**HookProtocol.** A tick is five seconds, the deadline of the service. `hook` is
the state of `callService` for each VM: it dials, waits, sleeps or is done; the
stage of the VM says whether it pings or asks for an affinity. A request whose
client gave up stays in `abandoned` and is carried out all the same. `Faults`
lets the service crash, be stopped, fail to rank in time, be slow or fail, and
the guest die; `disturbed` records the VMs that were starting when one of these
happened. What `UpdateAffinity` does is reduced to its success, and a success for a
guest that has died (its pid is that of another process now) serves nobody. VMs share nothing
here but the service (a goroutine per connection, a process per hook), and a
recalculation changes nothing that the hook sees.

**SocketService.** `proc` is how far each process has come: ranking, then one
stage per system call of `Start` (`os.Stat`, `os.Remove`, the bind and the listen of
`net.Listen`, `os.Chmod`), and serving from the moment `Shutdown` knows the listener. `file`
is what the path names: nothing, a socket that nobody listens on, or the
listener of a process. Every call acts on what the path names at that moment,
which need not be what the process saw or made there; in particular a listener
that is closed unlinks the path, as package net does. One process is systemd's
(`Unit`), which is started again whenever it has ended; the others are run by
hand. `company` records the processes that have not been alone since they
started. `cli` is `reassign` in its loop over VMs: one connection each, a
deadline of two seconds, one line. `lapse` records why the service might not
have served the VM in work. A socket that is only bound refuses connections; once it
listens, they wait in the backlog until the process serves. A reply may say that the
request failed in any state: what `UpdateAffinity` does is in `Pinning`. `accepted`
are the VMs for which it returned no error, which it also does when no CPUs could be
selected or none of the threads be set; "success" says no more than that.

**Hookscript.** `step` is the command the tool runs next; the administrator can
change the HA resources and the configuration of a VM between any two.
`text` is the HA configuration, read once per process. VM ids are sequences of
digits, because `isHAVM` compares text. `staleHA` and `staleConf` record what the
tool does not know: the administrator changed it after the tool had read it, or
the command that reads it failed.

## The runs

| run | configuration | shows |
|---|---|---|
| `cpuinfo` | 3 CPUs, 2 VMs, requests 0..3, 2 Update goroutines | types, selections of the present ranking, exact answers, even round robin, turns only for grants; `CpuInfo` implements `AffinityMap` |
| `reactor` | channels of 2, a window of 2 ticks | no lost wake-up, debouncing, service after a calm, end after stop |
| `watchdog_faults` | 3 CPUs, 4 changes, 3 goroutines, all faults | a wrong ranking has one of four causes, and one that is not right in the end has too |
| `watchdog_startup` | 2 CPUs, 3 changes, one fault | a violation of the README's promise, see below |
| `link` | 20 iterations | the probe measures fully or not at all, and implements `LinkCall`: it returns |
| `measurement` | 3 CPUs in 2 packages, every initial set of them online, 3 changes, 0 to 2 rounds, 2 latencies | what is found was there, and what stayed is found; `Update` fails only if a CPU went; the ranking and its summary are those of the measurements |
| `pinning` | 2 VMs, 2 requests at a time, 2 thread ids, 2 changes | a served VM is pinned to its selection, or one of four causes; an affinity of its own is kept, while threads and VMs come and go |
| `hook` | the default retries and times, all faults | a VM that starts undisturbed, also during the first calculation, is served; the hook ends, and only with an answer sent in time or after its last attempt; ok, for a guest that runs, only if it has been served |
| `socket` | systemd's process and one by hand, 2 VMs, 4 starts by hand, stops or failures | a process that is alone starts and is reached; the unit comes up in the end; `reassign` ends, and its lines say what the service has answered |
| `hookscript` | 2 VMs, every initial configuration, 1 change, failing commands | the commands do what they say, and no more |
| `hookscript_enable`, `hookscript_prefix` | 2 VMs, no changes | violations of the README's promises, see below |

Why the bounds are enough. With three CPUs a ranking can grow, shrink, become
empty and put its neighbours in different orders, and requests of 0..3 fall below,
at and above the size of a cache that shrank; two goroutines of `Update` suffice for one to overtake the other,
and two VMs for each to take a turn of the other's. The reactor's channels hold
two, so that full, partly filled and empty differ, and the window lasts two
ticks, so that an event can arrive within it. Four changes (or ends of the
service) cover a change before, during and after a calculation, and one that
overruns the socket, by its own uevents or those of others.
In `pinning` VMs may run at the start, with threads or a child beside the main
process, so that two changes are the end of one VM
that leaves its pid file and the start of the other with its thread id, the end of a
thread and a thread of the other VM with its id, or a new
thread or child and a new configuration or ranking; with two CPUs and sizes 1 and
2 two requests can hold different selections, and a selection can fail. `hook`
has the true numbers: 11 attempts per phase, 10 seconds of sleep, 30 of waiting,
two minutes of calculation. With three CPUs in two packages `measurement` has
topologies of none to three, and a CPU can go and come back, before its files are
read or between two of its measurements; two rounds tell a sum from its last
term, and two latencies leave equals to the sort. In `socket` a socket can be
left by one process, removed by the start of the other, and removed again by the
end of the first, and a fourth event can hit the process that systemd starts
then. In `Hookscript` two VMs suffice for the text read for
the first to be used for the second.
Every bound is a constant; the proofs do without them.

`cpuinfo`, `reactor`, `link`, `measurement`, `socket`, `pinning`, `hook` and the
`hookscript` runs check for deadlock (in `measurement` that is its termination:
no step repeats, and only a call that has returned may stutter); in the `Watchdog` runs the hardware stops changing, after which the
system rightly rests.

### Fairness

`Spec` of each module has none, and all safety properties hold of it. `FairSpec`
adds weak fairness of what the Go runtime and the clock do in any case: a
goroutine that can run runs, time passes, a measurement ends. Each case of a
`select` has its own weak fairness, since `select` draws among the cases that are
ready and one that stays ready is drawn in the end. Nothing is assumed of the
kernel's events, of failures, timeouts or of `StopWatchdog`. In `SocketService`
systemd starts its process whenever it has ended (`Restart=always`; the rate limit
of systemd, five starts in ten seconds, is not reached, as each start ranks the
CPUs before it can fail on the socket), which also stands for an administrator
who starts a stopped unit again. In `HookProtocol`
the clock is strongly fair, so that VMs that start and stop within a tick do not
stop time, and the service need not answer.

### What the violations mean

README, *CPU Hotplug Watchdog*, says that a change of the CPUs is followed by a
recalculation and that the affinity logic always uses the current topology.
`CurrentOrBlamed` (`watchdog_faults`) shows this once changes end and none of four
things has happened. `watchdog_startup` refutes it for one of them: a CPU changes
after the first detection and before the listener is bound (`main` does not
detect again). The others are:

* a calculation times out, a later one installs its ranking, and the goroutine of
  the first, which nothing stops, then overwrites it (`overtaken`);
* a CPU goes on- or offline, which changes the detected topology but comes with
  neither an `add` nor a `remove` uevent;
* an overrun of the netlink socket, by these uevents or those of other subsystems,
  or any other error of a read, after which its reader ends.

README, *hookscript*: HA machines and templates are ignored, and existing scripts
are not overwritten. `enable` for one VM does not look for another script
(`hookscript_enable`), nor for a template, and `disable` for one VM removes whatever
script it has; when `ha-manager` fails, HA machines
are not recognised, and when `qm config` fails neither are templates and
affinities (both errors are dropped; `LeftAlone` excepts these VMs as stale, and those
that the administrator changes between the check and `qm set`); and
VM 101 is taken for an HA machine if VM 1010 is one
(`hookscript_prefix`).

A second process of the service, run by hand beside that of systemd, removes the
other's socket when it starts, and its own when it is stopped (`SocketService`). The
first one then serves on without a path, and nobody reaches it until it is started
again; `AloneIsReachable` and `AloneStarts` speak of processes that have been alone
since they started, because the code promises nothing else.

Two comments promise more than the code does, without a run: `OnPreStart` speaks
of a calculation loop during which the start of a VM is delayed, but a service
that ranks *again* answers the ping at once; and `Shutdown` is called graceful,
but waits for no request (`HookProtocol`, action `Ends`: the hook tries again).

## The proofs

Assumptions: the CPUs (and what else is counted) are finite sets of natural
numbers, capacities and the window are positive, iterations, rounds, latencies,
retries and times are natural numbers, VM ids are sequences of digits
(`CpuInfoAssumption`, `LinkAssumption`, `MeasurementAssumption`,
`ReactorAssumption`, `WatchdogAssumption`, `PinningAssumption`, `HookAssumption`,
`SocketAssumption`, `HookscriptAssumption`); TLC evaluates them in the runs. Two
theorems assume more, in their statements.

* `CpuInfoProofs`. `IInv` is the conjunction of the invariants checked.
  `EvenDistribution` is not inductive: it has to be known *which* positions have
  opened a selection in the present round. `RoundRobin` says it, by counting
  positions from the next turn on (`Turn`); a new selection moves the first turn
  to the end and every other one forward (`TurnsOfNext`). `AnswerExact` for
  repeated requests needs `SelectionsFromCache`, and that needs the shape of a
  ranking (`CachesShape`: starting CPUs differ, and each is followed by all the
  others, once), from which `SelectionShape` derives what a selection is. The
  refinement maps installations to `Rebuild` and new selections to `Grant`,
  whose change of size follows from the test for a repeated request.
  `SelectsAsPinned` joins `CpuInfo` to `Pinning`: seen as CPUs ranked and granted,
  every call of `SelectCPUs` for at least one CPU is an alternative of `Select` there.
  It rests on two counts, that as many CPUs are ranked as the cache has positions
  (`RankedCount`) and that a VM is granted as many as its selection is long
  (`GrantedSize`).
* `WatchdogProofs`, the reactor alone. `NoLostWakeup` is inductive because a drop
  happens only at a full channel, which is not empty; `QuietBeforeJob` needs
  `TimerMeasuresQuiet`: while the timer runs, it and the quiet time add up to the
  window. `ReactorComesToRest` weighs what is queued (`Upcoming`: an event costs its
  window of ticks, a flush, a job and a handler); every step but a new event or the
  stop makes that smaller, and as long as an event awaits its recalculation somebody
  can go on.
* `WatchdogProofs`, the service. `StaleOnlyForAKnownCause` says that a ranking
  that is not that of the hardware has a cause, or the news of it is on its way.
  Where the news can be is `Pending`: an `add` or `remove` in a socket that is not
  overrun, an event, a batch or a job in the reactor, a calculation that has
  started and not yet detected. For a step not to lose
  it one has to know that only the latest calculation has a caller (`OneCaller`,
  `OneAwaited`), that what a goroutine has detected is the hardware unless something
  is pending (`LatestIsCurrent`), that the reactor runs as long as the listener
  does (`ReactorRuns`), and that nothing reaches it as long as no netlink socket
  is bound (`Deaf`).
  `ReactorWithin` shows that each step of `Watchdog` is one of the reactor or
  leaves it alone, so that what is proved of the reactor alone holds here too
  (`WakeupsSurviveWithin`).
* `LinkMeasureProofs`. The barrier counts the goroutines before it
  (`BarrierCounts`), so past it no error can be recorded any more; `Alternate`
  ties the signal to the two loop counters. Both are needed for `NeverStuck` too: of two
  goroutines that wait at the signal it is the turn of one, and one that is done
  has left the turn to the other. `WorkRunsOut` is the matching variant. `Refinement` needs of the invariant
  only the types: which steps show is decided by where the goroutine is.
* `MeasurementProofs`. The invariant follows `Update`. While the files are read,
  a CPU that stays online is found or still listed, and what is found was seen
  (`Detection`, `Distinct`); the sort is a permutation, so it loses nothing, and
  after it the topology ascends (`Ascending`). `OutcomeFaithful` needs what each
  lock says of the hardware: who has locked itself to a CPU makes it lockable, of
  every pair already measured both CPUs are (`Locked`), and a CPU that could not be locked has gone
  since it was found (`Faded`). `Tally` ties the linearised sums to the history by
  CPU: no two indexes stand for the same ordered pair (`PairsDiffer`, from
  division by the number of CPUs and `Distinct`), so a latency is counted for its pair only, and
  when the loops end every pair has been measured once per round.
  `RankingFaithful` follows with `SortingHas`: a sorting of the neighbours has all
  of them, by counting. `SummaryIsFaithful` follows the latencies through `FlattenSeq`,
  which has the element of each place just once (`FlatteningExists`, `Flattened`: row
  by row, with an induction over indexes that is proved from the least of a set of
  numbers, `OneByOne`), so that what is collected stands one to one for the pairs
  that were measured (`CollectedAre`, `CountedBy`). The median is the latency whose place
  in the order is the middle; every place is taken (`PlaceTaken`), and `MedianHalves`
  counts those before and after it.
  `Refinement` says that the call is one of `CpuInfo`'s `Update`: what is
  detected is a sequence of CPUs that ascends (`TopologyTaken`), and what `Sort`
  leaves of a CPU is an order of exactly its neighbours (`RankingTaken`: there are as many
  places as neighbours, so a list that has all of them has none twice).
* `RankingTime` (also in `MeasurementProofs`). `RankingInTime` covers every host of up to 245 CPUs, also when a
  third more have been added since the parameters were chosen and when some of
  the CPUs counted are offline: the number of ordered pairs grows with the number
  of CPUs (`PairsGrow`), so the largest number allowed in each class decides.
  `LargeHostsTimeOut` says that the bound is sharp: with more CPUs every
  calculation takes longer than `main` waits, by the source's own estimate, and
  the service never starts unless `PCA_ROUNDS` or `PCA_ITERATIONS` is set.
  `DoublingTimesOut` shows the same of a host that grows from 16 to 32 CPUs
  (`config.go`, TODO on a reload after a hotplug event). The assumption is the
  estimate of 200 ns per round trip.
* `HookProtocolProofs`. `ServedAtBoot` assumes that the VM pings in pre-start and
  that `SocketRetry` sleeps in each of two phases exceed the longest calculation
  (`AttemptsOutlastRanking`; 200 s and 120 s by default). While the CPUs are
  ranked every attempt fails at once, so what the hook has slept grows with what
  the calculation has used up: `InTime` says that the rest of the calculation and
  the sleep so far stay within the limit, and the hook cannot run out of attempts
  before the socket is there. Its state must also be regular: only a serving
  service has requests (`WaitsForServing`). `NoEarlyEnds` is an action property that
  holds in every configuration: the step that ends a hook is an answer in time or
  its last failed attempt. It needs that a hook which has not ended
  has not been told ok (`ToldWhenDone`), and that a VM which does not start has none
  (`OffIsDone`). For `ServedAtBoot`, whose VM is undisturbed, who has died while it
  started has to be among the disturbed (`DeadDisturbed`): only a guest that runs is
  served by an answer. `HooksRunDown` bounds the delay of a start:
  `Remaining` is what the hook can still sleep and wait, and by default that is 86
  ticks, 430 seconds, in each of the two phases. A failed attempt cannot raise it,
  because it gives up the rest of its own time (`RemainingFailed`).
* `PinningProofs`. `LeftAlone` needs that a request which has read nothing that is
  out of date knows its VM (`InTime`): the process it found is that of the VM,
  which runs, and an affinity the VM has was seen. That rests on what the host
  keeps true of pid files, thread ids and those who have been served (`Host`): the
  main process of a VM that runs is the one its pid file names, so that other threads
  can end without making what such a request knows wrong.
  `PinnedOrBlamed` is about all requests for a VM at once: as long as the VM is
  not blamed those in time hold one and the same selection, and every thread they
  have listed is still to be set or has it (`PinnedIn`); when the last of them is
  done, nobody who acts on something out of date can take the mask away again
  without being recorded as a cause (`KeptIn`).
* `SocketServiceProofs`. `AloneIsAlone` turns the history into a fact of the
  present: if `p` has been alone since it started, nobody else lives. So nobody
  else changes the file, and `p` knows what the path names at each of its system
  calls (`AloneKnows`); a bind or `chmod` that fails, or an unlinked socket, takes a
  second process. `LinesTrue` needs that the command's call finds the service in
  order as long as nothing is known against it (`CalledWhenSound`). `SeenByHooks`
  connects the module to `HookProtocol`: if nobody runs the service by hand beside
  systemd, its process is the service that the hook meets there, taken to serve from
  the moment the path names its listener (and with no VM that starts: the hooks
  change nothing of the service). It rests on `AloneKnows`, without which a
  start could fail at the bind; `SeenIsReached` says that "serving" is what a
  client that dials finds.
* `HookscriptProofs`. `OthersLeftAlone` carries each check from the step that
  makes it to `qm set` (`CheckedHA`, `CheckedConf`), over changes that make a VM
  stale. `AllDone` assumes that no VM id is the beginning of another
  (`PrefixFree`), without which `hookscript_prefix` refutes it; `RightBehind`
  says that every VM the tool is past is as the command wants it, and `TextFirst`
  that none is past before the HA configuration has been read.

Only model-checked: liveness (`CalmIsServed`, `StopEnds`, `CurrentOrBlamed`,
`HookEnds`, `UnitComesUp`, `ReassignEnds`, and what `ImplementsLinkCall` says of
it), because the prover has no rules for fairness. Every other property of a run
that passes is a theorem. Of four of the former the proofs have what does not rest on
fairness, for every value of the constants: that what remains to be done grows
smaller with each step (`HooksRunDown`, `WorkRunsOut`, `ReactorComesToRest`,
`NoVMTwice`), and, for the probe and the reactor, that somebody can go on
(`NeverStuck`, `CanGoOn`; the guards are written out, as the prover does not know
`ENABLED` either).

## Not modelled

* Latencies as times: they are numbers without a unit, the division by the
  iterations is left out (with `PCA_ITERATIONS=0` every latency is infinite, and
  JSON cannot encode it), and so is the mean of the summary.
* Configuration: only the parameters of the ranking; the rest is read from the
  environment once, unset or malformed values becoming defaults.
* Reports (`ps`, `status`, `cpuinfo`, the listing of hookscripts) and the SVG
  export, which keep no state and change none. `status svg` asks for the ranking,
  its summary and the selections in three requests, so they may be of different
  calculations.
* Log rotation, logger, executor, packaging.
* The storage check of the CLI runs `pvesh` (`CommandProxmoxPVESM` in `config.go`)
  with the arguments of `pvesm`; what comes of it is not known here, and
  `CheckStorage` may fail or not.

## Plan

Done: the ranking from sysfs to the round robin, the probe, the time a ranking
takes, the watchdog and its reactor, the pinning of a VM, the hook protocol, the
socket file and `reassign`, the hookscript commands; every safety property that
the runs check is proved. `Pinning` takes the grants of `SelectCPUs` from
`AffinityMap`, which `CpuInfo` implements, and states itself when a request fails and
how many CPUs it gets; `SelectsAsPinned` proves that of `CpuInfo`.
