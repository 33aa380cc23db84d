--------------------------- MODULE HotplugReactor ---------------------------
(***************************************************************************)
(* The hotplugReactor of pkg/cpuinfo/hotplug.go: CPU events are buffered,  *)
(* batched until none arrived for a window of time, and each batch becomes *)
(* a job for the worker, which recalculates the ranking.                   *)
(*                                                                         *)
(* Two goroutines (the batcher, processBatches, and the worker,            *)
(* workerLogic) and two bounded channels that are only ever written with a *)
(* select that has a default case: what does not fit is dropped.           *)
(*                                                                         *)
(* Abstractions: the handler ignores what is in a batch, so the channels   *)
(* are their lengths and the batch is whether it is empty.  The timer is   *)
(* the number of ticks left until it fires.  Since Go 1.23 a stopped or    *)
(* reset timer delivers no earlier expiry, so Reset is all that matters of *)
(* the Stop-drain-Reset sequence, and timerRunning is timer # Off.         *)
(***************************************************************************)
EXTENDS Integers

CONSTANTS
    EventBufferSize,  \* capacity of the events channel
    JobBufferSize,    \* capacity of the jobs channel
    Window            \* ticks without an event that close a batch

ASSUME ReactorAssumption ==
    /\ EventBufferSize \in Nat \ {0}
    /\ JobBufferSize \in Nat \ {0}
    /\ Window \in Nat \ {0}

VARIABLES
    events,    \* length of the events channel
    batch,     \* the batch is not empty
    timer,     \* ticks until the timer fires, Off when it is not running
    jobs,      \* length of the jobs channel
    stopping,  \* stopChan is closed
    batcher,   \* processBatches: "select" or "gone"
    worker,    \* workerLogic: "select", "handling" or "gone"
    stale,     \* history: an event came in and no handler call began since
    quiet      \* history: ticks since the batcher buffered an event (capped)

reactorVars == <<events, batch, timer, jobs, stopping, batcher, worker, stale, quiet>>

Off == -1

\* newHotplugReactor and start
ReactorInit ==
    /\ events = 0
    /\ batch = FALSE
    /\ timer = Off
    /\ jobs = 0
    /\ stopping = FALSE
    /\ batcher = "select"
    /\ worker = "select"
    /\ stale = FALSE
    /\ quiet = Window

-----------------------------------------------------------------------------
IngestAlways ==
    /\ events' = events + 1
    /\ stale' = TRUE
    /\ UNCHANGED <<batch, timer, jobs, stopping, batcher, worker, quiet>>

\* ingest: the netlink reader hands an event over; a full buffer drops it.
Ingest ==
    /\ events' = IF events < EventBufferSize THEN events + 1 ELSE events
    /\ stale' = TRUE
    /\ UNCHANGED <<batch, timer, jobs, stopping, batcher, worker, quiet>>

\* stop closes stopChan; StopWatchdog calls it once.
Stop ==
    /\ ~stopping
    /\ stopping' = TRUE
    /\ UNCHANGED <<events, batch, timer, jobs, batcher, worker, stale, quiet>>

\* Time passes.
Tick ==
    /\ timer > 0 \/ quiet < Window
    /\ timer' = IF timer > 0 THEN timer - 1 ELSE timer
    /\ quiet' = IF quiet < Window THEN quiet + 1 ELSE quiet
    /\ UNCHANGED <<events, batch, jobs, stopping, batcher, worker, stale>>

-----------------------------------------------------------------------------
(* processBatches: one action per case of its select                       *)

BatcherStopDrained ==
    /\ batcher = "select"
    /\ stopping /\ events = 0 /\ ~batch
    /\ batcher' = "gone"
    /\ UNCHANGED <<events, batch, timer, jobs, stopping, worker, stale, quiet>>

BatcherStop ==
    /\ batcher = "select"
    /\ stopping
    /\ batcher' = "gone"
    /\ UNCHANGED <<events, batch, timer, jobs, stopping, worker, stale, quiet>>

BufferEventNoExtend ==
    /\ batcher = "select"
    /\ events > 0
    /\ events' = events - 1
    /\ batch' = TRUE
    /\ timer' = IF timer = Off THEN Window ELSE timer
    /\ quiet' = 0
    /\ UNCHANGED <<jobs, stopping, batcher, worker, stale>>

\* An event joins the batch and the window starts again.
BufferEvent ==
    /\ batcher = "select"
    /\ events > 0
    /\ events' = events - 1
    /\ batch' = TRUE
    /\ timer' = Window
    /\ quiet' = 0
    /\ UNCHANGED <<jobs, stopping, batcher, worker, stale>>

FlushToIdleWorker ==
    /\ batcher = "select"
    /\ timer = 0
    /\ timer' = Off
    /\ batch' = FALSE
    /\ jobs' = IF batch /\ worker = "select" /\ jobs < JobBufferSize
                 THEN jobs + 1 ELSE jobs
    /\ UNCHANGED <<events, stopping, batcher, worker, stale, quiet>>

\* The window closed: the batch becomes a job unless the job queue is full.
Flush ==
    /\ batcher = "select"
    /\ timer = 0
    /\ timer' = Off
    /\ batch' = FALSE
    /\ jobs' = IF batch /\ jobs < JobBufferSize THEN jobs + 1 ELSE jobs
    /\ UNCHANGED <<events, stopping, batcher, worker, stale, quiet>>

-----------------------------------------------------------------------------
(* workerLogic                                                             *)

WorkerStop ==
    /\ worker = "select"
    /\ stopping
    /\ worker' = "gone"
    /\ UNCHANGED <<events, batch, timer, jobs, stopping, batcher, stale, quiet>>

\* A job is received and the handler begins: from here on it sees the
\* topology as it is now, so every event up to now is taken care of.
TakeJob ==
    /\ worker = "select"
    /\ jobs > 0
    /\ jobs' = jobs - 1
    /\ worker' = "handling"
    /\ stale' = FALSE
    /\ UNCHANGED <<events, batch, timer, stopping, batcher, quiet>>

HandlerDoneDrains ==
    /\ worker = "handling"
    /\ worker' = "select"
    /\ jobs' = 0
    /\ UNCHANGED <<events, batch, timer, stopping, batcher, stale, quiet>>

HandlerDone ==
    /\ worker = "handling"
    /\ worker' = "select"
    /\ UNCHANGED <<events, batch, timer, jobs, stopping, batcher, stale, quiet>>

-----------------------------------------------------------------------------
ReactorNext ==
    \/ Ingest \/ Stop \/ Tick
    \/ BatcherStop \/ BufferEvent \/ Flush
    \/ WorkerStop \/ TakeJob \/ HandlerDone

\* Goroutines that can run do run, time passes, and the handler returns
\* (CalculateRanking gives up after ConstantMaxCalculationRankingDuration).
\* A select picks at random among its ready cases, so a case that stays ready
\* is taken: each case has its own WF.  Nothing is assumed of Ingest and Stop.
ReactorFairness ==
    /\ WF_reactorVars(Tick)
    /\ WF_reactorVars(BatcherStop) /\ WF_reactorVars(BufferEvent) /\ WF_reactorVars(Flush)
    /\ WF_reactorVars(WorkerStop) /\ WF_reactorVars(TakeJob)
    /\ WF_reactorVars(HandlerDone)

ReactorSpec == ReactorInit /\ [][ReactorNext]_reactorVars
ReactorFairSpec == ReactorSpec /\ ReactorFairness

-----------------------------------------------------------------------------
(* Properties                                                              *)

\* Every variable has its type; the channels stay within their capacities.
ReactorTypeOK ==
    /\ events \in 0 .. EventBufferSize
    /\ batch \in BOOLEAN
    /\ timer \in Off .. Window
    /\ jobs \in 0 .. JobBufferSize
    /\ stopping \in BOOLEAN
    /\ batcher \in {"select", "gone"}
    /\ worker \in {"select", "handling", "gone"}
    /\ stale \in BOOLEAN
    /\ quiet \in 0 .. Window

\* Dropping events or batches never loses the wake-up: while some event has
\* not been followed by the start of a recalculation, an event is queued, a
\* batch waits for a running timer, or a job is queued.
NoLostWakeup ==
    stale /\ ~stopping => \/ events > 0
                          \/ batch /\ timer # Off
                          \/ jobs > 0

\* A batch is closed only when no event was buffered for a whole window: a
\* burst of events (a CPU package with many threads) is one recalculation.
QuietBeforeJob == [][ jobs' > jobs => quiet = Window ]_reactorVars

\* If events stop coming in, the ranking is recalculated after the last one,
\* unless the watchdog is stopped.
CalmIsServed ==
    <>[][~Ingest]_reactorVars => (stale ~> (~stale \/ stopping))

\* After stop both goroutines end, even when a recalculation is running and
\* jobs are queued.
StopEnds == stopping ~> (batcher = "gone" /\ worker = "gone")

=============================================================================
