--------------------------- MODULE WatchdogProofs ---------------------------
(***************************************************************************)
(* Proofs about HotplugReactor, for every capacity of its channels and      *)
(* every length of the window, and about Watchdog, for every set of CPUs    *)
(* and of faults too.  That the ranking becomes current, and that a         *)
(* stopped reactor ends, needs fairness and is left to the model checker;   *)
(* that the reactor is never stuck and comes to rest is proved.             *)
(***************************************************************************)
EXTENDS Watchdog, SequenceTheorems, FiniteSetTheorems, TLAPS

-----------------------------------------------------------------------------
(* The reactor alone                                                       *)

\* The running timer measures the quiet time: each event sets the one to the
\* whole window and the other to zero, and then they go together.
TimerMeasuresQuiet == timer # Off => quiet = Window - timer

ReactorIInv == ReactorTypeOK /\ NoLostWakeup /\ TimerMeasuresQuiet

\* A reactor that has just been started satisfies the invariant.
LEMMA ReactorInitInvariant == ReactorInit => ReactorIInv
<1> SUFFICES ASSUME ReactorInit PROVE ReactorIInv
  OBVIOUS
<1>1. ReactorTypeOK
  <2>1. timer \in Off .. Window /\ quiet \in 0 .. Window
    BY ReactorAssumption DEF ReactorInit, Off
  <2>2. events \in 0 .. EventBufferSize /\ jobs \in 0 .. JobBufferSize
    BY ReactorAssumption DEF ReactorInit
  <2> QED
    BY <2>1, <2>2 DEF ReactorInit, ReactorTypeOK
<1>2. NoLostWakeup /\ TimerMeasuresQuiet
  BY DEF ReactorInit, NoLostWakeup, TimerMeasuresQuiet
<1> QED
  BY <1>1, <1>2 DEF ReactorIInv

\* ingest: an event that is dropped leaves a full buffer, which is not empty.
LEMMA IngestInvariant == ReactorIInv /\ Ingest => ReactorIInv'
<1> SUFFICES ASSUME ReactorIInv, Ingest PROVE ReactorIInv'
  OBVIOUS
<1> USE ReactorAssumption DEF ReactorIInv, Ingest
<1>1. ReactorTypeOK'
  BY DEF ReactorTypeOK
<1>2. NoLostWakeup'
  <2>1. events' > 0
    BY DEF ReactorTypeOK
  <2> QED
    BY <2>1 DEF NoLostWakeup
<1>3. TimerMeasuresQuiet'
  BY DEF TimerMeasuresQuiet
<1> QED
  BY <1>1, <1>2, <1>3

\* stop and the ends of the two goroutines: a stopped reactor promises nothing.
LEMMA StopInvariant == ReactorIInv /\ (Stop \/ BatcherStop \/ WorkerStop) => ReactorIInv'
  BY DEF ReactorIInv, Stop, BatcherStop, WorkerStop, ReactorTypeOK, NoLostWakeup,
         TimerMeasuresQuiet

\* Time: the timer and the quiet time move together, and a timer that has
\* fired is still running until the batcher has seen it.
LEMMA TickInvariant == ReactorIInv /\ Tick => ReactorIInv'
<1> SUFFICES ASSUME ReactorIInv, Tick PROVE ReactorIInv'
  OBVIOUS
<1> USE ReactorAssumption DEF ReactorIInv, ReactorTypeOK, TimerMeasuresQuiet, Tick, Off
<1>1. ReactorTypeOK'
  OBVIOUS
<1>2. NoLostWakeup'
  BY DEF NoLostWakeup
<1>3. TimerMeasuresQuiet'
  OBVIOUS
<1> QED
  BY <1>1, <1>2, <1>3

\* processBatches, an event: it is in the batch and the timer is running.
LEMMA BufferInvariant == ReactorIInv /\ BufferEvent => ReactorIInv'
  BY ReactorAssumption DEF ReactorIInv, ReactorTypeOK, NoLostWakeup, TimerMeasuresQuiet,
                           BufferEvent, Off

\* processBatches, the timer: a batch that is dropped leaves a full queue,
\* which is not empty.
LEMMA FlushInvariant == ReactorIInv /\ Flush => ReactorIInv'
<1> SUFFICES ASSUME ReactorIInv, Flush PROVE ReactorIInv'
  OBVIOUS
<1> USE ReactorAssumption DEF ReactorIInv, Flush
<1>1. ReactorTypeOK'
  <2>1. timer' \in Off .. Window /\ jobs' \in 0 .. JobBufferSize
    BY DEF ReactorTypeOK, Off
  <2> QED
    BY <2>1 DEF ReactorTypeOK
<1>2. NoLostWakeup'
  <2>1. batch => jobs' > 0
    BY DEF ReactorTypeOK
  <2>2. jobs' >= jobs
    BY DEF ReactorTypeOK
  <2> QED
    BY <2>1, <2>2 DEF NoLostWakeup, ReactorTypeOK
<1>3. TimerMeasuresQuiet'
  BY DEF TimerMeasuresQuiet
<1> QED
  BY <1>1, <1>2, <1>3

\* workerLogic: the start of the handler takes care of every event so far, its
\* end changes nothing that the invariant speaks of.
LEMMA WorkerInvariant == ReactorIInv /\ (TakeJob \/ HandlerDone) => ReactorIInv'
<1>1. ReactorIInv /\ TakeJob => ReactorIInv'
  <2> SUFFICES ASSUME ReactorIInv, TakeJob PROVE ReactorIInv'
    OBVIOUS
  <2>1. jobs' \in 0 .. JobBufferSize
    BY ReactorAssumption DEF ReactorIInv, ReactorTypeOK, TakeJob
  <2>2. ReactorTypeOK'
    BY <2>1 DEF ReactorIInv, ReactorTypeOK, TakeJob
  <2> QED
    BY <2>2 DEF ReactorIInv, NoLostWakeup, TimerMeasuresQuiet, TakeJob
<1>2. ReactorIInv /\ HandlerDone => ReactorIInv'
  BY DEF ReactorIInv, ReactorTypeOK, NoLostWakeup, TimerMeasuresQuiet, HandlerDone
<1> QED
  BY <1>1, <1>2

\* Every step keeps the invariant.
LEMMA ReactorNextInvariant == ReactorIInv /\ [ReactorNext]_reactorVars => ReactorIInv'
<1>1. ReactorIInv /\ UNCHANGED reactorVars => ReactorIInv'
  BY DEF ReactorIInv, ReactorTypeOK, NoLostWakeup, TimerMeasuresQuiet, reactorVars
<1> QED
  BY <1>1, IngestInvariant, StopInvariant, TickInvariant, BufferInvariant,
     FlushInvariant, WorkerInvariant DEF ReactorNext

\* ReactorIInv is an inductive invariant of the reactor.
THEOREM ReactorInvariance == ReactorSpec => []ReactorIInv
  BY ReactorInitInvariant, ReactorNextInvariant, PTL DEF ReactorSpec

\* The channels never hold more than their capacity, the timer never runs for
\* longer than the window.
THEOREM ReactorTypeCorrect == ReactorSpec => []ReactorTypeOK
<1>1. ReactorIInv => ReactorTypeOK
  BY DEF ReactorIInv
<1> QED
  BY <1>1, ReactorInvariance, PTL

\* ingest and processBatches may drop events and batches, but never the last
\* trace of an event that no recalculation has followed yet.
THEOREM WakeupsSurvive == ReactorSpec => []NoLostWakeup
<1>1. ReactorIInv => NoLostWakeup
  BY DEF ReactorIInv
<1> QED
  BY <1>1, ReactorInvariance, PTL

\* Only Flush adds a job, and it runs when the timer has fired.
LEMMA FlushIsQuiet == ReactorIInv /\ [ReactorNext]_reactorVars => [jobs' > jobs => quiet = Window]_reactorVars
<1> SUFFICES ASSUME ReactorIInv, ReactorNext, jobs' > jobs PROVE quiet = Window
  BY DEF reactorVars
<1>1. CASE Flush
  BY <1>1, ReactorAssumption DEF ReactorIInv, ReactorTypeOK, TimerMeasuresQuiet, Flush, Off
<1>2. CASE ~Flush
  <2>1. jobs' = jobs \/ TakeJob
    BY <1>2 DEF ReactorNext, Ingest, Stop, Tick, BatcherStop, BufferEvent, WorkerStop,
                HandlerDone
  <2> QED
    BY <2>1 DEF ReactorIInv, ReactorTypeOK, TakeJob
<1> QED
  BY <1>1, <1>2

\* No batch is closed within a window of the event that was buffered last.
THEOREM Debounced == ReactorSpec => QuietBeforeJob
  BY FlushIsQuiet, ReactorInvariance, PTL DEF ReactorSpec, QuietBeforeJob

\* How much the reactor can still do if no event comes in.  An event costs a
\* window of ticks, a flush, a job and its handler, and sets the quiet time back.
EventWork(n) == n * (Window + Window + 4)

Upcoming ==
    EventWork(events)
      + ((IF timer = Off THEN 0 ELSE timer + 3) + (Window - quiet)
         + (jobs + jobs + (IF worker = "handling" THEN 1 ELSE 0))
         + (IF batcher = "gone" THEN 0 ELSE 1) + (IF worker = "gone" THEN 0 ELSE 1))

\* One of the goroutines has a case of its select ready, or will when the timer
\* fires, or is in its handler.
CanGoOn ==
    \/ batcher = "select" /\ (events > 0 \/ timer # Off)
    \/ worker = "select" /\ jobs > 0
    \/ worker = "handling"

\* The goroutines end only when they are stopped.
EndsWhenStopped == batcher = "gone" \/ worker = "gone" => stopping

LEMMA EventWorkNat == \A n \in Nat : EventWork(n) \in Nat
<1> SUFFICES ASSUME NEW n \in Nat PROVE EventWork(n) \in Nat
  OBVIOUS
<1>1. PICK a \in Nat : a = Window + Window + 4
  BY ReactorAssumption
<1> QED
  BY <1>1 DEF EventWork

LEMMA EventWorkNext ==
    \A n \in Nat : EventWork(n + 1) = EventWork(n) + (Window + Window + 4)
<1> SUFFICES ASSUME NEW n \in Nat
             PROVE  EventWork(n + 1) = EventWork(n) + (Window + Window + 4)
  OBVIOUS
<1>1. PICK a \in Nat : a = Window + Window + 4
  BY ReactorAssumption
<1>2. (n + 1) * a = n * a + a
  BY <1>1
<1> QED
  BY <1>1, <1>2 DEF EventWork

\* Every step but the arrival of an event and the stop, which comes once, leaves
\* less to do.
LeavesLess == Ingest \/ (Stop /\ Upcoming' = Upcoming) \/ Upcoming' < Upcoming

LEMMA LessUpcoming ==
    ReactorTypeOK /\ [ReactorNext]_reactorVars => [LeavesLess]_reactorVars
<1>0. Stop => Upcoming' = Upcoming
  BY DEF Stop, Upcoming
<1> SUFFICES ASSUME ReactorTypeOK, ReactorNext, ~Ingest, ~Stop PROVE Upcoming' < Upcoming
  BY <1>0 DEF LeavesLess
<1> USE ReactorAssumption DEF ReactorTypeOK, Off
<1>1. EventWork(events) \in Nat
  BY EventWorkNat
<1>2. CASE Tick
  <2>1. (timer > 0 /\ timer' = timer - 1) \/ (~(timer > 0) /\ timer' = timer)
    BY <1>2 DEF Tick
  <2>2. (quiet < Window /\ quiet' = quiet + 1) \/ (~(quiet < Window) /\ quiet' = quiet)
    BY <1>2 DEF Tick
  <2> QED
    BY <1>1, <1>2, <2>1, <2>2 DEF Tick, Upcoming
<1>3. CASE BatcherStop \/ WorkerStop
  BY <1>1, <1>3 DEF BatcherStop, WorkerStop, Upcoming
<1>4. CASE BufferEvent
  <2>1. PICK n \in Nat : events = n + 1 /\ events' = n
    <3>1. events - 1 \in Nat /\ events = (events - 1) + 1 /\ events' = events - 1
      BY <1>4 DEF BufferEvent
    <3> QED
      BY <3>1
  <2>2. /\ EventWork(events') \in Nat
        /\ EventWork(events) = EventWork(events') + (Window + Window + 4)
    BY <2>1, EventWorkNat, EventWorkNext
  <2>3. /\ timer' = Window /\ quiet' = 0
        /\ UNCHANGED <<jobs, worker, batcher>>
    BY <1>4 DEF BufferEvent
  <2> HIDE DEF EventWork
  <2> QED
    BY <2>2, <2>3 DEF Upcoming
<1>5. CASE Flush
  <2>1. jobs' \in {jobs, jobs + 1} /\ timer = 0 /\ timer' = Off
    BY <1>5 DEF Flush
  <2> QED
    BY <1>1, <1>5, <2>1 DEF Flush, Upcoming
<1>6. CASE TakeJob \/ HandlerDone
  BY <1>1, <1>6 DEF TakeJob, HandlerDone, Upcoming
<1> QED
  BY <1>2, <1>3, <1>4, <1>5, <1>6 DEF ReactorNext

LEMMA EndsWhenStoppedStep == EndsWhenStopped /\ [ReactorNext]_reactorVars => EndsWhenStopped'
BY DEF EndsWhenStopped, reactorVars, ReactorNext, Ingest, Stop, Tick, BatcherStop, BufferEvent,
       Flush, WorkerStop, TakeJob, HandlerDone

\* Once events stop coming in, the reactor comes to rest after a number of steps
\* that is bounded; and it does not rest, unless it is stopped, before a
\* recalculation has followed the last event.
THEOREM ReactorComesToRest ==
    ReactorSpec => /\ [][LeavesLess]_reactorVars
                   /\ [](Upcoming \in Nat)
                   /\ [](stale /\ ~stopping => CanGoOn)
<1>1. ReactorIInv => Upcoming \in Nat
  <2> SUFFICES ASSUME ReactorIInv PROVE Upcoming \in Nat
    OBVIOUS
  <2>1. EventWork(events) \in Nat
    BY EventWorkNat DEF ReactorIInv, ReactorTypeOK
  <2> QED
    BY <2>1, ReactorAssumption DEF ReactorIInv, ReactorTypeOK, Off, Upcoming
<1>2. ReactorIInv /\ EndsWhenStopped => (stale /\ ~stopping => CanGoOn)
  BY DEF ReactorIInv, ReactorTypeOK, NoLostWakeup, EndsWhenStopped, CanGoOn
<1>3. ReactorInit => EndsWhenStopped
  BY DEF ReactorInit, EndsWhenStopped
<1>4. ReactorIInv => ReactorTypeOK
  BY DEF ReactorIInv
<1> QED
  BY <1>1, <1>2, <1>3, <1>4, LessUpcoming, EndsWhenStoppedStep, ReactorInvariance, PTL
     DEF ReactorSpec

-----------------------------------------------------------------------------
(* The inductive invariant of the system                                   *)

\* The types; of inFlight also what TypeOK says in numbers: one goroutine is
\* waited for while the caller waits, and none otherwise.
Types ==
    /\ online \in (SUBSET CPUs) \ {{}}
    /\ changes \in 0 .. MaxChanges
    /\ phase \in {"ranking", "opening", "watching"}
    /\ socket \in {"closed", "reading", "gone"}
    /\ uevents \in Seq(Actions) /\ Len(uevents) <= SocketBuffer
    /\ overrun \in BOOLEAN
    /\ caller \in {"none", "started", "waiting", "returned"}
    /\ inFlight \in Seq(Measuring) /\ Len(inFlight) <= MaxInFlight
    /\ ranked \in SUBSET CPUs
    /\ blame \in SUBSET Causes

OneAwaited ==
    /\ \A i, j \in DOMAIN inFlight : inFlight[i].awaited /\ inFlight[j].awaited => i = j
    /\ (\E i \in DOMAIN inFlight : inFlight[i].awaited) <=> caller = "waiting"

\* The reactor's variables have their types, and neither goroutine stops.
ReactorRuns ==
    /\ ReactorTypeOK
    /\ batcher = "select" /\ worker \in {"select", "handling"}

\* Nothing reaches the reactor before the netlink socket is bound, or if it
\* cannot be bound.
Deaf ==
    /\ phase # "watching" => socket = "closed"
    /\ socket = "closed" => /\ uevents = <<>> /\ ~overrun
                            /\ events = 0 /\ ~batch /\ jobs = 0
                            /\ worker = "select"

\* CalculateRanking has one caller at a time: main, then the worker's handler.
OneCaller ==
    /\ phase = "ranking" => caller # "none"
    /\ phase = "opening" => caller = "none"
    /\ phase = "watching" => (caller # "none" <=> worker = "handling")

\* The goroutine that detected last is measuring what is there now, or its
\* ranking is installed and those that are still measuring are overtaken.
LatestIsCurrent ==
    \/ /\ inFlight # <<>>
       /\ inFlight[Len(inFlight)].found = online
       /\ ~inFlight[Len(inFlight)].overtaken
    \/ /\ ranked = online
       /\ \A i \in DOMAIN inFlight : inFlight[i].overtaken

\* A detection is still to come, or there is a known cause for none.  What is
\* queued in a socket that is overrun will not be read.
Pending ==
    \/ ~overrun /\ \E k \in DOMAIN uevents : uevents[k] \in {"add", "remove"}
    \/ events > 0 \/ batch \/ jobs > 0
    \/ caller = "started"
    \/ blame # {}

IInv ==
    /\ Types
    /\ OneAwaited
    /\ ReactorRuns
    /\ Deaf
    /\ OneCaller
    /\ LatestIsCurrent \/ Pending

-----------------------------------------------------------------------------
(* Sequences of goroutines                                                 *)

\* An element is removed: those behind it move up.
LEMMA RemoveAtElements ==
    ASSUME NEW S, NEW s \in Seq(S), NEW i \in DOMAIN s
    PROVE  /\ RemoveAt(s, i) \in Seq(S)
           /\ Len(RemoveAt(s, i)) = Len(s) - 1
           /\ \A j \in 1 .. Len(s) - 1 :
                 RemoveAt(s, i)[j] = IF j < i THEN s[j] ELSE s[j + 1]
<1>1. i \in 1 .. Len(s) /\ Len(s) \in Nat
  OBVIOUS
<1> DEFINE front == SubSeq(s, 1, i - 1)
           back == SubSeq(s, i + 1, Len(s))
<1>2. /\ front \in Seq(S) /\ Len(front) = i - 1
      /\ \A j \in 1 .. i - 1 : front[j] = s[j]
  <2>1. \A j \in 1 .. i - 1 : s[j] \in S
    BY <1>1
  <2> QED BY <1>1, <2>1, SubSeqProperties
<1>3. /\ back \in Seq(S) /\ Len(back) = Len(s) - i
      /\ \A j \in 1 .. Len(s) - i : back[j] = s[i + j]
  <2>1. \A j \in i + 1 .. Len(s) : s[j] \in S
    BY <1>1
  <2> QED BY <1>1, <2>1, SubSeqProperties
<1> DEFINE whole == front \o back
<1>4. RemoveAt(s, i) = whole
  BY DEF RemoveAt
<1> HIDE DEF front, back
<1>5. /\ whole \in Seq(S)
      /\ Len(whole) = Len(front) + Len(back)
      /\ \A j \in 1 .. Len(front) + Len(back) :
            whole[j] = IF j <= Len(front) THEN front[j] ELSE back[j - Len(front)]
  BY <1>2, <1>3, ConcatProperties
<1> HIDE DEF whole
<1>6. Len(front) + Len(back) = Len(s) - 1
  BY <1>1, <1>2, <1>3
<1>7. ASSUME NEW j \in 1 .. Len(s) - 1
      PROVE  whole[j] = IF j < i THEN s[j] ELSE s[j + 1]
  <2>1. whole[j] = IF j <= i - 1 THEN front[j] ELSE back[j - (i - 1)]
    BY <1>2, <1>5, <1>6
  <2>2. CASE j < i
    BY <1>1, <1>2, <2>1, <2>2
  <2>3. CASE ~(j < i)
    <3>1. j - (i - 1) \in 1 .. Len(s) - i /\ i + (j - (i - 1)) = j + 1
      BY <1>1, <2>3
    <3>2. whole[j] = back[j - (i - 1)]
      BY <1>1, <2>1, <2>3
    <3> QED BY <1>3, <2>3, <3>1, <3>2
  <2> QED BY <2>2, <2>3
<1> QED BY <1>4, <1>5, <1>6, <1>7

\* inFlight after goroutine i has installed its result: those before it are
\* overtaken, those behind it move up.
LEMMA InstalledElements ==
    ASSUME Types, NEW i \in DOMAIN inFlight, Install(i)
    PROVE  /\ inFlight' \in Seq(Measuring)
           /\ Len(inFlight') = Len(inFlight) - 1
           /\ \A j \in 1 .. Len(inFlight) - 1 :
                 inFlight'[j] = IF j < i THEN [inFlight[j] EXCEPT !.overtaken = TRUE]
                                         ELSE inFlight[j + 1]
<1>1. i \in 1 .. Len(inFlight) /\ Len(inFlight) \in Nat
  BY DEF Types
<1>2. \A j \in 1 .. Len(inFlight) : inFlight[j] \in Measuring
  BY DEF Types
<1> DEFINE n == Len(inFlight) - 1
           next == [j \in 1 .. n |-> IF j < i THEN [inFlight[j] EXCEPT !.overtaken = TRUE]
                                              ELSE inFlight[j + 1]]
<1>3. n \in Nat /\ inFlight' = next
  BY <1>1 DEF Install
<1>4. ASSUME NEW j \in 1 .. n PROVE next[j] \in Measuring
  <2>1. j \in 1 .. Len(inFlight) /\ j + 1 \in 1 .. Len(inFlight)
    BY <1>1
  <2>2. inFlight[j] \in Measuring /\ inFlight[j + 1] \in Measuring
    BY <1>2, <2>1
  <2>3. [inFlight[j] EXCEPT !.overtaken = TRUE] \in Measuring
    BY <2>2 DEF Measuring
  <2> QED BY <2>2, <2>3
<1>5. next \in [1 .. n -> Measuring]
  BY <1>4
<1>6. next \in Seq(Measuring) /\ Len(next) = n
  BY <1>3, <1>5
<1> QED BY <1>3, <1>6

-----------------------------------------------------------------------------
(* The kernel                                                              *)

\* A uevent that is emitted is queued, or the socket is overrun, or does not
\* listen.
LEMMA EmitQueues ==
    ASSUME Types, NEW action \in Actions, Emit(action)
    PROVE  /\ uevents' \in Seq(Actions) /\ Len(uevents') <= SocketBuffer
           /\ overrun' \in BOOLEAN
           /\ socket # "reading" => UNCHANGED <<uevents, overrun>>
           /\ overrun => overrun'
           /\ socket = "reading" /\ ~overrun' =>
                 \E k \in DOMAIN uevents' : uevents'[k] = action
<1>1. uevents \in Seq(Actions) /\ Len(uevents) \in Nat /\ SocketBuffer \in Nat
  BY WatchdogAssumption, ReactorAssumption DEF Types
<1>2. CASE socket = "reading" /\ Len(uevents) < SocketBuffer
  <2>1. uevents' = Append(uevents, action)
    BY <1>2 DEF Emit
  <2>2. /\ uevents' \in Seq(Actions) /\ Len(uevents') = Len(uevents) + 1
        /\ uevents'[Len(uevents) + 1] = action
    BY <1>1, <2>1, AppendProperties
  <2>3. Len(uevents) + 1 \in DOMAIN uevents'
    BY <1>1, <2>2
  <2> QED BY <1>1, <1>2, <2>2, <2>3 DEF Emit, Types
<1>3. CASE ~(socket = "reading" /\ Len(uevents) < SocketBuffer)
  <2>1. UNCHANGED uevents
    BY <1>3 DEF Emit
  <2>2. socket = "reading" => Len(uevents) = SocketBuffer
    BY <1>1, <1>3 DEF Types
  <2>3. /\ overrun' \in BOOLEAN
        /\ socket # "reading" => overrun' = overrun
        /\ overrun => overrun'
        /\ socket = "reading" => overrun'
    BY <2>2 DEF Emit, Types
  <2> QED BY <2>1, <2>3 DEF Types
<1> QED BY <1>2, <1>3

\* The hardware changes: its uevent is queued, or there is a cause for none.
LEMMA ChangeInvariant ==
    ASSUME IInv, NEW c \in CPUs, Plug(c) \/ Switch(c) PROVE IInv'
<1> USE DEF IInv
<1>1. PICK came \in Actions, went \in Actions, cause \in SUBSET Causes :
          /\ Change(c, came, went, cause)
          /\ cause # {} \/ (socket # "closed" /\ {came, went} \subseteq {"add", "remove"})
  BY DEF Plug, Switch, Unheard, Actions, Causes
<1>2. PICK action \in {came, went} : Emit(action)
  BY <1>1 DEF Change
<1>3. /\ uevents' \in Seq(Actions) /\ Len(uevents') <= SocketBuffer
      /\ overrun' \in BOOLEAN
      /\ socket # "reading" => UNCHANGED <<uevents, overrun>>
      /\ overrun => overrun'
      /\ socket = "reading" /\ ~overrun' =>
            \E k \in DOMAIN uevents' : uevents'[k] = action
  BY <1>2, EmitQueues
<1>4. Types'
  <2>1. blame' \in SUBSET Causes
    BY <1>1 DEF Types, Change, Causes
  <2>2. changes' \in 0 .. MaxChanges /\ online' \in (SUBSET CPUs) \ {{}}
    BY <1>1, WatchdogAssumption, ReactorAssumption DEF Types, Change
  <2> QED BY <1>1, <1>3, <2>1, <2>2 DEF Types, Change, calcVars
<1>5. OneAwaited' /\ ReactorRuns' /\ OneCaller'
  BY <1>1 DEF Change, calcVars, reactorVars, OneAwaited, ReactorRuns, OneCaller,
              ReactorTypeOK
<1>6. Deaf'
  BY <1>1, <1>3 DEF Change, reactorVars, Deaf
<1>7. Pending'
  <2>1. CASE cause # {} \/ overrun' \/ socket = "gone"
    BY <1>1, <2>1 DEF Change, Pending
  <2>2. CASE ~(cause # {} \/ overrun' \/ socket = "gone")
    BY <1>1, <1>2, <1>3, <2>2 DEF Pending, Types
  <2> QED BY <2>1, <2>2
<1> QED BY <1>4, <1>5, <1>6, <1>7

\* The reader is going to fail: what is queued will not be read, and there is a
\* cause for that.
LEMMA ForeignOverrunInvariant == ASSUME IInv, ForeignOverrun PROVE IInv'
<1> USE DEF IInv, calcVars, reactorVars
<1>1. /\ socket = "reading" /\ overrun' = TRUE
      /\ changes' = changes + 1 /\ changes < MaxChanges
      /\ blame' \in {blame, blame \cup {"overrun"}}
      /\ uevents # <<>> => blame' # {}
      /\ UNCHANGED <<online, uevents, phase, socket, calcVars, reactorVars>>
  BY DEF ForeignOverrun
<1>2. Types'
  BY <1>1, WatchdogAssumption DEF Types, Causes
<1>3. OneAwaited' /\ ReactorRuns' /\ OneCaller' /\ Deaf'
  BY <1>1 DEF OneAwaited, ReactorRuns, ReactorTypeOK, OneCaller, Deaf
<1>4. LatestIsCurrent => LatestIsCurrent'
  BY <1>1 DEF LatestIsCurrent
<1>5. Pending => Pending'
  <2>1. (\E k \in DOMAIN uevents : uevents[k] \in {"add", "remove"}) => uevents # <<>>
    OBVIOUS
  <2>2. blame # {} => blame' # {}
    BY <1>1
  <2> QED BY <1>1, <2>1, <2>2 DEF Pending
<1> QED BY <1>2, <1>3, <1>4, <1>5

-----------------------------------------------------------------------------
(* main                                                                    *)

\* Before anything happens the first calculation is about to detect.
LEMMA InitInvariant == Init => IInv
<1> SUFFICES ASSUME Init PROVE IInv
  OBVIOUS
<1>1. Types
  <2>1. /\ uevents \in Seq(Actions) /\ Len(uevents) <= SocketBuffer
        /\ inFlight \in Seq(Measuring) /\ Len(inFlight) <= MaxInFlight
    BY EmptySeq, WatchdogAssumption, ReactorAssumption DEF Init
  <2>2. changes \in 0 .. MaxChanges
    BY WatchdogAssumption, ReactorAssumption DEF Init
  <2> QED BY <2>1, <2>2 DEF Init, Types
<1>2. ReactorRuns
  <2>1. timer \in Off .. Window /\ quiet \in 0 .. Window
    BY WatchdogAssumption, ReactorAssumption DEF Init, ReactorInit, Off
  <2>2. events \in 0 .. EventBufferSize /\ jobs \in 0 .. JobBufferSize
    BY WatchdogAssumption, ReactorAssumption DEF Init, ReactorInit
  <2> QED BY <2>1, <2>2 DEF Init, ReactorRuns, ReactorInit, ReactorTypeOK
<1>3. OneAwaited /\ Deaf /\ OneCaller /\ Pending
  BY DEF Init, OneAwaited, Deaf, OneCaller, Pending, ReactorInit
<1> QED BY <1>1, <1>2, <1>3 DEF IInv

\* The first calculation is over and the watchdog is started, or fails to.
LEMMA MainInvariant ==
    ASSUME IInv, InitialDone \/ StartWatchdog \/ StartWatchdogFails PROVE IInv'
<1> USE DEF IInv, InitialDone, StartWatchdog, StartWatchdogFails, kernelVars, calcVars,
            reactorVars
<1>1. Types'
  BY DEF Types
<1>2. OneAwaited' /\ ReactorRuns'
  BY DEF OneAwaited, ReactorRuns, ReactorTypeOK
<1>3. Deaf' /\ OneCaller'
  BY DEF Types, Deaf, OneCaller
<1>4. LatestIsCurrent' \/ Pending'
  BY DEF LatestIsCurrent, Pending
<1> QED BY <1>1, <1>2, <1>3, <1>4

\* A service that is started again begins as at first.
LEMMA RestartInvariant == ASSUME IInv, Restart PROVE IInv'
<1> USE DEF IInv, Restart
<1>1. Types'
  <2>1. /\ uevents' \in Seq(Actions) /\ Len(uevents') <= SocketBuffer
        /\ inFlight' \in Seq(Measuring) /\ Len(inFlight') <= MaxInFlight
    BY EmptySeq, WatchdogAssumption, ReactorAssumption
  <2>2. changes' \in 0 .. MaxChanges
    BY WatchdogAssumption, ReactorAssumption DEF Types
  <2> QED BY <2>1, <2>2 DEF Types
<1>2. ReactorRuns'
  <2>1. timer' \in Off .. Window /\ quiet' \in 0 .. Window
    BY WatchdogAssumption, ReactorAssumption DEF Off
  <2>2. events' \in 0 .. EventBufferSize /\ jobs' \in 0 .. JobBufferSize
    BY WatchdogAssumption, ReactorAssumption
  <2> QED BY <2>1, <2>2 DEF ReactorRuns, ReactorTypeOK
<1>3. OneAwaited' /\ Deaf' /\ OneCaller' /\ Pending'
  BY DEF OneAwaited, Deaf, OneCaller, Pending
<1> QED BY <1>1, <1>2, <1>3

-----------------------------------------------------------------------------
(* The netlink reader                                                      *)

\* A uevent that is read leaves the others in the queue, and one that counts
\* leaves something in the reactor's buffer, also if that is full.
LEMMA ReadUeventInvariant == ASSUME IInv, ReadUevent PROVE IInv'
<1> USE DEF IInv
<1>1. uevents \in Seq(Actions) /\ uevents # <<>> /\ Len(uevents) \in Nat \ {0}
  BY DEF Types, ReadUevent
<1>2. /\ Head(uevents) = uevents[1]
      /\ uevents' \in Seq(Actions) /\ Len(uevents') = Len(uevents) - 1
      /\ \A k \in 1 .. Len(uevents) - 1 : uevents'[k] = uevents[k + 1]
  BY <1>1, HeadTailProperties DEF ReadUevent
<1>3. /\ events' \in 0 .. EventBufferSize
      /\ events > 0 => events' > 0
      /\ Head(uevents) \in {"add", "remove"} => events' > 0
      /\ stale' \in BOOLEAN
      /\ UNCHANGED <<batch, timer, jobs, stopping, batcher, worker, quiet>>
  <2>1. events \in 0 .. EventBufferSize /\ stale \in BOOLEAN
    BY DEF ReactorRuns, ReactorTypeOK
  <2>2. CASE Head(uevents) \in {"add", "remove"}
    <3>1. Ingest
      BY <2>2 DEF ReadUevent
    <3> QED BY <2>1, <3>1, WatchdogAssumption, ReactorAssumption DEF Ingest
  <2>3. CASE Head(uevents) \notin {"add", "remove"}
    BY <2>1, <2>3 DEF ReadUevent, reactorVars
  <2> QED BY <2>2, <2>3
<1>4. Types'
  <2>1. Len(uevents') <= SocketBuffer
    BY <1>1, <1>2, WatchdogAssumption, ReactorAssumption DEF Types
  <2> QED BY <1>2, <2>1 DEF Types, ReadUevent, calcVars
<1>5. OneAwaited' /\ OneCaller'
  BY <1>3 DEF ReadUevent, calcVars, OneAwaited, OneCaller
<1>6. ReactorRuns'
  BY <1>3 DEF ReactorRuns, ReactorTypeOK
<1>7. Deaf'
  BY <1>1, <1>3 DEF ReadUevent, Deaf
<1>8. LatestIsCurrent => LatestIsCurrent'
  BY DEF ReadUevent, calcVars, LatestIsCurrent
<1>9. ASSUME NEW k \in DOMAIN uevents, uevents[k] \in {"add", "remove"}
      PROVE  Pending'
  <2>1. CASE k = 1
    BY <1>2, <1>3, <1>9, <2>1 DEF Pending
  <2>2. CASE k # 1
    <3>1. k \in 1 .. Len(uevents)
      BY <1>1
    <3>2. k - 1 \in 1 .. Len(uevents) - 1 /\ (k - 1) + 1 = k
      BY <1>1, <2>2, <3>1
    <3>3. k - 1 \in DOMAIN uevents' /\ uevents'[k - 1] = uevents[k]
      BY <1>1, <1>2, <3>2
    <3> QED BY <1>9, <3>3 DEF Pending, ReadUevent
  <2> QED BY <2>1, <2>2
<1>10. Pending => Pending'
  BY <1>3, <1>9 DEF Pending, ReadUevent, calcVars
<1> QED BY <1>4, <1>5, <1>6, <1>7, <1>8, <1>10

\* The reader gives up: what was queued had been overtaken by the overrun.
LEMMA ReaderFailsInvariant == ASSUME IInv, ReaderFails PROVE IInv'
<1> USE DEF IInv, ReaderFails, calcVars, reactorVars
<1>1. Types'
  BY EmptySeq, WatchdogAssumption, ReactorAssumption DEF Types
<1>2. OneAwaited' /\ ReactorRuns' /\ OneCaller' /\ Deaf'
  BY DEF OneAwaited, ReactorRuns, ReactorTypeOK, OneCaller, Deaf
<1>3. LatestIsCurrent' \/ Pending'
  BY DEF LatestIsCurrent, Pending
<1> QED BY <1>1, <1>2, <1>3

-----------------------------------------------------------------------------
(* CalculateRanking and Update                                             *)

\* The new goroutine is the latest, and has seen what is there now.
LEMMA DetectInvariant == ASSUME IInv, Detect PROVE IInv'
<1> USE DEF IInv
<1> DEFINE new == [found |-> online, awaited |-> TRUE, overtaken |-> FALSE]
           n == Len(inFlight)
<1>1. inFlight \in Seq(Measuring) /\ n \in Nat /\ n < MaxInFlight /\ MaxInFlight \in Nat
  BY WatchdogAssumption, ReactorAssumption DEF Types, Detect
<1>2. new \in Measuring
  BY DEF Types, Measuring
<1>3. /\ inFlight' \in Seq(Measuring) /\ Len(inFlight') = n + 1
      /\ \A i \in 1 .. n : inFlight'[i] = inFlight[i]
      /\ inFlight'[n + 1] = new
  <2> HIDE DEF new
  <2> QED BY <1>1, <1>2, AppendProperties DEF Detect, new
<1>4. Types'
  <2>1. Len(inFlight') <= MaxInFlight
    BY <1>1, <1>3
  <2> QED BY <1>3, <2>1 DEF Types, Detect, kernelVars
<1>5. OneAwaited'
  <2>1. \A i \in 1 .. n : ~inFlight[i].awaited
    BY <1>1 DEF OneAwaited, Detect
  <2>2. DOMAIN inFlight' = 1 .. n + 1 /\ n + 1 \in DOMAIN inFlight'
    BY <1>1, <1>3
  <2>3. \A i \in DOMAIN inFlight' : inFlight'[i].awaited <=> i = n + 1
    BY <1>1, <1>3, <2>1, <2>2
  <2> QED BY <2>2, <2>3 DEF OneAwaited, Detect
<1>6. ReactorRuns' /\ Deaf' /\ OneCaller'
  BY DEF Detect, kernelVars, reactorVars, ReactorRuns, ReactorTypeOK, Deaf, OneCaller
<1>7. LatestIsCurrent'
  BY <1>1, <1>3 DEF LatestIsCurrent, Detect, kernelVars
<1> QED BY <1>4, <1>5, <1>6, <1>7

\* The caller gives up: nobody is waited for, and the measurements go on, or the
\* service is started afresh.
LEMMA TimeOutInvariant == ASSUME IInv, TimeOut PROVE IInv'
<1> USE DEF IInv, TimeOut, kernelVars, reactorVars
<1>1. CASE phase = "ranking"
  <2>1. Types'
    BY <1>1, EmptySeq, WatchdogAssumption, ReactorAssumption DEF Types
  <2> QED BY <1>1, <2>1 DEF OneAwaited, ReactorRuns, ReactorTypeOK, Deaf, OneCaller, Pending
<1>2. CASE phase # "ranking"
  <2>1. inFlight \in Seq(Measuring) /\ Len(inFlight) \in Nat
    BY DEF Types
  <2>2. ASSUME NEW j \in DOMAIN inFlight
        PROVE  /\ inFlight[j] \in Measuring
               /\ [inFlight[j] EXCEPT !.awaited = FALSE] \in Measuring
    <3>1. inFlight[j] \in Measuring
      BY <2>1
    <3> QED BY <3>1 DEF Measuring
  <2>3. /\ DOMAIN inFlight' = DOMAIN inFlight
        /\ \A j \in DOMAIN inFlight :
              /\ inFlight'[j] \in Measuring
              /\ ~inFlight'[j].awaited
              /\ inFlight'[j].found = inFlight[j].found
              /\ inFlight'[j].overtaken = inFlight[j].overtaken
    BY <1>2, <2>2 DEF Measuring
  <2>4. inFlight' \in [1 .. Len(inFlight) -> Measuring]
    BY <1>2, <2>1, <2>2
  <2>5. inFlight' \in Seq(Measuring) /\ Len(inFlight') = Len(inFlight)
    BY <2>1, <2>4
  <2>6. Types'
    BY <1>2, <2>5 DEF Types
  <2>7. OneAwaited'
    BY <1>2, <2>3 DEF OneAwaited
  <2>8. ReactorRuns' /\ Deaf' /\ OneCaller'
    BY <1>2 DEF ReactorRuns, ReactorTypeOK, Deaf, OneCaller, OneAwaited
  <2>9. LatestIsCurrent => LatestIsCurrent'
    BY <2>1, <2>3, <2>5 DEF LatestIsCurrent
  <2>10. Pending => Pending'
    BY <1>2 DEF Pending, OneAwaited
  <2> QED BY <2>6, <2>7, <2>8, <2>9, <2>10
<1> QED BY <1>1, <1>2

\* A goroutine that ends reports to the caller if it is the one waited for.
LEMMA ReportedAwaited ==
    ASSUME Types, OneAwaited, NEW i \in DOMAIN inFlight, Report(i),
           inFlight' \in Seq(Measuring), Len(inFlight') = Len(inFlight) - 1,
           \A j \in 1 .. Len(inFlight) - 1 :
              inFlight'[j].awaited = inFlight[IF j < i THEN j ELSE j + 1].awaited
    PROVE  OneAwaited'
<1> DEFINE n == Len(inFlight)
           old(j) == IF j < i THEN j ELSE j + 1
<1>1. n \in Nat /\ i \in 1 .. n /\ DOMAIN inFlight = 1 .. n /\ DOMAIN inFlight' = 1 .. n - 1
  BY DEF Types
<1>2. ASSUME NEW j \in 1 .. n - 1 PROVE old(j) \in 1 .. n /\ old(j) # i
  BY <1>1
<1>3. \A j, k \in 1 .. n - 1 : old(j) = old(k) => j = k
  BY <1>1
<1>4. ASSUME NEW j \in 1 .. n, j # i PROVE \E k \in 1 .. n - 1 : old(k) = j
  <2>1. CASE j < i
    <3>1. j \in 1 .. n - 1
      BY <1>1, <2>1
    <3> QED BY <2>1, <3>1
  <2>2. CASE ~(j < i)
    <3>1. j - 1 \in 1 .. n - 1 /\ ~(j - 1 < i) /\ (j - 1) + 1 = j
      BY <1>1, <1>4, <2>2
    <3> QED BY <3>1
  <2> QED BY <2>1, <2>2
<1>5. \A j \in 1 .. n - 1 : inFlight'[j].awaited = inFlight[old(j)].awaited
  OBVIOUS
<1> HIDE DEF old
<1>6. ASSUME NEW j \in DOMAIN inFlight', NEW k \in DOMAIN inFlight',
             inFlight'[j].awaited, inFlight'[k].awaited
      PROVE  j = k
  <2>1. j \in 1 .. n - 1 /\ k \in 1 .. n - 1
    BY <1>1
  <2>2. /\ old(j) \in DOMAIN inFlight /\ inFlight[old(j)].awaited
        /\ old(k) \in DOMAIN inFlight /\ inFlight[old(k)].awaited
    BY <1>1, <1>2, <1>5, <1>6, <2>1
  <2>3. old(j) = old(k)
    BY <2>2 DEF OneAwaited
  <2> QED BY <1>3, <2>1, <2>3
<1>7. CASE inFlight[i].awaited
  <2>1. \A j \in 1 .. n : j # i => ~inFlight[j].awaited
    BY <1>1, <1>7 DEF OneAwaited
  <2>2. \A j \in DOMAIN inFlight' : ~inFlight'[j].awaited
    BY <1>1, <1>2, <1>5, <2>1
  <2> QED BY <1>6, <1>7, <2>2 DEF OneAwaited, Report
<1>8. CASE ~inFlight[i].awaited
  <2>1. (\E j \in DOMAIN inFlight : inFlight[j].awaited)
          <=> \E j \in DOMAIN inFlight' : inFlight'[j].awaited
    <3>1. ASSUME NEW j \in 1 .. n, inFlight[j].awaited
          PROVE  \E k \in 1 .. n - 1 : inFlight'[k].awaited
      <4>1. PICK k \in 1 .. n - 1 : old(k) = j
        BY <1>4, <1>8, <3>1
      <4> QED BY <1>5, <3>1, <4>1
    <3>2. ASSUME NEW j \in 1 .. n - 1, inFlight'[j].awaited
          PROVE  \E k \in 1 .. n : inFlight[k].awaited
      BY <1>2, <1>5, <3>2
    <3> QED BY <1>1, <3>1, <3>2
  <2> QED BY <1>6, <1>8, <2>1 DEF OneAwaited, Report
<1> QED BY <1>7, <1>8

\* A goroutine installs what it detected.  If it is the latest, the others are
\* overtaken; if it had been overtaken, that is a cause.
LEMMA InstallInvariant ==
    ASSUME IInv, NEW i \in DOMAIN inFlight, Install(i) PROVE IInv'
<1> USE DEF IInv
<1> DEFINE n == Len(inFlight)
<1>1. /\ inFlight \in Seq(Measuring) /\ n \in Nat /\ i \in 1 .. n
      /\ \A j \in 1 .. n : inFlight[j] \in Measuring
  BY DEF Types
<1>2. /\ inFlight' \in Seq(Measuring) /\ Len(inFlight') = n - 1
      /\ \A j \in 1 .. n - 1 :
            inFlight'[j] = IF j < i THEN [inFlight[j] EXCEPT !.overtaken = TRUE]
                                    ELSE inFlight[j + 1]
  BY InstalledElements
<1>3. DOMAIN inFlight' = 1 .. n - 1 /\ DOMAIN inFlight = 1 .. n
  BY <1>1, <1>2
<1>4. ASSUME NEW j \in 1 .. n - 1, j < i
      PROVE  /\ inFlight'[j].found = inFlight[j].found
             /\ inFlight'[j].awaited = inFlight[j].awaited
             /\ inFlight'[j].overtaken
  <2>1. j \in 1 .. n
    BY <1>1
  <2> QED BY <1>1, <1>2, <1>4, <2>1 DEF Measuring
<1>5. ASSUME NEW j \in 1 .. n - 1, ~(j < i) PROVE inFlight'[j] = inFlight[j + 1]
  BY <1>2, <1>5
<1>6. Types'
  <2>1. Len(inFlight') <= MaxInFlight
    BY <1>1, <1>2, WatchdogAssumption, ReactorAssumption DEF Types
  <2>2. ranked' \in SUBSET CPUs
    BY <1>1 DEF Install, Measuring
  <2>3. caller' \in {"none", "started", "waiting", "returned"}
    BY DEF Types, Install, Report
  <2>4. blame' \in SUBSET Causes
    BY DEF Types, Install, Causes
  <2> QED BY <1>2, <2>1, <2>2, <2>3, <2>4 DEF Types, Install, kernelVars
<1>7. OneAwaited'
  <2>1. \A j \in 1 .. n - 1 :
           inFlight'[j].awaited = inFlight[IF j < i THEN j ELSE j + 1].awaited
    BY <1>4, <1>5
  <2>2. Report(i)
    BY DEF Install
  <2> QED BY <1>2, <2>1, <2>2, ReportedAwaited
<1>8. ReactorRuns' /\ Deaf'
  BY DEF Install, kernelVars, reactorVars, ReactorRuns, ReactorTypeOK, Deaf
<1>9. OneCaller'
  BY DEF Install, Report, reactorVars, OneCaller, OneAwaited
<1>10. Pending => Pending'
  <2>1. caller = "started" => UNCHANGED caller
    BY DEF Install, Report, OneAwaited
  <2> QED BY <2>1 DEF Install, kernelVars, reactorVars, Pending
<1>11. LatestIsCurrent => LatestIsCurrent' \/ Pending'
  <2>1. CASE inFlight[i].overtaken
    BY <2>1 DEF Install, Pending
  <2>2. CASE ~inFlight[i].overtaken /\ LatestIsCurrent
    <3>1. /\ n > 0 /\ inFlight[n].found = online /\ ~inFlight[n].overtaken
      BY <1>1, <2>2 DEF LatestIsCurrent
    <3>2. CASE i = n
      <4>1. ranked' = online'
        BY <3>1, <3>2 DEF Install, kernelVars
      <4>2. \A j \in DOMAIN inFlight' : inFlight'[j].overtaken
        BY <1>1, <1>3, <1>4, <3>2
      <4> QED BY <4>1, <4>2 DEF LatestIsCurrent
    <3>3. CASE i # n
      <4>1. n - 1 \in 1 .. n - 1 /\ ~(n - 1 < i) /\ (n - 1) + 1 = n
        BY <1>1, <3>3
      <4>2. inFlight'[n - 1] = inFlight[n]
        BY <1>5, <4>1
      <4>3. inFlight' # <<>>
        BY <1>2, <4>1
      <4> QED BY <1>2, <3>1, <4>2, <4>3 DEF LatestIsCurrent, Install, kernelVars
    <3> QED BY <3>2, <3>3
  <2> QED BY <2>1, <2>2
<1> QED BY <1>6, <1>7, <1>8, <1>9, <1>10, <1>11

\* A goroutine fails since a CPU that it found is gone: then what it detected
\* was not current, and the latest is another.
LEMMA FailInvariant ==
    ASSUME IInv, NEW i \in DOMAIN inFlight, Fail(i) PROVE IInv'
<1> USE DEF IInv
<1>1. CASE phase = "ranking"
  <2> USE <1>1 DEF Fail, kernelVars, reactorVars
  <2>1. Types'
    BY EmptySeq, WatchdogAssumption, ReactorAssumption DEF Types
  <2> QED BY <2>1 DEF OneAwaited, ReactorRuns, ReactorTypeOK, Deaf, OneCaller, Pending
<1>2. CASE phase # "ranking"
  <2> DEFINE n == Len(inFlight)
  <2>1. inFlight \in Seq(Measuring) /\ n \in Nat /\ i \in 1 .. n
    BY DEF Types
  <2>2. inFlight' = RemoveAt(inFlight, i) /\ Report(i)
    BY <1>2 DEF Fail
  <2>3. /\ inFlight' \in Seq(Measuring) /\ Len(inFlight') = n - 1
        /\ \A j \in 1 .. n - 1 :
              inFlight'[j] = IF j < i THEN inFlight[j] ELSE inFlight[j + 1]
    BY <2>1, <2>2, RemoveAtElements
  <2>4. DOMAIN inFlight' = 1 .. n - 1 /\ DOMAIN inFlight = 1 .. n
    BY <2>1, <2>3
  <2>5. Types'
    <3>1. Len(inFlight') <= MaxInFlight
      BY <2>1, <2>3, WatchdogAssumption, ReactorAssumption DEF Types
    <3> QED BY <2>2, <2>3, <3>1 DEF Types, Fail, Report, kernelVars
  <2>6. OneAwaited'
    <3>1. \A j \in 1 .. n - 1 :
             inFlight'[j].awaited = inFlight[IF j < i THEN j ELSE j + 1].awaited
      BY <2>3
    <3> QED BY <2>2, <2>3, <3>1, ReportedAwaited
  <2>7. ReactorRuns' /\ Deaf'
    BY DEF Fail, kernelVars, reactorVars, ReactorRuns, ReactorTypeOK, Deaf
  <2>8. OneCaller'
    BY <1>2, <2>2 DEF Fail, Report, reactorVars, OneCaller, OneAwaited
  <2>9. Pending => Pending'
    <3>1. caller = "started" => UNCHANGED caller
      BY <2>2 DEF Report, OneAwaited
    <3> QED BY <3>1 DEF Fail, kernelVars, reactorVars, Pending
  <2>10. LatestIsCurrent => LatestIsCurrent'
    <3>1. CASE n > 0 /\ inFlight[n].found = online /\ ~inFlight[n].overtaken
      <4>1. i # n
        BY <3>1 DEF Fail
      <4>2. n - 1 \in 1 .. n - 1 /\ ~(n - 1 < i) /\ (n - 1) + 1 = n
        BY <2>1, <4>1
      <4>3. inFlight'[n - 1] = inFlight[n] /\ inFlight' # <<>>
        BY <2>3, <4>2
      <4> QED BY <2>3, <3>1, <4>3 DEF LatestIsCurrent, Fail, kernelVars
    <3>2. CASE ranked = online /\ \A j \in DOMAIN inFlight : inFlight[j].overtaken
      <4>1. ASSUME NEW j \in 1 .. n - 1 PROVE inFlight'[j].overtaken
        <5>1. j \in 1 .. n /\ j + 1 \in 1 .. n
          BY <2>1
        <5> QED BY <2>3, <2>4, <3>2, <5>1
      <4> QED BY <2>4, <3>2, <4>1 DEF LatestIsCurrent, Fail, kernelVars
    <3> QED BY <2>1, <3>1, <3>2 DEF LatestIsCurrent
  <2> QED BY <2>5, <2>6, <2>7, <2>8, <2>9, <2>10
<1> QED BY <1>1, <1>2

-----------------------------------------------------------------------------
(* The reactor                                                             *)

\* A job is on its way into a detection, and events into a job, also when the
\* queue is full: then there is one.
LEMMA ReactorInvariant ==
    ASSUME IInv, BeginRecalculation \/ EndRecalculation \/ Batching \/ TimePasses PROVE IInv'
<1> USE DEF IInv
<1>1. /\ UNCHANGED <<online, changes, phase, socket, uevents, overrun, inFlight,
                     ranked, blame>>
      /\ UNCHANGED caller \/ caller' \in {"started", "none"}
  BY DEF BeginRecalculation, EndRecalculation, Batching, TimePasses, kernelVars, calcVars
<1>2. Types'
  BY <1>1 DEF Types
<1>3. ReactorRuns'
  <2> USE WatchdogAssumption, ReactorAssumption DEF ReactorRuns, ReactorTypeOK, Off
  <2>1. CASE TakeJob \/ HandlerDone
    <3>1. jobs' \in 0 .. JobBufferSize
      BY <2>1 DEF TakeJob, HandlerDone
    <3>2. worker' \in {"select", "handling"} /\ stale' \in BOOLEAN
      BY <2>1 DEF TakeJob, HandlerDone
    <3>3. UNCHANGED <<events, batch, timer, stopping, batcher, quiet>>
      BY <2>1 DEF TakeJob, HandlerDone
    <3> QED BY <3>1, <3>2, <3>3
  <2>2. CASE BufferEvent
    BY <2>2 DEF BufferEvent
  <2>3. CASE Flush
    <3>1. jobs' \in 0 .. JobBufferSize
      BY <2>3 DEF Flush
    <3>2. timer' \in Off .. Window
      BY <2>3 DEF Flush
    <3>3. batch' \in BOOLEAN
      BY <2>3 DEF Flush
    <3>4. UNCHANGED <<events, stopping, batcher, worker, stale, quiet>>
      BY <2>3 DEF Flush
    <3> QED BY <3>1, <3>2, <3>3, <3>4
  <2>4. CASE Tick
    BY <2>4 DEF Tick
  <2> QED BY <2>1, <2>2, <2>3, <2>4 DEF BeginRecalculation, EndRecalculation, Batching, TimePasses
<1>4. OneCaller' /\ OneAwaited'
  <2>1. CASE BeginRecalculation
    <3>1. phase = "watching" /\ caller = "none"
      BY <2>1 DEF BeginRecalculation, TakeJob, Deaf, OneCaller, ReactorRuns, ReactorTypeOK, Types
    <3> QED BY <1>1, <2>1, <3>1 DEF BeginRecalculation, TakeJob, OneCaller, OneAwaited
  <2>2. CASE EndRecalculation
    <3>1. phase = "watching" /\ caller = "returned"
      BY <2>2 DEF EndRecalculation, HandlerDone, Deaf, Types
    <3> QED BY <1>1, <2>2, <3>1 DEF EndRecalculation, HandlerDone, OneCaller, OneAwaited
  <2>3. CASE Batching \/ TimePasses
    BY <1>1, <2>3 DEF Batching, TimePasses, BufferEvent, Flush, Tick,
                      calcVars, OneCaller, OneAwaited
  <2> QED BY <2>1, <2>2, <2>3
<1>5. Deaf'
  <2>1. CASE socket = "closed"
    BY <1>1, <2>1 DEF BeginRecalculation, EndRecalculation, Batching, TimePasses, TakeJob,
       HandlerDone, BufferEvent, Flush, Tick, Deaf
  <2>2. CASE socket # "closed"
    BY <1>1, <2>2 DEF Deaf
  <2> QED BY <2>1, <2>2
<1>6. LatestIsCurrent => LatestIsCurrent'
  BY <1>1 DEF LatestIsCurrent
<1>7. Pending => Pending'
  <2>1. CASE BeginRecalculation
    BY <2>1 DEF BeginRecalculation, Pending
  <2>2. CASE EndRecalculation
    BY <1>1, <2>2 DEF EndRecalculation, HandlerDone, Pending
  <2>3. CASE TimePasses
    BY <1>1, <2>3 DEF TimePasses, Tick, calcVars, Pending
  <2>4. CASE Batching
    <3>1. /\ events > 0 \/ batch \/ jobs > 0 => events' > 0 \/ batch' \/ jobs' > 0
          /\ UNCHANGED caller
      BY <2>4, WatchdogAssumption, ReactorAssumption
         DEF Batching, BufferEvent, Flush, calcVars, ReactorRuns, ReactorTypeOK
    <3> QED BY <1>1, <3>1 DEF Pending
  <2> QED BY <2>1, <2>2, <2>3, <2>4
<1> QED BY <1>2, <1>3, <1>4, <1>5, <1>6, <1>7

-----------------------------------------------------------------------------
(* What follows                                                            *)

\* Every step of the system keeps the invariant.
LEMMA NextInvariant == IInv /\ [Next]_vars => IInv'
<1> SUFFICES ASSUME IInv, [Next]_vars PROVE IInv'
  OBVIOUS
<1>1. CASE UNCHANGED vars
  BY <1>1 DEF IInv, Types, OneAwaited, ReactorRuns, ReactorTypeOK, Deaf, OneCaller,
              LatestIsCurrent, Pending, vars
<1>2. CASE \E c \in CPUs : Plug(c) \/ Switch(c)
  BY <1>2, ChangeInvariant
<1>3. CASE \/ InitialDone \/ StartWatchdog \/ StartWatchdogFails \/ Restart
           \/ ForeignOverrun \/ ReadUevent \/ ReaderFails \/ Detect \/ TimeOut
           \/ BeginRecalculation \/ EndRecalculation \/ Batching \/ TimePasses
  BY <1>3, MainInvariant, RestartInvariant, ForeignOverrunInvariant,
     ReadUeventInvariant, ReaderFailsInvariant, DetectInvariant, TimeOutInvariant, ReactorInvariant
<1>4. CASE \E i \in DOMAIN inFlight : Install(i) \/ Fail(i)
  BY <1>4, InstallInvariant, FailInvariant
<1> QED BY <1>1, <1>2, <1>3, <1>4 DEF Next

\* The invariant holds in every state.
THEOREM Invariance == Spec => []IInv
<1>1. Init => IInv
  BY InitInvariant
<1>2. IInv /\ [Next]_vars => IInv'
  BY NextInvariant
<1> QED BY <1>1, <1>2, PTL DEF Spec

\* Every variable has its type, and CalculateRanking waits for one goroutine at
\* most, whatever times out, fails or is started again.
THEOREM TypeCorrect == Spec => []TypeOK
<1>1. IInv => TypeOK
  <2> SUFFICES ASSUME IInv PROVE TypeOK
    OBVIOUS
  <2> DEFINE waited == { i \in DOMAIN inFlight : inFlight[i].awaited }
  <2>1. CASE caller = "waiting"
    <3>1. PICK i \in DOMAIN inFlight : inFlight[i].awaited
      BY <2>1 DEF IInv, OneAwaited
    <3>2. waited = {i}
      BY <3>1 DEF IInv, OneAwaited
    <3> QED BY <2>1, <3>2, FS_Singleton DEF IInv, Types, TypeOK
  <2>2. CASE caller # "waiting"
    <3>1. waited = {}
      BY <2>2 DEF IInv, OneAwaited
    <3> QED BY <2>2, <3>1, FS_EmptySet DEF IInv, Types, TypeOK
  <2> QED BY <2>1, <2>2
<1> QED BY <1>1, Invariance, PTL

\* While the service watches, a ranking that is not that of the hardware is
\* being replaced, or for a known cause it is not.
THEOREM StaleOnlyForACause == Spec => []StaleOnlyForAKnownCause
<1>1. IInv => StaleOnlyForAKnownCause
  <2> SUFFICES ASSUME IInv, phase = "watching", ranked # online
               PROVE  CatchingUp \/ blame # {}
    BY DEF StaleOnlyForAKnownCause
  <2>1. CASE Pending
    <3>1. (\E k \in DOMAIN uevents : uevents[k] \in {"add", "remove"}) => uevents # <<>>
      OBVIOUS
    <3> QED BY <2>1, <3>1 DEF Pending, CatchingUp
  <2>2. CASE LatestIsCurrent
    <3>1. inFlight # <<>> /\ inFlight[Len(inFlight)].found = online
      BY <2>2 DEF LatestIsCurrent
    <3>2. inFlight \in Seq(Measuring)
      BY DEF IInv, Types
    <3>3. Len(inFlight) \in DOMAIN inFlight
      BY <3>1, <3>2
    <3> QED BY <3>1, <3>3 DEF CatchingUp
  <2> QED BY <2>1, <2>2 DEF IInv
<1> QED BY <1>1, Invariance, PTL

\* What a step of the system does to the reactor is a step of the reactor, but
\* for a restart of the service, which makes a new one: the netlink reader is its
\* ingest, a whole CalculateRanking its handler.
LEMMA ReactorSteps ==
    [Next]_vars => [ReactorNext]_reactorVars \/ (Restart /\ ReactorInit')
<1> SUFFICES ASSUME [Next]_vars
             PROVE  ReactorNext \/ UNCHANGED reactorVars \/ (Restart /\ ReactorInit')
  OBVIOUS
<1>1. CASE UNCHANGED vars
  BY <1>1 DEF vars, reactorVars
<1>2. CASE \E c \in CPUs : Plug(c) \/ Switch(c)
  BY <1>2 DEF Plug, Switch, Change
<1>3. CASE \/ InitialDone \/ StartWatchdog \/ StartWatchdogFails
           \/ ForeignOverrun \/ ReaderFails \/ Detect \/ TimeOut
           \/ \E i \in DOMAIN inFlight : Install(i) \/ Fail(i)
  BY <1>3 DEF InitialDone, StartWatchdog, StartWatchdogFails, ForeignOverrun,
              ReaderFails, Detect, TimeOut, Install, Fail
<1>4. CASE ReadUevent
  BY <1>4 DEF ReadUevent, ReactorNext
<1>5. CASE BeginRecalculation \/ EndRecalculation \/ Batching \/ TimePasses
  BY <1>5 DEF BeginRecalculation, EndRecalculation, Batching, TimePasses, ReactorNext
<1>6. CASE Restart
  BY <1>6 DEF Restart, ReactorInit
<1> QED BY <1>1, <1>2, <1>3, <1>4, <1>5, <1>6 DEF Next

\* As long as the service is not restarted, the reactor in it does what
\* HotplugReactor says of it.
THEOREM ReactorWithin ==
    ASSUME "restart" \notin Faults PROVE Spec => ReactorSpec
<1>1. Init => ReactorInit
  BY DEF Init
<1>2. [Next]_vars => [ReactorNext]_reactorVars
  BY ReactorSteps DEF Restart
<1> QED BY <1>1, <1>2, PTL DEF Spec, ReactorSpec

\* In the service, whatever is restarted, timed out or overrun, an event that
\* was handed to ingest is followed by a recalculation, or its trace is queued.
THEOREM WakeupsSurviveWithin == Spec => []NoLostWakeup
<1>1. Init => ReactorIInv
  BY ReactorInitInvariant DEF Init
<1>2. ReactorIInv /\ [Next]_vars => ReactorIInv'
  <2>1. CASE [ReactorNext]_reactorVars
    BY <2>1, ReactorNextInvariant
  <2>2. CASE ReactorInit'
    <3>1. (ReactorInit => ReactorIInv)'
      BY ReactorInitInvariant, PTL
    <3> QED BY <2>2, <3>1
  <2> QED BY <2>1, <2>2, ReactorSteps
<1>3. ReactorIInv => NoLostWakeup
  BY DEF ReactorIInv
<1> QED BY <1>1, <1>2, <1>3, PTL DEF Spec

=============================================================================
