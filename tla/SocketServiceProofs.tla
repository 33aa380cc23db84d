------------------------ MODULE SocketServiceProofs ------------------------
(***************************************************************************)
(* Proofs about SocketService, for every set of processes and VMs and every *)
(* number of starts, stops and failures, and that the service is the one    *)
(* of HookProtocol.  That the unit comes up and that reassign ends needs    *)
(* fairness and is left to the model checker.                               *)
(***************************************************************************)
EXTENDS SocketService, WellFoundedInduction, TLAPS

\* Nobody has been alive together with p since p started.
Alone(p) == Alive(p) /\ p \notin company

\* Then nobody is: a process that starts puts all that are alive in company.
AloneIsAlone == \A p, q \in Processes : Alone(p) /\ q # p => ~Alive(q)

\* What a process that is alone knows of the file where it stands: nobody else
\* has changed it since.
Knows(p) ==
    /\ proc[p] = "remove" => file = Dead
    /\ proc[p] = "bind" => file = NoFile
    /\ proc[p] \in {"listen", "chmod", "publish", "serving"} => file = p
    /\ proc[p] \notin {"close", "exit"}

AloneKnows == \A p \in Processes : Alone(p) => Knows(p)

\* As long as nothing is known against the service, the command's call finds
\* it as it should be.
CalledWhenSound == cli \in {"dial", "wait"} /\ lapse = {} => Sound

IInv == TypeOK /\ AloneIsAlone /\ AloneKnows /\ CalledWhenSound

-----------------------------------------------------------------------------
(* The parts that are common to several actions                            *)

\* What TypeOK says of the command.
ClientTypeOK ==
    /\ cli \in {"idle", "config", "dial", "wait"}
    /\ todo \in SUBSET VMs /\ (cli = "idle" <=> todo = {})
    /\ IF cli = "wait" THEN conn \in Processes /\ Listening(conn) ELSE conn = NoFile
    /\ report \in [VMs -> {"none", "skipped", "failed", "success"}]
    /\ accepted \in SUBSET VMs

\* The VM in work is one of those that are left: a finite set of numbers has a
\* smallest.
LEMMA MinimumInWork ==
    ASSUME todo \in SUBSET VMs, todo # {} PROVE Current \in todo
<1> DEFINE Less == {ss \in Nat \X Nat : ss[1] < ss[2]}
<1>1. IsWellFoundedOn(Less, Nat)
  BY NatLessThanWellFounded DEF OpToRel
<1>2. todo \subseteq Nat
  BY SocketAssumption
<1>3. PICK m \in todo : \A w \in todo : ~(<<w, m>> \in Less)
  <2> HIDE DEF Less
  <2> QED BY <1>1, <1>2, WFMin
<1>4. ASSUME NEW w \in todo PROVE m <= w
  <2>1. <<w, m>> \in Nat \X Nat /\ m \in Nat /\ w \in Nat
    BY <1>2
  <2>2. ~(w < m)
    BY <1>3, <2>1
  <2> QED BY <2>1, <2>2
<1> QED BY <1>4 DEF Current

\* A line is printed about the VM in work, and the command turns to the next.
LEMMA LinePrinted ==
    ASSUME ClientTypeOK, NEW line \in {"skipped", "failed", "success"},
           Report(Current, line), NextVM, accepted' \in SUBSET VMs
    PROVE  ClientTypeOK' /\ cli' \notin {"dial", "wait"}
BY DEF ClientTypeOK, Report, NextVM

\* The end of a process does not confuse the command.
LEMMA DisconnectTypeOK ==
    ASSUME ClientTypeOK, proc \in [Processes -> Stages], NEW p \in Processes,
           Disconnect(p), NEW stage, Become(p, stage)
    PROVE  ClientTypeOK'
<1>1. CASE cli = "wait" /\ conn = p
  BY <1>1, LinePrinted DEF Disconnect, ClientTypeOK
<1>2. CASE ~(cli = "wait" /\ conn = p)
  BY <1>2 DEF Disconnect, cliVars, ClientTypeOK, Become, Listening
<1> QED BY <1>1, <1>2

\* The command does nothing while a process goes on that keeps listening.
LEMMA ClientUnchanged ==
    ASSUME ClientTypeOK, proc \in [Processes -> Stages], NEW p \in Processes,
           UNCHANGED cliVars, NEW stage, Become(p, stage),
           Listening(p) => stage \in {"chmod", "publish", "close", "serving"}
    PROVE  ClientTypeOK'
BY DEF cliVars, ClientTypeOK, Become, Listening

\* A lapse that is noted is why the service might not be sound now.
LEMMA LapseNoted ==
    ASSUME NoteLapse, lapse \in SUBSET {"unsound", "refused", "late"}
    PROVE  lapse' \in SUBSET {"unsound", "refused", "late"} /\ CalledWhenSound'
BY DEF NoteLapse, CalledWhenSound

-----------------------------------------------------------------------------
(* The invariant                                                           *)

\* When the service begins the unit is alone, and the file may be left of an
\* earlier one.
LEMMA InitInvariant == Init => IInv
BY SocketAssumption
   DEF Init, IInv, TypeOK, AloneIsAlone, AloneKnows, CalledWhenSound, Alone,
       Knows, Alive, Bound, Listening, Stages

\* The start of a process: its company are those that are alive.
LEMMA StartInvariant == ASSUME IInv, NEW p \in Processes, Start(p) PROVE IInv'
<1> USE DEF IInv
<1>1. TypeOK'
  <2>1. ClientTypeOK'
    BY ClientUnchanged DEF TypeOK, ClientTypeOK, Start, Listening
  <2>2. lapse' \in SUBSET {"unsound", "refused", "late"}
    BY LapseNoted DEF TypeOK, Start
  <2>3. events' \in 0 .. MaxEvents
    BY SocketAssumption DEF TypeOK, Start, CountEvent
  <2>4. company' \in SUBSET Processes
    BY DEF TypeOK, Start
  <2>5. proc' \in [Processes -> Stages] /\ (file \in Processes => Bound(file)')
    BY DEF TypeOK, Start, Become, Stages, Bound, Listening
  <2> QED BY <2>1, <2>2, <2>3, <2>4, <2>5 DEF TypeOK, ClientTypeOK, Start
<1>2. AloneIsAlone' /\ AloneKnows'
  BY DEF TypeOK, AloneIsAlone, AloneKnows, Alone, Knows, Alive, Start, Become
<1>3. CalledWhenSound'
  BY LapseNoted DEF TypeOK, Start
<1> QED BY <1>1, <1>2, <1>3

\* The steps of Service.Start that do not change the file.
LEMMA LookInvariant ==
    ASSUME IInv, NEW p \in Processes,
           Ranked(p) \/ StatFile(p) \/ Listen(p) \/ Chmod(p) \/ Publish(p) \/ Exit(p)
    PROVE  IInv'
<1> USE DEF IInv, Ranked, StatFile, Listen, Chmod, Publish, Exit
<1>1. TypeOK'
  <2>1. ClientTypeOK'
    BY ClientUnchanged DEF TypeOK, ClientTypeOK, Listening
  <2>2. lapse' \in SUBSET {"unsound", "refused", "late"}
    BY LapseNoted DEF TypeOK
  <2>3. proc' \in [Processes -> Stages] /\ (file \in Processes => Bound(file)')
    BY DEF TypeOK, Become, Stages, Bound, Listening
  <2> QED BY <2>1, <2>2, <2>3 DEF TypeOK, ClientTypeOK
<1>2. AloneIsAlone' /\ AloneKnows'
  BY SocketAssumption DEF TypeOK, AloneIsAlone, AloneKnows, Alone, Knows, Alive, Bound, Listening, Become
<1>3. CalledWhenSound'
  BY LapseNoted DEF TypeOK
<1> QED BY <1>1, <1>2, <1>3

\* os.Remove and bind: a process that is alone finds the file as it has
\* seen or left it.
LEMMA ChangeInvariant ==
    ASSUME IInv, NEW p \in Processes, RemoveFile(p) \/ Bind(p) PROVE IInv'
<1> USE DEF IInv, RemoveFile, Bind
<1>1. TypeOK'
  <2>1. ClientTypeOK'
    BY ClientUnchanged DEF TypeOK, ClientTypeOK, Listening
  <2>2. lapse' \in SUBSET {"unsound", "refused", "late"}
    BY LapseNoted DEF TypeOK
  <2>3. proc' \in [Processes -> Stages] /\ file' \in Processes \cup {NoFile, Dead}
    BY DEF TypeOK, Become, Stages
  <2>4. (file \in Processes => Bound(file))'
    BY SocketAssumption DEF TypeOK, Become, Bound, Listening
  <2> QED BY <2>1, <2>2, <2>3, <2>4 DEF TypeOK, ClientTypeOK
<1>2. AloneIsAlone'
  BY DEF TypeOK, AloneIsAlone, Alone, Alive, Become
<1>3. AloneKnows'
  BY SocketAssumption DEF TypeOK, AloneIsAlone, AloneKnows, Alone, Knows, Alive, Become
<1>4. CalledWhenSound'
  BY LapseNoted DEF TypeOK
<1> QED BY <1>1, <1>2, <1>3, <1>4

\* A process stops listening or ends: nobody that is alone loses its file,
\* since this one would be its company.
LEMMA EndInvariant ==
    ASSUME IInv, NEW p \in Processes, CloseListener(p) \/ Die(p) \/ Shutdown(p)
    PROVE  IInv'
<1> USE DEF IInv, CloseListener, Die, Shutdown
<1>1. TypeOK'
  <2>1. ClientTypeOK'
    BY DisconnectTypeOK DEF TypeOK, ClientTypeOK
  <2>2. lapse' \in SUBSET {"unsound", "refused", "late"}
    BY LapseNoted DEF TypeOK
  <2>3. events' \in 0 .. MaxEvents
    BY SocketAssumption DEF TypeOK, CountEvent
  <2>4. proc' \in [Processes -> Stages] /\ file' \in Processes \cup {NoFile, Dead}
    BY DEF TypeOK, Become, Stages, Abandoned
  <2>5. (file \in Processes => Bound(file))'
    BY SocketAssumption DEF TypeOK, Become, Bound, Listening, Abandoned
  <2> QED BY <2>1, <2>2, <2>3, <2>4, <2>5 DEF TypeOK, ClientTypeOK
<1>2. AloneIsAlone'
  BY DEF TypeOK, AloneIsAlone, Alone, Alive, Become
<1>3. AloneKnows'
  BY SocketAssumption
     DEF TypeOK, AloneIsAlone, AloneKnows, Alone, Knows, Alive, Become, Abandoned
<1>4. CalledWhenSound'
  BY LapseNoted DEF TypeOK
<1> QED BY <1>1, <1>2, <1>3, <1>4

\* The command changes nothing of the service.
LEMMA CommandInvariant ==
    ASSUME IInv, \/ Client
                 \/ \E S \in SUBSET VMs : Reassign(S)
                 \/ \E success \in BOOLEAN : Answer(success)
    PROVE  IInv'
<1> USE DEF IInv
<1>1. UNCHANGED fileVars
  BY DEF Client, Skip, Call, Dial, TimeOut, Reassign, Answer
<1>2. AloneIsAlone' /\ AloneKnows' /\ (Sound' <=> Sound)
  BY <1>1 DEF fileVars, AloneIsAlone, AloneKnows, Alone, Knows, Alive, Sound
<1>3. CASE \E S \in SUBSET VMs : Reassign(S)
  BY <1>1, <1>2, <1>3 DEF TypeOK, Reassign, CalledWhenSound, fileVars, Bound, Listening
<1>4. CASE Call
  BY <1>1, <1>2, <1>4 DEF TypeOK, Call, CalledWhenSound, fileVars, Bound, Listening
<1>5. CASE Dial /\ Reached
  BY <1>1, <1>2, <1>5 DEF Reached, TypeOK, Dial, CalledWhenSound, fileVars, Bound, Listening
<1>6. CASE (Dial /\ ~Reached) \/ Skip \/ TimeOut \/ \E success \in BOOLEAN : Answer(success)
  <2>1. ClientTypeOK' /\ cli' \notin {"dial", "wait"}
    <3>1. ClientTypeOK
      BY DEF TypeOK, ClientTypeOK
    <3>2. accepted' \in SUBSET VMs
      <4>1. todo # {} => Current \in todo
        BY MinimumInWork DEF TypeOK
      <4> QED BY <1>6, <4>1 DEF TypeOK, Dial, Skip, TimeOut, Answer
    <3> QED BY <1>6, <3>1, <3>2, LinePrinted DEF Dial, Skip, TimeOut, Answer
  <2>2. lapse' \in SUBSET {"unsound", "refused", "late"}
    BY <1>6 DEF TypeOK, Dial, Skip, TimeOut, Answer
  <2> QED BY <1>1, <1>2, <2>1, <2>2 DEF TypeOK, ClientTypeOK, CalledWhenSound, fileVars, Bound, Listening
<1> QED BY <1>3, <1>4, <1>5, <1>6 DEF Client

\* Every step of the system keeps the invariant.
LEMMA NextInvariant == IInv /\ [Next]_vars => IInv'
<1> SUFFICES ASSUME IInv, [Next]_vars PROVE IInv'
  OBVIOUS
<1>1. CASE UNCHANGED vars
  BY <1>1 DEF IInv, TypeOK, AloneIsAlone, AloneKnows, CalledWhenSound, Alone,
              Knows, Alive, Bound, Listening, Sound, vars, fileVars, cliVars
<1>2. ASSUME NEW p \in Processes, Start(p) \/ Run(p) \/ Die(p) \/ Shutdown(p)
      PROVE  IInv'
  BY <1>2, StartInvariant, LookInvariant, ChangeInvariant, EndInvariant DEF Run
<1>3. CASE \/ Client
           \/ \E S \in SUBSET VMs : Reassign(S)
           \/ \E success \in BOOLEAN : Answer(success)
  BY <1>3, CommandInvariant
<1> QED BY <1>1, <1>2, <1>3 DEF Next

\* The invariant holds in every state.
THEOREM Invariance == Spec => []IInv
<1>1. Init => IInv
  BY InitInvariant
<1>2. IInv /\ [Next]_vars => IInv'
  BY NextInvariant
<1> QED BY <1>1, <1>2, PTL DEF Spec

-----------------------------------------------------------------------------
(* What follows                                                            *)

\* Every variable has its type, and the command is connected only to a process
\* that listens: one that ends takes its socket and its connections with it.
THEOREM TypeCorrect == Spec => []TypeOK
<1>1. IInv => TypeOK
  BY DEF IInv
<1> QED BY <1>1, Invariance, PTL

\* Clients reach a process that serves and has been the only one since it
\* started, whatever its predecessors have left of their sockets.
THEOREM AloneReachable == Spec => []AloneIsReachable
<1>1. IInv => AloneIsReachable
  BY DEF IInv, AloneKnows, Alone, Alive, Knows, AloneIsReachable
<1> QED BY <1>1, Invariance, PTL

\* Service.Start does not fail in a process that has been the only one since it
\* started, neither for a socket of a killed one nor for none.
THEOREM AloneSucceeds == Spec => []AloneStarts
<1>1. IInv => AloneStarts
  BY DEF IInv, AloneKnows, Alone, Alive, Knows, AloneStarts
<1> QED BY <1>1, Invariance, PTL

\* What reassign prints about a VM is what the service has answered or would
\* not: "success" only if UpdateAffinity has returned no error for it since the
\* command began, "failed" only with a reason known.
THEOREM LinesAreTrue == Spec => LinesTrue
<1> DEFINE Lines ==
      \A v \in todo \ todo' :
         /\ report'[v] # "none"
         /\ report'[v] = "success" => v \in accepted'
         /\ report'[v] = "failed" => lapse' # {}
<1>1. IInv /\ [Next]_vars => [Lines]_vars
  <2> SUFFICES ASSUME IInv, Next, NEW v \in todo \ todo'
               PROVE  /\ report'[v] # "none"
                      /\ report'[v] = "success" => v \in accepted'
                      /\ report'[v] = "failed" => lapse' # {}
    OBVIOUS
  <2>1. v \in VMs /\ report \in [VMs -> {"none", "skipped", "failed", "success"}]
    BY DEF IInv, TypeOK
  <2>2. ASSUME NEW line, Report(Current, line), NextVM
        PROVE  v = Current /\ report'[v] = line
    BY <2>1, <2>2 DEF Report, NextVM
  <2>3. ASSUME NEW p \in Processes, Disconnect(p), NoteLapse,
               Become(p, "exit") \/ Become(p, "off"), Alive(p)
        PROVE  report'[v] = "failed" /\ lapse' # {}
    <3>1. cli = "wait" /\ conn = p /\ report'[v] = "failed"
      BY <2>2, <2>3 DEF Disconnect, cliVars
    <3>2. CASE lapse # {}
      BY <2>3, <3>1, <3>2 DEF NoteLapse
    <3>3. CASE lapse = {}
      <4>1. PICK q \in Processes : /\ proc[q] = "serving" /\ q \notin company
                                   /\ \A r \in Processes \ {q} : ~Alive(r)
        BY <3>1, <3>3 DEF IInv, CalledWhenSound, Sound
      <4>2. q = p
        BY <2>3, <4>1
      <4>3. ~Sound'
        BY <2>3, <4>1, <4>2 DEF IInv, TypeOK, Sound, Become, Alive
      <4> QED BY <2>3, <3>1, <4>3 DEF NoteLapse
    <3> QED BY <3>1, <3>2, <3>3
  <2>4. CASE \E p \in Processes : CloseListener(p) \/ Die(p) \/ Shutdown(p)
    BY <2>3, <2>4 DEF CloseListener, Die, Shutdown, Alive
  <2>5. CASE \E p \in Processes : \/ Start(p) \/ Ranked(p) \/ StatFile(p) \/ RemoveFile(p)
                                  \/ Bind(p) \/ Listen(p) \/ Chmod(p) \/ Publish(p) \/ Exit(p)
    BY <2>5 DEF Start, Ranked, StatFile, RemoveFile, Bind, Listen, Chmod, Publish, Exit, cliVars
  <2>6. CASE Skip \/ Call \/ TimeOut
    BY <2>2, <2>6 DEF Skip, Call, TimeOut
  <2>7. CASE Dial
    <3>1. ~Reached /\ report'[v] = "failed" /\ cli = "dial" /\ UNCHANGED lapse
      BY <2>2, <2>7 DEF Dial
    <3>2. ~Sound
      BY <3>1 DEF IInv, AloneKnows, Alone, Alive, Knows, Sound, Reached, Listening
    <3> QED BY <3>1, <3>2 DEF IInv, CalledWhenSound
  <2>8. CASE \E success \in BOOLEAN : Answer(success)
    BY <2>2, <2>8 DEF Answer
  <2>9. CASE \E S \in SUBSET VMs : Reassign(S)
    BY <2>9 DEF IInv, TypeOK, Reassign
  <2> QED BY <2>4, <2>5, <2>6, <2>7, <2>8, <2>9 DEF Next, Run, Client
<1>2. Spec => [][IInv /\ [Next]_vars]_vars
  BY Invariance, PTL DEF Spec
<1> QED BY <1>1, <1>2, PTL DEF LinesTrue

\* What the command has left of the VM in work.
StepsLeft == CASE cli = "idle"   -> 0
               [] cli = "wait"   -> 1
               [] cli = "dial"   -> 2
               [] cli = "config" -> 3

\* The command is done with one more VM, or comes nearer to it.
GetsOn ==
    \/ todo' \subseteq todo /\ todo' # todo
    \/ todo' = todo /\ StepsLeft' < StepsLeft

\* Whatever becomes of the service and its connections, reassign never returns
\* to a VM, nor to an earlier step for the same VM: it tries nothing twice, so
\* it is done after three steps for each VM at most.
THEOREM NoVMTwice == Spec => [][cli = "idle" \/ UNCHANGED <<cli, todo>> \/ GetsOn]_vars
<1>1. IInv /\ [Next]_vars => [cli = "idle" \/ UNCHANGED <<cli, todo>> \/ GetsOn]_vars
  <2> SUFFICES ASSUME IInv, Next, cli # "idle"
               PROVE  UNCHANGED <<cli, todo>> \/ GetsOn
    OBVIOUS
  <2>1. Current \in todo
    BY MinimumInWork DEF IInv, TypeOK
  <2>2. ASSUME NextVM PROVE GetsOn
    BY <2>1, <2>2 DEF NextVM, GetsOn
  <2>3. CASE \E p \in Processes : CloseListener(p) \/ Die(p) \/ Shutdown(p)
    BY <2>2, <2>3 DEF CloseListener, Die, Shutdown, Disconnect, cliVars
  <2>4. CASE \E p \in Processes : \/ Start(p) \/ Ranked(p) \/ StatFile(p) \/ RemoveFile(p)
                                  \/ Bind(p) \/ Listen(p) \/ Chmod(p) \/ Publish(p) \/ Exit(p)
    BY <2>4 DEF Start, Ranked, StatFile, RemoveFile, Bind, Listen, Chmod, Publish, Exit, cliVars
  <2>5. CASE Skip \/ TimeOut \/ \E success \in BOOLEAN : Answer(success)
    BY <2>2, <2>5 DEF Skip, TimeOut, Answer
  <2>6. CASE Call
    BY <2>6 DEF Call, GetsOn, StepsLeft
  <2>7. CASE Dial
    <3>1. CASE Reached
      BY <2>7, <3>1 DEF Dial, GetsOn, StepsLeft
    <3>2. CASE ~Reached
      BY <2>2, <2>7, <3>2 DEF Dial
    <3> QED BY <3>1, <3>2
  <2>8. CASE \E S \in SUBSET VMs : Reassign(S)
    BY <2>8 DEF Reassign
  <2> QED BY <2>3, <2>4, <2>5, <2>6, <2>7, <2>8 DEF Next, Run, Client
<1> QED BY <1>1, Invariance, PTL DEF Spec

-----------------------------------------------------------------------------
(* HookProtocol takes the service as a process that is off, ranks the CPUs or *)
(* serves.  One that nobody runs a second time by hand is: it serves from the *)
(* moment it listens on the socket, and no start of it fails.                 *)

\* What the hook knows of the service: HookProtocol, with no VM that starts.
CONSTANTS SocketRetry, SocketSleep, SocketTimeout, Deadline, MaxRanking,
          PingOnPreStart, Faults

Seen ==
    CASE proc[Unit] = "off" -> "off"
      [] proc[Unit] # "off" /\ (file = Unit /\ Listening(Unit)) -> "serving"
      [] proc[Unit] # "off" /\ ~(file = Unit /\ Listening(Unit)) -> "ranking"

NoVMs == [v \in {} |-> "off"]

Hooks == INSTANCE HookProtocol WITH
    VMs <- {}, service <- Seen,
    left <- IF Seen = "ranking" THEN MaxRanking ELSE 0,
    stage <- NoVMs, hook <- NoVMs, alive <- {}, abandoned <- {}, served <- {},
    ok <- {}, disturbed <- {}

\* A step after which the service is seen as before does not show.
LEMMA Unseen == UNCHANGED Seen => UNCHANGED Hooks!vars
BY DEF Hooks!vars, NoVMs

\* The changes that show are steps of HookProtocol.
LEMMA SeenReady == Seen = "ranking" /\ Seen' = "serving" => Hooks!Ready
BY DEF Hooks!Ready

LEMMA SeenStart == Seen = "off" /\ Seen' = "ranking" => Hooks!StartService
BY DEF Hooks!StartService

LEMMA SeenShutdown ==
    "stop" \in Faults /\ Seen # "off" /\ Seen' = "off" => Hooks!Shutdown
BY DEF Hooks!Shutdown, Hooks!Ends, Hooks!Starting, NoVMs

LEMMA SeenUnit ==
    ASSUME Processes = {Unit}, IInv, NEW p \in Processes, Alive(p), company = {}
    PROVE  p = Unit /\ Knows(Unit)
BY DEF IInv, AloneKnows, Alone, Alive

\* As long as it is run once only, the unit never has company.
NoCompany == Processes = {Unit} => company = {}

LEMMA NeverCompany == Spec => []NoCompany
<1>1. Init => NoCompany
  BY DEF Init, NoCompany
<1>2. IInv /\ NoCompany /\ [Next]_vars => NoCompany'
  <2> SUFFICES ASSUME Processes = {Unit}, company = {}, [Next]_vars PROVE company' = {}
    BY DEF NoCompany
  <2>1. ASSUME NEW p \in Processes, Start(p) PROVE company' = {}
    BY <2>1 DEF Start, Alive
  <2>2. ASSUME NEW p \in Processes, Run(p) \/ Die(p) \/ Shutdown(p) PROVE company' = {}
    BY <2>2 DEF Run, Ranked, StatFile, RemoveFile, Bind, Listen, Chmod, CloseListener, Publish,
                Exit, Die, Shutdown
  <2>3. CASE \/ Client
             \/ \E S \in SUBSET VMs : Reassign(S)
             \/ \E success \in BOOLEAN : Answer(success)
    BY <2>3 DEF Client, Skip, Call, Dial, TimeOut, Reassign, Answer, fileVars
  <2>4. CASE UNCHANGED vars
    BY <2>4 DEF vars, fileVars
  <2> QED BY <2>1, <2>2, <2>3, <2>4 DEF Next
<1> QED BY <1>1, <1>2, Invariance, PTL DEF Spec

\* What each step of the process looks like to the hook.
LEMMA SeenStep ==
    ASSUME Processes = {Unit}, "stop" \in Faults, IInv, company = {}, [Next]_vars
    PROVE  [Hooks!Next]_(Hooks!vars)
<1> USE DEF Become
<1>0. /\ Unit \in Processes /\ NoFile # Unit /\ Dead # Unit
      /\ proc \in [Processes -> Stages]
  BY SocketAssumption DEF IInv, TypeOK
<1>1. CASE Start(Unit)
  <2>1. Seen = "off" /\ Alive(Unit)'
    BY <1>0, <1>1 DEF Start, Seen, Alive
  <2>2. ~Listening(Unit)'
    BY <1>0, <1>1 DEF Start, Listening
  <2>3. Seen' = "ranking"
    BY <2>1, <2>2 DEF Seen, Alive
  <2> QED BY <2>1, <2>3, SeenStart DEF Hooks!Next
<1>2. CASE Ranked(Unit) \/ StatFile(Unit) \/ Chmod(Unit) \/ Publish(Unit)
  <2>1. UNCHANGED file /\ Alive(Unit) /\ Alive(Unit)'
    BY <1>0, <1>2 DEF Ranked, StatFile, Chmod, Publish, Alive
  <2>2. CASE Ranked(Unit) \/ StatFile(Unit)
    <3>1. ~Listening(Unit) /\ ~Listening(Unit)'
      BY <1>0, <2>2 DEF Ranked, StatFile, Listening
    <3> QED BY <2>1, <3>1, Unseen DEF Seen, Alive
  <2>3. CASE Chmod(Unit) \/ Publish(Unit)
    <3>1. file = Unit
      BY <2>1, <2>3, SeenUnit DEF Chmod, Publish, Knows
    <3>2. Listening(Unit) /\ Listening(Unit)'
      BY <1>0, <2>3, <3>1 DEF Chmod, Publish, Listening
    <3> QED BY <2>1, <3>2, Unseen DEF Seen, Alive
  <2> QED BY <1>2, <2>2, <2>3
<1>3. CASE RemoveFile(Unit)
  <2>1. file = Dead /\ Alive(Unit)
    BY <1>0, <1>3, SeenUnit DEF RemoveFile, Alive, Knows
  <2>2. file' = NoFile /\ Alive(Unit)'
    BY <1>0, <1>3 DEF RemoveFile, Alive
  <2> QED BY <1>0, <2>1, <2>2, Unseen DEF Seen, Alive
<1>4. CASE Bind(Unit)
  <2>1. /\ Alive(Unit) /\ Alive(Unit)'
        /\ ~Listening(Unit) /\ ~Listening(Unit)'
    BY <1>0, <1>4 DEF Bind, Alive, Listening
  <2> QED BY <2>1, Unseen DEF Seen, Alive
<1>5. CASE Listen(Unit)
  <2>1. file = Unit /\ ~Listening(Unit) /\ Alive(Unit)
    BY <1>0, <1>5, SeenUnit DEF Listen, Listening, Alive, Knows
  <2>2. file' = Unit /\ Listening(Unit)' /\ Alive(Unit)'
    BY <1>0, <1>5, <2>1 DEF Listen, Listening, Alive
  <2>3. Seen = "ranking" /\ Seen' = "serving"
    BY <1>0, <2>1, <2>2 DEF Seen, Alive
  <2> QED BY <2>3, SeenReady DEF Hooks!Next
<1>6. CASE CloseListener(Unit) \/ Exit(Unit)
  <2>1. Alive(Unit) /\ proc[Unit] \in {"close", "exit"}
    BY <1>6 DEF CloseListener, Exit, Alive
  <2> QED BY <1>0, <2>1, SeenUnit DEF Knows
<1>7. CASE Die(Unit) \/ Shutdown(Unit)
  <2>1. proc[Unit] # "off" /\ proc'[Unit] = "off"
    BY <1>0, <1>7 DEF Die, Shutdown, Alive
  <2>2. Seen # "off" /\ Seen' = "off"
    BY <2>1 DEF Seen
  <2> QED BY <2>2, SeenShutdown DEF Hooks!Next
<1>8. CASE \/ Client
           \/ \E S \in SUBSET VMs : Reassign(S)
           \/ \E success \in BOOLEAN : Answer(success)
  <2>1. UNCHANGED fileVars
    BY <1>8 DEF Client, Skip, Call, Dial, TimeOut, Reassign, Answer
  <2> QED BY <2>1, Unseen DEF Seen, fileVars, Listening
<1>9. CASE UNCHANGED vars
  BY <1>9, Unseen DEF Seen, vars, fileVars, Listening
<1> QED
  <2>1. ASSUME NEW p \in Processes, Start(p) \/ Run(p) \/ Die(p) \/ Shutdown(p)
        PROVE  [Hooks!Next]_(Hooks!vars)
    <3>1. p = Unit
      BY <2>1
    <3> QED BY <2>1, <3>1, <1>1, <1>2, <1>3, <1>4, <1>5, <1>6, <1>7 DEF Run
  <2> QED BY <2>1, <1>8, <1>9 DEF Next

\* HookProtocol has the service right: a process that nobody runs a second time
\* by hand behaves, whatever kills, fails and stops do to it and to its socket,
\* as the service that the hook meets there.
THEOREM SeenByHooks ==
    ASSUME Processes = {Unit}, "stop" \in Faults
    PROVE  Spec => Hooks!Spec
<1>1. Init => Hooks!Init
  BY SocketAssumption DEF Init, Hooks!Init, Seen, NoVMs
<1>2. IInv /\ NoCompany /\ [Next]_vars => [Hooks!Next]_(Hooks!vars)
  BY SeenStep DEF NoCompany
<1> QED BY <1>1, <1>2, Invariance, NeverCompany, PTL DEF Spec, Hooks!Spec

\* And a client that dials reaches a listener exactly when it is seen to serve.
THEOREM SeenIsReached ==
    ASSUME Processes = {Unit}
    PROVE  Spec => [](Reached <=> Seen = "serving")
<1>1. IInv => (Reached <=> Seen = "serving")
  BY SocketAssumption DEF IInv, TypeOK, Listening, Seen, Reached
<1> QED BY <1>1, Invariance, PTL

=============================================================================
