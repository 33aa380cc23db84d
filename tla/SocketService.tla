--------------------------- MODULE SocketService ---------------------------
(***************************************************************************)
(* The life of the service's socket file, and a client that depends on it: *)
(* Start and Shutdown of pkg/service/service.go in processes that begin,   *)
(* fail, are killed and are stopped (cmd/service/main.go), and the reassign *)
(* command (cmd/cli/reassign.go, helper.go), one connection per VM.        *)
(*                                                                         *)
(* systemd runs one process and starts it again whenever it has ended; an  *)
(* administrator may run another one by hand.  Every system call on the    *)
(* file is an action.  A listener that is closed unlinks the path, whoever *)
(* has bound it since (package net of Go).                                 *)
(***************************************************************************)
EXTENDS Naturals, FiniteSets

CONSTANTS
    Processes,   \* the processes of the service
    Unit,        \* the one that systemd runs
    VMs,         \* the VM ids
    NoFile,      \* file: the path does not exist
    Dead,        \* file: nobody listens on the socket the path names
    MaxEvents    \* bound: how often processes are started by hand, stopped, fail

ASSUME SocketAssumption ==
    /\ Unit \in Processes
    /\ NoFile \notin Processes /\ Dead \notin Processes /\ NoFile # Dead
    /\ VMs \subseteq Nat /\ IsFiniteSet(VMs)
    /\ MaxEvents \in Nat

VARIABLES
    proc,      \* per process, how far it has come: see Stages
    file,      \* what the path of the socket names
    events,    \* how often processes have been started by hand, stopped, failed
    cli,       \* reassign: "idle", "config", "dial" or "wait"
    todo,      \* VMs it has not finished; the smallest is in work
    conn,      \* the process that it is connected to
    report,    \* per VM, the last line printed about it, "none" before that
    accepted,  \* history: VMs for which UpdateAffinity has returned no error since
               \* it began (which need not mean that they are pinned, see Pinning)
    company,   \* history: processes that have not been alone since they started
    lapse      \* history: why the service might not serve the VM in work

fileVars == <<proc, file, events, company>>
cliVars == <<cli, todo, conn, report, accepted>>
vars == <<fileVars, cliVars, lapse>>

Stages == {"off", "ranking", "stat", "remove", "bind", "listen", "chmod",
           "publish", "close", "exit", "serving"}

Alive(p) == proc[p] # "off"
Listening(p) == proc[p] \in {"chmod", "publish", "close", "serving"}
Bound(p) == proc[p] = "listen" \/ Listening(p)

\* One process serves, and there is no other and has been none.
Sound == \E p \in Processes : /\ proc[p] = "serving" /\ p \notin company
                              /\ \A q \in Processes \ {p} : ~Alive(q)

Init ==
    /\ proc = [p \in Processes |-> IF p = Unit THEN "ranking" ELSE "off"]
    /\ file \in {NoFile, Dead}
    /\ events = 0
    /\ cli = "idle" /\ todo = {} /\ conn = NoFile
    /\ report = [v \in VMs |-> "none"]
    /\ accepted = {}
    /\ company = {}
    /\ lapse = {}

-----------------------------------------------------------------------------
(* The processes                                                           *)

CountEvent == events < MaxEvents /\ events' = events + 1

Become(p, stage) == proc' = [proc EXCEPT ![p] = stage]

\* A moment at which the service is not as it should be.
NoteLapse == lapse' = IF Sound' THEN lapse ELSE lapse \cup {"unsound"}

\* A connection to a process that has ended is closed: the call fails.
Report(v, line) == report' = [report EXCEPT ![v] = line]
Current == CHOOSE v \in todo : \A w \in todo : v <= w

NextVM == /\ todo' = todo \ {Current}
          /\ cli' = IF todo' = {} THEN "idle" ELSE "config"
          /\ conn' = NoFile

Disconnect(p) ==
    IF cli = "wait" /\ conn = p
      THEN Report(Current, "failed") /\ NextVM /\ UNCHANGED accepted
      ELSE UNCHANGED cliVars

\* A socket nobody listens on any more stays in the file system.
Abandoned(p) == file' = IF file = p THEN Dead ELSE file

\* systemd starts its process; others are started by hand.
Start(p) ==
    /\ proc[p] = "off"
    /\ IF p = Unit THEN UNCHANGED events ELSE CountEvent
    /\ Become(p, "ranking")
    /\ LET others == { q \in Processes : Alive(q) }
       IN  company' = IF others = {} THEN company \ {p}
                                     ELSE company \cup others \cup {p}
    /\ UNCHANGED <<file, cliVars>>
    /\ NoteLapse

\* main: the first calculation is over and Service.Start begins.
Ranked(p) ==
    /\ proc[p] = "ranking"
    /\ Become(p, "stat")
    /\ UNCHANGED <<file, events, company, cliVars>>
    /\ NoteLapse

\* os.Stat
StatFile(p) ==
    /\ proc[p] = "stat"
    /\ Become(p, IF file = NoFile THEN "bind" ELSE "remove")
    /\ UNCHANGED <<file, events, company, cliVars>>
    /\ NoteLapse

RemoveFileNot(p) ==
    /\ proc[p] = "remove"
    /\ Become(p, "bind")
    /\ UNCHANGED <<file, events, company, cliVars>>
    /\ NoteLapse

\* os.Remove, of whatever is there now; it fails if that is gone.
RemoveFile(p) ==
    /\ proc[p] = "remove"
    /\ Become(p, IF file = NoFile THEN "exit" ELSE "bind")
    /\ file' = NoFile
    /\ UNCHANGED <<events, company, cliVars>>
    /\ NoteLapse

\* net.Listen, bind: it creates the file, or fails because there is one again.
Bind(p) ==
    /\ proc[p] = "bind"
    /\ Become(p, IF file = NoFile THEN "listen" ELSE "exit")
    /\ file' = IF file = NoFile THEN p ELSE file
    /\ UNCHANGED <<events, company, cliVars>>
    /\ NoteLapse

\* net.Listen, listen: only now the socket takes connections.
Listen(p) ==
    /\ proc[p] = "listen"
    /\ Become(p, "chmod")
    /\ UNCHANGED <<file, events, company, cliVars>>
    /\ NoteLapse

\* os.Chmod, of whatever is there now.
Chmod(p) ==
    /\ proc[p] = "chmod"
    /\ Become(p, IF file = NoFile THEN "close" ELSE "publish")
    /\ UNCHANGED <<file, events, company, cliVars>>
    /\ NoteLapse

\* After a failed chmod the listener is closed, which unlinks the path.
CloseListener(p) ==
    /\ proc[p] = "close"
    /\ Become(p, "exit")
    /\ file' = NoFile
    /\ Disconnect(p)
    /\ UNCHANGED <<events, company>>
    /\ NoteLapse

PublishRemovesStale(p) ==
    /\ proc[p] = "publish"
    /\ Become(p, "serving")
    /\ file' = NoFile
    /\ UNCHANGED <<events, company, cliVars>>
    /\ NoteLapse

\* s.listener = listener under the mutex, and the accept loop.
Publish(p) ==
    /\ proc[p] = "publish"
    /\ Become(p, "serving")
    /\ UNCHANGED <<file, events, company, cliVars>>
    /\ NoteLapse

ExitOnlyLogged(p) ==
    /\ proc[p] = "exit"
    /\ UNCHANGED vars

\* Start returned an error: os.Exit(1).
Exit(p) ==
    /\ proc[p] = "exit"
    /\ Become(p, "off")
    /\ UNCHANGED <<file, events, company, cliVars>>
    /\ NoteLapse

DieHangsClient(p) ==
    /\ CountEvent
    /\ Alive(p)
    /\ Become(p, "off")
    /\ Abandoned(p)
    /\ UNCHANGED <<company, cliVars>>
    /\ NoteLapse

\* The process dies, its calculation or an accept fails, or it is sent a
\* SIGTERM before the listener is published: Shutdown knows of none then.
Die(p) ==
    /\ CountEvent
    /\ Alive(p)
    /\ Become(p, "off")
    /\ Abandoned(p)
    /\ Disconnect(p)
    /\ UNCHANGED company
    /\ NoteLapse

\* SIGTERM: Shutdown closes the listener, which unlinks the path, and main
\* returns; it waits for no connection.
Shutdown(p) ==
    /\ CountEvent
    /\ proc[p] = "serving"
    /\ Become(p, "off")
    /\ file' = NoFile
    /\ Disconnect(p)
    /\ UNCHANGED company
    /\ NoteLapse

-----------------------------------------------------------------------------
(* reassign                                                                *)

\* Of one VM, or of those that have a pid file, which may be any.
Reassign(S) ==
    /\ cli = "idle" /\ S # {}
    /\ cli' = "config" /\ todo' = S
    /\ report' = [v \in VMs |-> "none"]
    /\ accepted' = {} /\ conn' = NoFile
    /\ UNCHANGED <<fileVars, lapse>>

\* qm config fails or the hook is not enabled.  (With --dry-run the command
\* does no more than this for any VM.)
Skip ==
    /\ cli = "config"
    /\ Report(Current, "skipped")
    /\ NextVM
    /\ UNCHANGED <<fileVars, accepted, lapse>>

Call ==
    /\ cli = "config"
    /\ cli' = "dial"
    /\ lapse' = IF Sound THEN {} ELSE {"unsound"}
    /\ UNCHANGED <<fileVars, todo, conn, report, accepted>>

\* net.DialTimeout: a socket that is listened on takes the connection, also
\* before anybody accepts it; one that is only bound refuses it.
Reached == file \in Processes /\ Listening(file)
Dial ==
    /\ cli = "dial"
    /\ IF Reached
         THEN cli' = "wait" /\ conn' = file /\ UNCHANGED <<todo, report>>
         ELSE Report(Current, "failed") /\ NextVM
    /\ UNCHANGED <<fileVars, accepted, lapse>>

AnswerStatusIgnored(success) ==
    /\ cli = "wait" /\ proc[conn] = "serving"
    /\ accepted' = IF success THEN accepted \cup {Current} ELSE accepted
    /\ lapse' = IF success THEN lapse ELSE lapse \cup {"refused"}
    /\ Report(Current, "success")
    /\ NextVM
    /\ UNCHANGED fileVars

\* handleConnection: UpdateAffinity succeeds or not, and the answer says so.
Answer(success) ==
    /\ cli = "wait" /\ proc[conn] = "serving"
    /\ accepted' = IF success THEN accepted \cup {Current} ELSE accepted
    /\ lapse' = IF success THEN lapse ELSE lapse \cup {"refused"}
    /\ Report(Current, IF success THEN "success" ELSE "failed")
    /\ NextVM
    /\ UNCHANGED fileVars

TimeOutRetries ==
    /\ cli = "wait"
    /\ cli' = "dial" /\ conn' = NoFile
    /\ lapse' = lapse \cup {"late"}
    /\ UNCHANGED <<fileVars, todo, report, accepted>>

\* The two seconds are over.  The service may carry the request out later,
\* which this module does not follow (see Pinning).
TimeOut ==
    /\ cli = "wait"
    /\ Report(Current, "failed")
    /\ NextVM
    /\ lapse' = lapse \cup {"late"}
    /\ UNCHANGED <<fileVars, accepted>>

-----------------------------------------------------------------------------
\* What a process does by itself.
Run(p) ==
    \/ Ranked(p) \/ StatFile(p) \/ RemoveFile(p) \/ Bind(p) \/ Listen(p)
    \/ Chmod(p) \/ CloseListener(p) \/ Publish(p) \/ Exit(p)

\* What the command does by itself, its deadline included.
Client == Skip \/ Call \/ Dial \/ TimeOut

Next ==
    \/ \E p \in Processes : Start(p) \/ Run(p) \/ Die(p) \/ Shutdown(p)
    \/ \E S \in SUBSET VMs : Reassign(S)
    \/ Client
    \/ \E success \in BOOLEAN : Answer(success)

Spec == Init /\ [][Next]_vars

\* Processes and the command run on; systemd starts its process again.
Fairness ==
    /\ \A p \in Processes : WF_vars(Run(p))
    /\ WF_vars(Start(Unit))
    /\ WF_vars(Client)

FairSpec == Spec /\ Fairness

-----------------------------------------------------------------------------
(* Properties                                                              *)

\* Every variable has its type; the path names a process only while that has the
\* socket bound, and the command is connected only to a process that listens.
TypeOK ==
    /\ proc \in [Processes -> Stages]
    /\ file \in Processes \cup {NoFile, Dead}
    /\ file \in Processes => Bound(file)
    /\ events \in 0 .. MaxEvents
    /\ cli \in {"idle", "config", "dial", "wait"}
    /\ todo \in SUBSET VMs /\ (cli = "idle" <=> todo = {})
    /\ IF cli = "wait" THEN conn \in Processes /\ Listening(conn) ELSE conn = NoFile
    /\ report \in [VMs -> {"none", "skipped", "failed", "success"}]
    /\ accepted \in SUBSET VMs
    /\ company \in SUBSET Processes
    /\ lapse \in SUBSET {"unsound", "refused", "late"}

\* A process that serves, and has been the only one since it started, is the
\* one that clients reach, whatever its predecessors left in the file system.
AloneIsReachable ==
    \A p \in Processes : proc[p] = "serving" /\ p \notin company => file = p

\* Neither a socket left by a killed process nor one just removed by a stopped
\* one makes the start of a process fail that is the only one.
AloneStarts ==
    \A p \in Processes : proc[p] \in {"close", "exit"} => p \in company

\* Once nobody starts, kills or stops processes any more, the unit ends up
\* serving, whatever sockets the others have left, bound or removed.
UnitComesUp == <>[](proc[Unit] = "serving")

\* Every VM that the command is done with has its line.  "success" is printed
\* only if UpdateAffinity has returned no error for the VM since the command
\* began.  (It returns none either when no CPUs could be selected or set, so
\* the line does not say that the VM is pinned: PinnedOrBlamed in Pinning says
\* when it is.)  "failed" is printed only if the service refused, was late, or
\* was not, or not alone, serving all the time since the command turned to the
\* VM.
LinesTrue ==
    [][\A v \in todo \ todo' :
         /\ report'[v] # "none"
         /\ report'[v] = "success" => v \in accepted'
         /\ report'[v] = "failed" => lapse' # {}]_vars

\* Whatever happens to the service, the command ends.
ReassignEnds == cli # "idle" ~> cli = "idle"

=============================================================================
