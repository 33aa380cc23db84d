----------------------------- MODULE Hookscript -----------------------------
(***************************************************************************)
(* proxmox-cpu-affinity hookscript enable, disable, enable-all and         *)
(* disable-all (cmd/cli/hookscript.go, cmd/cli/helper.go), against VM and  *)
(* HA configurations that an administrator changes at the same time.       *)
(*                                                                         *)
(* Every command that the tool runs (qm, ha-manager, the storage check) is *)
(* one action, so that the administrator can act between any two of them.  *)
(* A configuration is reduced to what the tool looks for in its text.      *)
(***************************************************************************)
EXTENDS Naturals, Sequences, SequencesExt

CONSTANTS
    VMIds,        \* the VMs of the node: an id is the sequence of its digits
    Commands,     \* the commands that are given, a subset of AllCommands
    MaxChanges,   \* bound: changes by the administrator during a command
    Faults        \* what may fail, a subset of AllFaults

AllCommands == {"enable", "disable", "enable-all", "disable-all"}

\* "tools": qm list, qm config or ha-manager fails, so that there is no text;
\* "set":   qm set fails, or the storage name is invalid.
AllFaults == {"tools", "set"}

ASSUME HookscriptAssumption ==
    /\ VMIds \subseteq Seq(0 .. 9)
    /\ Commands \subseteq AllCommands
    /\ MaxChanges \in Nat
    /\ Faults \subseteq AllFaults

VARIABLES
    conf,        \* per VM: its hookscript, affinity and template settings
    ha,          \* VMs that are HA resources
    step,        \* the command that the tool runs next, or "idle"
    cmd,         \* what the tool was called with
    todo,        \* VMs it has not come to
    vm,          \* the VM it is at
    text,        \* haConfigCache: {} or a set with the HA VMs it has read
    failed,      \* history: VMs for which qm failed or was not to be run
    staleHA,     \* history: VMs whose HA state is not as it was read
    staleConf,   \* history: VMs whose configuration is not as it was read
    changes      \* changes by the administrator in this command

hostVars == <<conf, ha, staleHA, staleConf, changes>>
vars == <<conf, ha, step, cmd, todo, vm, text, failed, staleHA, staleConf, changes>>

Configs == [hook : {"none", "ours", "other"}, affinity : BOOLEAN, template : BOOLEAN]
NoText == [hook |-> "none", affinity |-> FALSE, template |-> FALSE]

Single(c) == c.name \in {"enable", "disable"}
Enabling(c) == c.name \in {"enable", "enable-all"}

\* --force exists for enable and enable-all.
Calls == { c \in [name : Commands, vms : SUBSET VMIds, force : BOOLEAN, dryRun : BOOLEAN] :
             /\ c.force => Enabling(c)
             /\ IF Single(c) THEN \E v \in VMIds : c.vms = {v} ELSE c.vms = {} }

Steps == {"idle", "storage", "list", "next", "ha", "config", "set"}

Init ==
    /\ conf \in [VMIds -> Configs]
    /\ ha \in SUBSET VMIds
    /\ step = "idle"
    /\ cmd \in Calls
    /\ todo = {}
    /\ vm \in VMIds
    /\ text = {}
    /\ failed = {}
    /\ staleHA = {}
    /\ staleConf = {}
    /\ changes = 0

-----------------------------------------------------------------------------
(* The administrator                                                       *)

Change ==
    /\ step # "idle" /\ changes < MaxChanges
    /\ changes' = changes + 1
    /\ UNCHANGED <<step, cmd, todo, vm, text, failed>>

Configure(v) ==
    /\ Change
    /\ \E c \in Configs \ {conf[v]} : conf' = [conf EXCEPT ![v] = c]
    /\ staleConf' = staleConf \cup {v}
    /\ UNCHANGED <<ha, staleHA>>

ConfigureHA(v) ==
    /\ Change
    /\ ha' = IF v \in ha THEN ha \ {v} ELSE ha \cup {v}
    /\ staleHA' = staleHA \cup {v}
    /\ UNCHANGED <<conf, staleConf>>

-----------------------------------------------------------------------------
(* The tool                                                                *)

\* A new process: nothing is cached.
Begin(c) ==
    /\ step = "idle"
    /\ cmd' = c
    /\ step' = IF Enabling(c) THEN "storage" ELSE "list"
    /\ text' = {} /\ failed' = {}
    /\ staleHA' = {} /\ staleConf' = {} /\ changes' = 0
    /\ UNCHANGED <<conf, ha, todo, vm>>

\* checkStorage, whose failure --force ignores.
CheckStorage ==
    /\ step = "storage"
    /\ step' \in {"list"} \cup (IF cmd.force THEN {} ELSE {"idle"})
    /\ UNCHANGED <<cmd, todo, vm, text, failed, hostVars>>

\* getVMIDsFromQMList, or the VM given.  The order of the VMs is left open.
List ==
    /\ step = "list"
    /\ step' = "next"
    /\ \/ todo' = (IF Single(cmd) THEN cmd.vms ELSE VMIds) /\ failed' = failed
       \/ "tools" \in Faults /\ ~Single(cmd) /\ todo' = {} /\ failed' = VMIds
    /\ UNCHANGED <<cmd, vm, text, hostVars>>

NextVMKeeps ==
    /\ step = "next"
    /\ \E v \in todo : vm' = v /\ step' = "ha" /\ todo' = todo
    /\ UNCHANGED <<cmd, text, failed, hostVars>>

NextVM ==
    /\ step = "next"
    /\ \E v \in todo : vm' = v /\ step' = "ha" /\ todo' = todo \ {v}
    /\ UNCHANGED <<cmd, text, failed, hostVars>>

Finish ==
    /\ step = "next" /\ todo = {}
    /\ step' = "idle"
    /\ UNCHANGED <<cmd, todo, vm, text, failed, hostVars>>

\* ha-manager config is read for the first VM only, and an error counts as an
\* empty text.
ReadHAText ==
    \/ text # {} /\ UNCHANGED <<text, staleHA>>
    \/ text = {} /\ text' = {ha} /\ staleHA' = {}
    \/ "tools" \in Faults /\ text = {} /\ text' = {{}} /\ staleHA' = VMIds

\* The text has "vm: <id>" somewhere: as the line of v or of a longer id.
InHAText(v, t) == \E h \in t : IsPrefix(v, h)

CheckHAStops ==
    /\ step = "ha"
    /\ ReadHAText
    /\ IF \E t \in text' : InHAText(vm, t)
         THEN step' = "next" /\ todo' = {}
         ELSE step' = "config" /\ todo' = todo
    /\ UNCHANGED <<conf, ha, cmd, vm, failed, staleConf, changes>>

\* isHAVM.
CheckHA ==
    /\ step = "ha"
    /\ ReadHAText
    /\ step' = IF \E t \in text' : InHAText(vm, t) THEN "next" ELSE "config"
    /\ UNCHANGED <<conf, ha, cmd, todo, vm, failed, staleConf, changes>>

SkipsWithoutTemplates(c) ==
    \/ c.affinity
    \/ ~Single(cmd) /\ Enabling(cmd) /\ c.hook = "other" /\ ~cmd.force
    \/ ~Single(cmd) /\ ~Enabling(cmd) /\ c.hook # "ours"

\* What keeps the tool from a VM with this text: an affinity (hasAffinitySet),
\* and for all VMs also a template, another hookscript, or nothing to remove.
Skips(c) ==
    \/ c.affinity
    \/ ~Single(cmd) /\ c.template
    \/ ~Single(cmd) /\ Enabling(cmd) /\ c.hook = "other" /\ ~cmd.force
    \/ ~Single(cmd) /\ ~Enabling(cmd) /\ c.hook # "ours"

\* qm config; here too an error counts as an empty text.
ReadConfig ==
    /\ step = "config"
    /\ \/ /\ step' = IF Skips(conf[vm]) THEN "next" ELSE "set"
          /\ staleConf' = staleConf \ {vm}
       \/ /\ "tools" \in Faults
          /\ step' = IF Skips(NoText) THEN "next" ELSE "set"
          /\ staleConf' = staleConf \cup {vm}
    /\ UNCHANGED <<conf, ha, cmd, todo, vm, text, failed, staleHA, changes>>

\* updateVMHook: qm set --hookscript, or --delete hookscript.
UpdateVMHook ==
    /\ step = "set"
    /\ step' = "next"
    /\ \/ /\ ~cmd.dryRun
          /\ conf' = [conf EXCEPT ![vm].hook = IF Enabling(cmd) THEN "ours" ELSE "none"]
          /\ failed' = failed
       \/ /\ cmd.dryRun \/ "set" \in Faults
          /\ conf' = conf
          /\ failed' = failed \cup {vm}
    /\ UNCHANGED <<ha, cmd, todo, vm, text, staleHA, staleConf, changes>>

-----------------------------------------------------------------------------
Tool ==
    \/ \E c \in Calls : Begin(c)
    \/ CheckStorage \/ List \/ NextVM \/ Finish
    \/ CheckHA \/ ReadConfig \/ UpdateVMHook

Next ==
    \/ Tool
    \/ \E v \in VMIds : Configure(v) \/ ConfigureHA(v)

Spec == Init /\ [][Next]_vars

-----------------------------------------------------------------------------
(* Properties                                                              *)

\* Every variable has its type, and no VM is come to twice.
TypeOK ==
    /\ conf \in [VMIds -> Configs]
    /\ ha \in SUBSET VMIds
    /\ step \in Steps
    /\ cmd \in Calls
    /\ todo \in SUBSET VMIds
    /\ vm \in VMIds
    /\ step \in {"ha", "config", "set"} => vm \notin todo
    /\ text \in SUBSET SUBSET VMIds
    /\ failed \in SUBSET VMIds
    /\ staleHA \in SUBSET VMIds
    /\ staleConf \in SUBSET VMIds
    /\ changes \in 0 .. MaxChanges

\* The tool, not the administrator, gives VM v another hookscript or none.
Sets(v) == step = "set" /\ step' # step /\ conf'[v].hook # conf[v].hook
Stale == staleHA \cup staleConf

\* README, hookscript: HA and manual affinity are checked, templates are
\* ignored, existing scripts are not overwritten (or removed).  The commands
\* for one VM keep to the first two, those for all VMs to all of it unless
\* --force is given; except where what the tool had read, because the
\* administrator changed it or a command failed, is not what there is.
LeftAlone ==
    [][ \A v \in VMIds \ Stale : Sets(v) =>
          /\ v \notin ha /\ ~conf[v].affinity
          /\ ~Single(cmd) => /\ ~conf[v].template
                             /\ conf[v].hook = "other" => cmd.force ]_vars

\* README, hookscript: existing scripts are not overwritten.
ExistingScriptsKept ==
    [][ \A v \in VMIds \ Stale : Sets(v) /\ conf[v].hook = "other" => cmd.force ]_vars

\* The commands are for ALL VMs: when one ends, every VM that it has no
\* reason to leave alone has the hookscript, or not, as the command says;
\* skipping one VM does not end it for the others.
AllVMsDone ==
    [][ step = "next" /\ step' = "idle" =>
          \A v \in VMIds \ (Stale \cup failed \cup ha) :
             ~conf[v].template /\ ~conf[v].affinity =>
                CASE cmd.name = "enable-all" ->
                       conf[v].hook \in (IF cmd.force THEN {"ours"} ELSE {"ours", "other"})
                  [] cmd.name = "disable-all" -> conf[v].hook # "ours"
                  [] OTHER -> TRUE ]_vars

=============================================================================
