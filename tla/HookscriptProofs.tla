-------------------------- MODULE HookscriptProofs --------------------------
(***************************************************************************)
(* Proofs about Hookscript, for every set of VM ids, any number of changes *)
(* by the administrator and any failures of the commands.                  *)
(***************************************************************************)
EXTENDS Hookscript, TLAPS

-----------------------------------------------------------------------------
(* Types                                                                   *)

LEMMA SetHook ==
    \A c \in Configs : \A h \in {"none", "ours"} :
        LET d == [c EXCEPT !.hook = h]
        IN  d \in Configs /\ d.hook = h /\ d.affinity = c.affinity /\ d.template = c.template
BY DEF Configs

\* What updateVMHook does to the configurations.
LEMMA Updated ==
    ASSUME TypeOK, UpdateVMHook
    PROVE  \/ /\ conf' = conf /\ failed' = failed \cup {vm}
           \/ /\ failed' = failed
              /\ conf' \in [VMIds -> Configs]
              /\ \A v \in VMIds \ {vm} : conf'[v] = conf[v]
              /\ conf'[vm].hook = IF Enabling(cmd) THEN "ours" ELSE "none"
<1> SUFFICES ASSUME conf' = [conf EXCEPT ![vm].hook = IF Enabling(cmd) THEN "ours" ELSE "none"]
             PROVE  /\ conf' \in [VMIds -> Configs]
                    /\ \A v \in VMIds \ {vm} : conf'[v] = conf[v]
                    /\ conf'[vm].hook = IF Enabling(cmd) THEN "ours" ELSE "none"
    BY DEF UpdateVMHook
<1> DEFINE h == IF Enabling(cmd) THEN "ours" ELSE "none"
<1>1. h \in {"none", "ours"}
    OBVIOUS
<1>2. vm \in VMIds /\ conf[vm] \in Configs /\ conf \in [VMIds -> Configs]
    BY DEF TypeOK
<1> HIDE DEF h
<1>3. [conf[vm] EXCEPT !.hook = h] \in Configs /\ [conf[vm] EXCEPT !.hook = h].hook = h
    BY <1>1, <1>2, SetHook
<1>4. conf' = [conf EXCEPT ![vm] = [conf[vm] EXCEPT !.hook = h]]
    BY DEF h
<1>5. /\ conf' \in [VMIds -> Configs]
      /\ \A v \in VMIds \ {vm} : conf'[v] = conf[v]
      /\ conf'[vm].hook = h
    BY <1>2, <1>3, <1>4
<1>6. QED
    BY <1>5 DEF h

LEMMA TypeStep == TypeOK /\ [Next]_vars => TypeOK'
<1> SUFFICES ASSUME TypeOK, [Next]_vars PROVE TypeOK'
    OBVIOUS
<1> USE HookscriptAssumption DEF TypeOK, hostVars, Steps
<1>1. ASSUME NEW v \in VMIds, Configure(v) PROVE TypeOK'
    BY <1>1 DEF Configure, Change
<1>2. ASSUME NEW v \in VMIds, ConfigureHA(v) PROVE TypeOK'
    BY <1>2 DEF ConfigureHA, Change
<1>3. ASSUME NEW c \in Calls, Begin(c) PROVE TypeOK'
    BY <1>3 DEF Begin
<1>4. CASE CheckStorage
    BY <1>4 DEF CheckStorage
<1>5. CASE List
  <2>1. todo' \in SUBSET VMIds
    BY <1>5 DEF List, Calls
  <2>2. QED
    BY <1>5, <2>1 DEF List
<1>6. CASE NextVM
    BY <1>6 DEF NextVM
<1>7. CASE Finish
    BY <1>7 DEF Finish
<1>8. CASE CheckHA
  <2>1. text' \in SUBSET SUBSET VMIds /\ staleHA' \in SUBSET VMIds
    BY <1>8 DEF CheckHA, ReadHAText
  <2>2. QED
    BY <1>8, <2>1 DEF CheckHA
<1>9. CASE ReadConfig
    BY <1>9 DEF ReadConfig
<1>10. CASE UpdateVMHook
  <2>1. conf' \in [VMIds -> Configs]
    BY <1>10, Updated
  <2>2. QED
    BY <1>10, <2>1 DEF UpdateVMHook
<1>11. CASE UNCHANGED vars
    BY <1>11 DEF vars
<1>12. QED
    BY <1>1, <1>2, <1>3, <1>4, <1>5, <1>6, <1>7, <1>8, <1>9, <1>10, <1>11 DEF Next, Tool

\* Every variable has its type, and no VM is come to twice in a command.
THEOREM TypeCorrect == Spec => []TypeOK
<1>1. Init => TypeOK
    BY HookscriptAssumption DEF Init, TypeOK, Steps
<1>2. QED
    BY <1>1, TypeStep, PTL DEF Spec

-----------------------------------------------------------------------------
(* What the tool knows of the VM it is at, and of those behind it          *)

\* The text names every HA resource, and nothing else, but for what has
\* changed since.
TextKnown == \A h \in text : \A v \in VMIds \ staleHA : v \in h <=> v \in ha

\* No VM is past the check of HA before the text has been read.
TextFirst ==
    text = {} => /\ step \notin {"config", "set"}
                 /\ step \in {"next", "ha"} =>
                       \/ Single(cmd) \/ failed = VMIds
                       \/ VMIds \subseteq todo \cup (IF step = "ha" THEN {vm} ELSE {})

CheckedHA == step \in {"config", "set"} => vm \notin ha \ staleHA

CheckedConf == step = "set" => vm \in staleConf \/ ~Skips(conf[vm])

\* The tool has dealt with v.
Behind(v) ==
    /\ step \in {"next", "ha", "config", "set"}
    /\ v \notin todo
    /\ step # "next" => v # vm

\* v has what the command is about, or a reason not to.
Right(v) ==
    \/ v \in Stale \cup failed \cup ha
    \/ conf[v].template \/ conf[v].affinity
    \/ CASE cmd.name = "enable-all" ->
              conf[v].hook \in (IF cmd.force THEN {"ours"} ELSE {"ours", "other"})
         [] cmd.name = "disable-all" -> conf[v].hook # "ours"
         [] OTHER -> TRUE

RightBehind == \A v \in VMIds : Behind(v) => Right(v)

IInv == TypeOK /\ TextKnown /\ TextFirst /\ CheckedHA /\ CheckedConf

LEMMA OwnId == \A v \in VMIds : IsPrefix(v, v)
BY HookscriptAssumption DEF IsPrefix

\* An HA resource is found by its own id.
LEMMA FoundInText ==
    \A v \in VMIds : \A t : v \in t => InHAText(v, t)
BY OwnId DEF InHAText

\* The text after ReadHAText is not empty, and is that of the HA resources.
LEMMA ReadStep ==
    ASSUME TypeOK, TextKnown, ReadHAText, ha' = ha
    PROVE  text' # {} /\ TextKnown'
BY DEF ReadHAText, TextKnown, TypeOK

LEMMA TextKnownStep == TypeOK /\ TextKnown /\ [Next]_vars => TextKnown'
<1> SUFFICES ASSUME TypeOK, TextKnown, [Next]_vars PROVE TextKnown'
    OBVIOUS
<1> USE DEF hostVars
<1>1. ASSUME NEW v \in VMIds, Configure(v) PROVE TextKnown'
    BY <1>1 DEF Configure, Change, TextKnown
<1>2. ASSUME NEW v \in VMIds, ConfigureHA(v) PROVE TextKnown'
    BY <1>2 DEF ConfigureHA, Change, TextKnown
<1>3. ASSUME NEW c \in Calls, Begin(c) PROVE TextKnown'
    BY <1>3 DEF Begin, TextKnown
<1>4. CASE CheckHA
    BY <1>4, ReadStep DEF CheckHA
<1>5. ASSUME UNCHANGED <<text, ha, staleHA>> PROVE TextKnown'
    BY <1>5 DEF TextKnown
<1>6. QED
    BY <1>1, <1>2, <1>3, <1>4, <1>5
       DEF Next, Tool, CheckStorage, List, NextVM, Finish, ReadConfig, UpdateVMHook, vars

LEMMA TextFirstStep == TypeOK /\ TextKnown /\ TextFirst /\ [Next]_vars => TextFirst'
<1> SUFFICES ASSUME TypeOK, TextKnown, TextFirst, [Next]_vars PROVE TextFirst'
    OBVIOUS
<1> USE DEF hostVars
<1>1. ASSUME NEW v \in VMIds, Configure(v) \/ ConfigureHA(v) PROVE TextFirst'
    BY <1>1 DEF Configure, ConfigureHA, Change, TextFirst, Single
<1>2. ASSUME NEW c \in Calls, Begin(c) PROVE TextFirst'
    BY <1>2 DEF Begin, TextFirst
<1>3. CASE CheckStorage
    BY <1>3 DEF CheckStorage, TextFirst
<1>4. CASE List
    BY <1>4 DEF List, TextFirst, Single
<1>5. CASE NextVM
    BY <1>5 DEF NextVM, TextFirst, Single
<1>6. CASE Finish
    BY <1>6 DEF Finish, TextFirst
<1>7. CASE CheckHA
    BY <1>7, ReadStep DEF CheckHA, TextFirst
<1>8. CASE ReadConfig \/ UpdateVMHook
    BY <1>8 DEF ReadConfig, UpdateVMHook, TextFirst
<1>9. CASE UNCHANGED vars
    BY <1>9 DEF vars, TextFirst, Single
<1>10. QED
    BY <1>1, <1>2, <1>3, <1>4, <1>5, <1>6, <1>7, <1>8, <1>9 DEF Next, Tool

LEMMA CheckedHAStep == TypeOK /\ TextKnown /\ CheckedHA /\ [Next]_vars => CheckedHA'
<1> SUFFICES ASSUME TypeOK, TextKnown, CheckedHA, [Next]_vars PROVE CheckedHA'
    OBVIOUS
<1> USE DEF hostVars
<1>1. ASSUME NEW v \in VMIds, Configure(v) PROVE CheckedHA'
    BY <1>1 DEF Configure, Change, CheckedHA
<1>2. ASSUME NEW v \in VMIds, ConfigureHA(v) PROVE CheckedHA'
    BY <1>2 DEF ConfigureHA, Change, CheckedHA
<1>3. CASE CheckHA
  <2>1. SUFFICES ASSUME step' = "config" PROVE vm \notin ha \ staleHA'
    BY <1>3 DEF CheckHA, CheckedHA
  <2>2. ~(\E t \in text' : InHAText(vm, t))
    BY <1>3, <2>1 DEF CheckHA
  <2>3. PICK t \in text' : TRUE
    BY <1>3, ReadStep DEF CheckHA
  <2>4. TextKnown' /\ ha' = ha /\ vm \in VMIds /\ vm \notin t
    BY <1>3, <2>2, <2>3, ReadStep, FoundInText DEF CheckHA, TypeOK
  <2>5. QED
    BY <2>3, <2>4 DEF TextKnown
<1>4. CASE ReadConfig
    BY <1>4 DEF ReadConfig, CheckedHA
<1>5. CASE UpdateVMHook
    BY <1>5 DEF UpdateVMHook, CheckedHA
<1>6. ASSUME NEW c \in Calls, Begin(c) PROVE CheckedHA'
    BY <1>6 DEF Begin, CheckedHA
<1>7. CASE CheckStorage \/ List \/ NextVM \/ Finish
    BY <1>7 DEF CheckStorage, List, NextVM, Finish, CheckedHA
<1>8. CASE UNCHANGED vars
    BY <1>8 DEF vars, CheckedHA
<1>9. QED
    BY <1>1, <1>2, <1>3, <1>4, <1>5, <1>6, <1>7, <1>8 DEF Next, Tool

LEMMA CheckedConfStep == TypeOK /\ CheckedConf /\ [Next]_vars => CheckedConf'
<1> SUFFICES ASSUME TypeOK, CheckedConf, [Next]_vars PROVE CheckedConf'
    OBVIOUS
<1> USE DEF hostVars
<1>1. ASSUME NEW v \in VMIds, Configure(v) PROVE CheckedConf'
  <2>1. CASE v = vm
    BY <1>1, <2>1 DEF Configure, Change, CheckedConf
  <2>2. CASE v # vm
    <3>1. conf'[vm] = conf[vm] /\ vm' = vm /\ cmd' = cmd /\ step' = step
      BY <1>1, <2>2 DEF Configure, Change, TypeOK
    <3>2. QED
      BY <1>1, <3>1 DEF Configure, CheckedConf, Skips, Single, Enabling
  <2>3. QED
    BY <2>1, <2>2
<1>2. ASSUME UNCHANGED <<step, conf, vm, cmd, staleConf>> PROVE CheckedConf'
    BY <1>2 DEF CheckedConf, Skips, Single, Enabling
<1>3. ASSUME NEW v \in VMIds, ConfigureHA(v)
      PROVE  UNCHANGED <<step, conf, vm, cmd, staleConf>>
    BY <1>3 DEF ConfigureHA, Change
<1>4. CASE ReadConfig
    BY <1>4 DEF ReadConfig, CheckedConf, Skips, Single, Enabling
<1>5. CASE UpdateVMHook
    BY <1>5 DEF UpdateVMHook, CheckedConf
<1>6. ASSUME NEW c \in Calls, Begin(c) PROVE CheckedConf'
    BY <1>6 DEF Begin, CheckedConf
<1>7. CASE CheckStorage \/ List \/ NextVM \/ Finish \/ CheckHA
    BY <1>7 DEF CheckStorage, List, NextVM, Finish, CheckHA, CheckedConf
<1>8. CASE UNCHANGED vars
    BY <1>2, <1>8 DEF vars
<1>9. QED
    BY <1>1, <1>2, <1>3, <1>4, <1>5, <1>6, <1>7, <1>8 DEF Next, Tool

LEMMA Invariance == Spec => []IInv
<1>1. Init => IInv
    BY HookscriptAssumption DEF Init, IInv, TypeOK, Steps, TextKnown, TextFirst,
                                CheckedHA, CheckedConf
<1>2. IInv /\ [Next]_vars => IInv'
    BY TypeStep, TextKnownStep, TextFirstStep, CheckedHAStep, CheckedConfStep DEF IInv
<1>3. QED
    BY <1>1, <1>2, PTL DEF Spec

-----------------------------------------------------------------------------
(* What is left alone                                                      *)

\* Only updateVMHook sets a hookscript, and only for the VM the tool is at.
LEMMA OnlyUpdateSets ==
    ASSUME TypeOK, [Next]_vars, NEW v \in VMIds, Sets(v)
    PROVE  UpdateVMHook /\ v = vm
<1> USE DEF Sets, hostVars
<1>1. UpdateVMHook
    BY DEF Next, Tool, Configure, ConfigureHA, Change, Begin, CheckStorage, List, NextVM,
           Finish, CheckHA, ReadConfig, vars
<1>2. v = vm
    BY <1>1, Updated
<1>3. QED
    BY <1>1, <1>2

\* One step of LeftAlone.
LEMMA SetIsAllowed ==
    ASSUME IInv, [Next]_vars, NEW v \in VMIds \ Stale, Sets(v)
    PROVE  /\ v \notin ha /\ ~conf[v].affinity
           /\ ~Single(cmd) => /\ ~conf[v].template
                              /\ conf[v].hook = "other" => cmd.force
<1>1. step = "set" /\ v = vm
    BY OnlyUpdateSets DEF IInv, UpdateVMHook
<1>2. v \notin ha /\ ~Skips(conf[v])
    BY <1>1 DEF IInv, CheckedHA, CheckedConf, Stale
<1>3. QED
    BY <1>2 DEF Skips

\* Whatever the administrator changes and whichever commands fail, the tool
\* sets no hookscript of a VM that it knows to be an HA resource, to have an
\* affinity or (for all VMs) to be a template or to have another script.
THEOREM OthersLeftAlone == Spec => LeftAlone
<1>1. IInv /\ [Next]_vars =>
         [ \A v \in VMIds \ Stale : Sets(v) =>
             /\ v \notin ha /\ ~conf[v].affinity
             /\ ~Single(cmd) => /\ ~conf[v].template
                                /\ conf[v].hook = "other" => cmd.force ]_vars
    BY SetIsAllowed
<1>2. QED
    BY <1>1, Invariance, PTL DEF Spec, LeftAlone

-----------------------------------------------------------------------------
(* What is done for all VMs                                                *)

\* No id is the beginning of another one.
PrefixFree == \A v, w \in VMIds : IsPrefix(v, w) => v = w

\* Being right is only lost by changes that make a VM stale.
LEMMA RightKept ==
    ASSUME NEW v \in VMIds, Right(v), conf'[v] = conf[v], cmd' = cmd,
           v \in failed => v \in failed', v \in ha \/ v \in Stale => v \in ha' \/ v \in Stale'
    PROVE  Right(v)'
BY DEF Right

LEMMA BehindKept ==
    ASSUME NEW v \in VMIds, Behind(v)', UNCHANGED <<step, todo, vm>>
    PROVE  Behind(v)
BY DEF Behind

\* The check of HA passes over a VM only if it is an HA resource.
LEMMA PassedOver ==
    ASSUME IInv, PrefixFree, CheckHA, step' = "next"
    PROVE  vm \in ha \cup staleHA'
<1>1. PICK t \in text' : InHAText(vm, t)
    BY DEF CheckHA
<1>2. TextKnown' /\ ha' = ha /\ vm \in VMIds
    BY ReadStep DEF CheckHA, IInv, TypeOK
<1>3. t \subseteq VMIds
    BY <1>1, TypeStep DEF CheckHA, ReadHAText, IInv, TypeOK
<1>4. vm \in t
    BY <1>1, <1>2, <1>3 DEF InHAText, PrefixFree
<1>5. QED
    BY <1>1, <1>2, <1>4 DEF TextKnown

LEMMA RightAfterCheckHA ==
    ASSUME IInv, RightBehind, PrefixFree, CheckHA, NEW v \in VMIds, Behind(v)'
    PROVE  Right(v)'
<1>0. /\ UNCHANGED <<conf, ha, cmd, todo, vm, failed, staleConf>> /\ step = "ha"
      /\ step' = "next" \/ step' = "config"
    BY DEF CheckHA
<1>1. CASE v = vm
  <2>1. step' = "next"
    BY <1>0, <1>1 DEF Behind
  <2>2. QED
    BY <1>0, <1>1, <2>1, PassedOver DEF Right, Stale
<1>2. CASE v # vm
  <2>1. Behind(v)
    BY <1>0, <1>2 DEF Behind
  <2>2. Right(v)
    BY <2>1 DEF RightBehind
  <2>3. CASE v \in staleHA => v \in staleHA'
    BY <1>0, <2>2, <2>3, RightKept DEF Stale
  <2>4. CASE text = {} /\ ~Single(cmd)
    <3>1. v \in failed
      BY <1>0, <1>2, <2>1, <2>4 DEF IInv, TextFirst, Behind
    <3>2. QED
      BY <1>0, <3>1 DEF Right
  <2>5. CASE Single(cmd)
    BY <1>0, <2>5 DEF Right, Single
  <2>6. QED
    BY <2>3, <2>4, <2>5 DEF CheckHA, ReadHAText
<1>3. QED
    BY <1>1, <1>2

LEMMA RightAfterReadConfig ==
    ASSUME IInv, RightBehind, ReadConfig, NEW v \in VMIds, Behind(v)'
    PROVE  Right(v)'
<1>0. /\ UNCHANGED <<conf, ha, cmd, todo, vm, failed, staleHA>> /\ step = "config"
      /\ \A w \in VMIds \ {vm} : w \in staleConf => w \in staleConf'
    BY DEF ReadConfig
<1>1. CASE v = vm
  <2>1. step' = "next"
    BY <1>0, <1>1 DEF Behind, ReadConfig
  <2>2. v \in staleConf' \/ Skips(conf[v])
    BY <1>1, <2>1 DEF ReadConfig
  <2>3. Skips(conf[v]) => Right(v)'
    BY <1>0 DEF Right, Skips, Single, Enabling
  <2>4. QED
    BY <2>2, <2>3 DEF Right, Stale
<1>2. CASE v # vm
  <2>1. Behind(v)
    BY <1>0, <1>2 DEF Behind
  <2>2. QED
    BY <1>0, <1>2, <2>1, RightKept DEF RightBehind, Stale
<1>3. QED
    BY <1>1, <1>2

LEMMA RightAfterUpdate ==
    ASSUME IInv, RightBehind, UpdateVMHook, NEW v \in VMIds, Behind(v)'
    PROVE  Right(v)'
<1>0. UNCHANGED <<ha, cmd, todo, vm, text, staleHA, staleConf>> /\ step = "set"
    BY DEF UpdateVMHook
<1>1. CASE v = vm
  <2>1. CASE failed' = failed \cup {vm}
    BY <1>1, <2>1 DEF Right
  <2>2. CASE conf'[vm].hook = IF Enabling(cmd) THEN "ours" ELSE "none"
    BY <1>0, <1>1, <2>2 DEF Right, Enabling
  <2>3. QED
    BY <2>1, <2>2, Updated DEF IInv
<1>2. CASE v # vm
  <2>1. Behind(v)
    BY <1>0, <1>2 DEF Behind
  <2>2. conf'[v] = conf[v] /\ (v \in failed => v \in failed')
    BY <1>2, Updated DEF IInv
  <2>3. QED
    BY <1>0, <2>1, <2>2, RightKept DEF RightBehind, Stale
<1>3. QED
    BY <1>1, <1>2

LEMMA RightBehindStep == IInv /\ RightBehind /\ PrefixFree /\ [Next]_vars => RightBehind'
<1> SUFFICES ASSUME IInv, RightBehind, PrefixFree, [Next]_vars, NEW v \in VMIds, Behind(v)'
             PROVE  Right(v)'
    BY DEF RightBehind
<1> USE DEF hostVars
<1>1. ASSUME NEW w \in VMIds, Configure(w) PROVE Right(v)'
  <2>1. Right(v) /\ UNCHANGED <<ha, staleHA, failed, cmd>> /\ staleConf' = staleConf \cup {w}
    BY <1>1, BehindKept DEF Configure, Change, RightBehind
  <2>2. CASE v = w
    BY <2>1, <2>2 DEF Right, Stale
  <2>3. CASE v # w
    <3>1. conf'[v] = conf[v]
      BY <1>1, <2>3 DEF Configure, IInv, TypeOK
    <3>2. QED
      BY <2>1, <3>1, RightKept DEF Stale
  <2>4. QED
    BY <2>2, <2>3
<1>2. ASSUME NEW w \in VMIds, ConfigureHA(w) PROVE Right(v)'
  <2>1. Right(v) /\ UNCHANGED <<conf, staleConf, failed, cmd>> /\ staleHA' = staleHA \cup {w}
    BY <1>2, BehindKept DEF ConfigureHA, Change, RightBehind
  <2>2. v \in ha => v \in ha' \/ v \in staleHA'
    BY <1>2 DEF ConfigureHA
  <2>3. QED
    BY <2>1, <2>2, RightKept DEF Stale
<1>3. ASSUME NEW c \in Calls, Begin(c) PROVE Right(v)'
    BY <1>3 DEF Begin, Behind
<1>4. CASE CheckStorage \/ Finish
    BY <1>4 DEF CheckStorage, Finish, Behind
<1>5. CASE List
  <2>1. Single(cmd) \/ failed' = VMIds
    BY <1>5 DEF List, Behind
  <2>2. QED
    BY <1>5, <2>1 DEF List, Right, Single
<1>6. CASE NextVM
  <2>1. Behind(v)
    BY <1>6 DEF NextVM, Behind
  <2>2. QED
    BY <1>6, <2>1, RightKept DEF NextVM, RightBehind, Stale
<1>7. CASE CheckHA
    BY <1>7, RightAfterCheckHA
<1>8. CASE ReadConfig
    BY <1>8, RightAfterReadConfig
<1>9. CASE UpdateVMHook
    BY <1>9, RightAfterUpdate
<1>10. CASE UNCHANGED vars
  <2>1. Right(v) /\ UNCHANGED <<conf, ha, cmd, failed, staleHA, staleConf>>
    BY <1>10, BehindKept DEF vars, RightBehind
  <2>2. QED
    BY <2>1, RightKept DEF Stale
<1>11. QED
    BY <1>1, <1>2, <1>3, <1>4, <1>5, <1>6, <1>7, <1>8, <1>9, <1>10 DEF Next, Tool

\* One step of AllVMsDone.
LEMMA EndsRight ==
    ASSUME IInv, RightBehind, [Next]_vars, step = "next", step' = "idle",
           NEW v \in VMIds \ (Stale \cup failed \cup ha),
           ~conf[v].template, ~conf[v].affinity
    PROVE  CASE cmd.name = "enable-all" ->
                  conf[v].hook \in (IF cmd.force THEN {"ours"} ELSE {"ours", "other"})
             [] cmd.name = "disable-all" -> conf[v].hook # "ours"
             [] OTHER -> TRUE
<1>1. Finish
    BY DEF Next, Tool, Configure, ConfigureHA, Change, Begin, CheckStorage, List, NextVM,
           CheckHA, ReadConfig, UpdateVMHook, vars
<1>2. Behind(v)
    BY <1>1 DEF Finish, Behind
<1>3. QED
    BY <1>2 DEF RightBehind, Right

\* If no id is the beginning of another one, enable-all and disable-all
\* reach every VM they have no reason to leave alone, for every number of
\* VMs.  (The run hookscript_prefix shows that the condition is needed.)
THEOREM AllDone ==
    ASSUME PrefixFree
    PROVE  Spec => AllVMsDone
<1>1. Init => RightBehind
    BY DEF Init, RightBehind, Behind
<1>2. IInv /\ RightBehind /\ [Next]_vars => RightBehind'
    BY RightBehindStep
<1>3. IInv /\ RightBehind /\ [Next]_vars =>
         [ step = "next" /\ step' = "idle" =>
             \A v \in VMIds \ (Stale \cup failed \cup ha) :
                ~conf[v].template /\ ~conf[v].affinity =>
                   CASE cmd.name = "enable-all" ->
                          conf[v].hook \in (IF cmd.force THEN {"ours"} ELSE {"ours", "other"})
                     [] cmd.name = "disable-all" -> conf[v].hook # "ours"
                     [] OTHER -> TRUE ]_vars
    BY EndsRight
<1>4. QED
    BY <1>1, <1>2, <1>3, Invariance, PTL DEF Spec, AllVMsDone

=============================================================================
