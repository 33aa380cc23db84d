\* All the commands for two VMs, a change by the administrator meanwhile.
CONSTANTS
    VMIds <- Apart
    Commands = {"enable", "disable", "enable-all", "disable-all"}
    MaxChanges = 1
    Faults = {"tools", "set"}
SPECIFICATION Spec
INVARIANTS TypeOK
PROPERTIES LeftAlone AllVMsDone
