\* A VM id that another one begins with.
CONSTANTS
    VMIds <- Prefixed
    Commands = {"enable-all"}
    MaxChanges = 0
    Faults = {}
SPECIFICATION Spec
PROPERTIES AllVMsDone
