\* enable for one VM.
CONSTANTS
    VMIds <- Apart
    Commands = {"enable"}
    MaxChanges = 0
    Faults = {}
SPECIFICATION Spec
PROPERTIES ExistingScriptsKept
