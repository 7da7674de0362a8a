SPECIFICATION Spec
CONSTANTS
    Op = {o1, o2}
    Stack = {s1, s2, s3}
    None = None
    MaxCommands = 2
    MaxFaults = 1
    Faults = {"crash", "wedge", "leader", "foreign", "database", "memory", "reboot"}
PROPERTY
    RefusedOnlyIfBusy
