\* Two operations at a time, both watchdogs, every fault.
SPECIFICATION Spec
CONSTANTS
    Op = {o1, o2}
    Stack = {s1, s2, s3}
    None = None
    MaxCommands = 2
    MaxFaults = 1
    Faults = {"crash", "wedge", "leader", "foreign", "database", "kill", "memory", "reboot"}
SYMMETRY Symmetry
CONSTRAINT OneDisturbance
INVARIANTS
    TypeOK
    StacksTracked
    StoppedMeansDown
    OperatorStopSticks
