\* One operation at a time under fair scheduling, two faults: the shop comes back.
SPECIFICATION RevivalSpec
CONSTANTS
    Op = {o1}
    Stack = {s1, s2}
    None = None
    MaxCommands = 2
    MaxFaults = 2
    Faults = {"crash", "wedge", "leader", "foreign", "database", "kill", "memory", "reboot"}
PROPERTY
    Revived
