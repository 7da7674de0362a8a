\* One operation at a time; the shop dies and cannot be started again.
SPECIFICATION Spec
CONSTANTS
    Op = {o1}
    Stack = {s1, s2}
    None = None
    MaxCommands = 1
    MaxFaults = 2
    Faults = {"crash", "foreign", "database"}
INVARIANT
    DesiredFollowsOperator
