SPECIFICATION Spec

CONSTANTS
    Interval = 4
    Base = 1
    Most = 6
    MaxTime = 32
    MaxFailures = 4

CHECK_DEADLOCK FALSE

INVARIANTS
    PhaseKept
    TickedThisInterval

PROPERTIES
    OneTickAnInterval
