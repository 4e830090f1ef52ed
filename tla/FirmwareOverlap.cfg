SPECIFICATION Spec
CONSTANTS
    Callers = {p1, p2}
    Firmwares = {f1}
    Tasks = {t1}
    Devices = {d1, d2}
    Targets <- MCTargets
    Concurrency <- MCConcurrency
    MaxReceipts = 3
    Drivers = {"memory", "postgres"}
    None = None
SYMMETRY Symmetry
INVARIANTS ActiveBounded GivenToOwner FailureRollsBack
PROPERTIES OverTaskIsSealed CompletedIsSealed
