\* Every fault at once: what the log promises whatever happens to its files.
SPECIFICATION Spec
CONSTANTS
    Events = {e1, e2, e3}
    Faults = {"torn", "halfCkpt", "powerLoss"}
SYMMETRY EventSymmetry
INVARIANTS TypeOK AckedStaysAcked
