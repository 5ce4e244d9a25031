\* No torn record and no half-done checkpoint; crashes and power loss remain.
SPECIFICATION Spec
CONSTANTS
    Events = {e1, e2, e3}
    Faults = {"powerLoss"}
INVARIANTS Durable
PROPERTIES LogSpec
