\* Durable with records that reach the file in part.
SPECIFICATION Spec
CONSTANTS
    Events = {e1, e2, e3}
    Faults = {"torn"}
INVARIANTS Durable
