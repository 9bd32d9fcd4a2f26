SPECIFICATION Spec
CONSTANTS
    Workers = {w1, w2}
    MaxHandles = 2
    Kinds = {"socket", "process", "tls"}
    Discipline = {"release", "stdin"}
SYMMETRY WorkerSymmetry
INVARIANTS
    ClosedExactlyOnce
    NoDanglingEntry
    NoStaleUse
PROPERTIES
    ReleasedStaysReleased
