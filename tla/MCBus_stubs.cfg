SPECIFICATION FairSpec
CONSTANTS
    Layers = {"wasi", "g1", "g2"}
    AttachOrder <- StubsOrder
    Subscribed <- StubsWiring
    MaxLayers = 3
    Servers = {"g1", "g2"}
    Callers = {"c1"}
    CallerLayer <- OnWasi
    CallsOf <- EachAll
    PublishesOf <- EachNone
    Requests = {"q1", "q2"}
    Payloads = {"good", "bad", "huge"}
    Closable = {"wasi", "g1", "g2"}
    MaxId = 2
    MaxOps = 4
INVARIANTS
    NoMutualWrite
    OpenLayerIsServed
PROPERTIES
    CallReturns
    ClosedCallEnds
CHECK_DEADLOCK FALSE
