SPECIFICATION FairSpec
CONSTANTS
    Layers = {"wasi", "g1", "g2"}
    AttachOrder <- StubsOrder
    Subscribed <- StubsWiring
    MaxLayers = 3
    Servers = {"g1", "g2"}
    Callers = {"c1", "c2"}
    CallerLayer <- OnWasi
    CallsOf <- EachOwn
    PublishesOf <- EachNone
    Requests = {"q1", "q2"}
    Payloads = {"good"}
    Closable = {}
    MaxId = 2
    MaxOps = 2
PROPERTY EveryCallReturns
CHECK_DEADLOCK FALSE
