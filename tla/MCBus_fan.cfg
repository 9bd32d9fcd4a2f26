SPECIFICATION Spec
CONSTANTS
    Layers = {"wasi", "g1", "g2", "g3"}
    AttachOrder <- FanOrder
    Subscribed <- FanWiring
    MaxLayers = 4
    Servers = {"g1", "g2", "g3"}
    Callers = {"c1", "p1"}
    CallerLayer <- OnWasi
    CallsOf <- CallerCalls
    PublishesOf <- PublisherPublishes
    Requests = {"q1"}
    \* A "bad" request is answered like a "good" one or not at all.
    Payloads = {"bad", "huge"}
    Closable = {"g1", "g2", "g3"}
    MaxId = 3
    MaxOps = 2
INVARIANTS
    ReplyAnswersCall
    DeliveredOrClosed
CHECK_DEADLOCK FALSE
