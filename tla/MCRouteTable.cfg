CONSTANTS
    Width = 2
    Size = 3
    Protos <- SomeProtos
    Vias = {v1, v2}
    NoVia = NoVia
    NoRoute = NoRoute
    Targets <- SomeTargets
    Metrics = {1, 2}
    MaxSequence = 5
SYMMETRY SymVias
SPECIFICATION Spec
INVARIANTS TypeOK FibFollowsRib
PROPERTIES ImplementsRoutes
CHECK_DEADLOCK FALSE
