CONSTANTS
    PacketSend = PacketSend
    Types <- Types1
    Fns = {f}
    NoFn = NoFn
    InitCapacity = 1
    MaxTime = 2
    MaxEvents = 3
    MaxDelay = 1
SPECIFICATION SSpec
INVARIANTS TypeOK QueueOrdered CausalOrder DispatchedOnce EventsOwned OvershootsOnce 
PROPERTIES ClockNeverRewinds StopIsPrompt RunIsComplete ImplementsAgenda
CHECK_DEADLOCK FALSE
