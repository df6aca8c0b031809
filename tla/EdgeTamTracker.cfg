SPECIFICATION Spec
CONSTANTS
    MaxFrames = 3
    MaxStamp = 3
    MaxCalls = 2
    ContextLimit = 2
    None = None
INVARIANTS TypeOK DisabledHoldsNothing MasksAreCurrent ResultKeepsItsContext
PROPERTIES CorrectsTheLastOutput ImplementsSwitch
CHECK_DEADLOCK FALSE
