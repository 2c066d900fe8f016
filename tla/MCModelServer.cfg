CONSTANTS
    c1 = c1
    c2 = c2
    Callers <- Both
    Models = {"sam3", "graspgenx"}
    MaxCalls = 2
    MaxCrashes = 1
    Capacity = 2
SPECIFICATION Spec
INVARIANTS
    ReadyMeansServed
PROPERTIES
    BusyForTheGone
    PlacesAreFreed
CHECK_DEADLOCK FALSE
