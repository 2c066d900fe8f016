CONSTANTS
    r1 = r1
    r2 = r2
    Receivers <- Both
    MaxChanges = 4
    MaxFaults = 2
    MaxUnderWay = 2
SPECIFICATION Spec
PROPERTIES
    ListenersAreServed
    StopsForNobody
CHECK_DEADLOCK FALSE
