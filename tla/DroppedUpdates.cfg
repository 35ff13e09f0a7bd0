SPECIFICATION Spec
CONSTANTS
    Tasks = {t1}
    RemoteStates = {"WORKING", "COMPLETED"}
    Settings <- Controlling
    Slots = {s1, s2}
    MaxCrashes = 0
    None = None
    t1 = t1
    s1 = s1
    s2 = s2
CHECK_DEADLOCK FALSE
INVARIANTS EachUpdateIsPersisted
