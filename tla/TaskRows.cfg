SPECIFICATION FairSpec
CONSTANTS
    Tasks = {t1}
    RemoteStates = {"WORKING", "COMPLETED"}
    Settings <- TaskRows
    Slots = {s1, s2}
    MaxCrashes = 1
    None = None
    t1 = t1
    s1 = s1
    s2 = s2
CHECK_DEADLOCK FALSE
INVARIANTS TypeOK NoFakeCompletion OneStreamPerTask OpenTasksAreWatched
PROPERTIES EndingsAreLearnt
