SPECIFICATION FairSpec
CONSTANTS
    Channels = {c1}
    Frontends = {f1, f2}
    ChannelOf <- SharedChannel
    Limits = {1, 2}
    Origins = {0, 1}
    MaxEvents = 3
    MaxDeaths = 2
    None = None
    f1 = f1
    f2 = f2
    c1 = c1
INVARIANTS TypeOK NothingSkipped AcksAreCovered
PROPERTIES CursorsAdvance EverythingShown
