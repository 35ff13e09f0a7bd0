SPECIFICATION FairSpec
CONSTANTS
    Agents = {a1}
    Threads = {h1, h2}
    Cards <- AllCards
    Ipc = h1
    MaxChanges = 2
    a1 = a1
    a2 = a2
    h1 = h1
    h2 = h2
INVARIANTS TypeOK NoForeignCards BindingsFitCards
PROPERTIES CardsAreRefreshed
