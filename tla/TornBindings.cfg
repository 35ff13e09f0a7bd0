SPECIFICATION Spec
CONSTANTS
    Agents = {a1}
    Threads = {h1, h2}
    Cards <- TwoBindings
    Ipc = h1
    MaxChanges = 0
    a1 = a1
    a2 = a2
    h1 = h1
    h2 = h2
INVARIANTS EveryRequestUsesTheInterface
