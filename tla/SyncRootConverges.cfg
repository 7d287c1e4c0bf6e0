SPECIFICATION FairSpec
CONSTANTS
    c1 = c1
    c2 = c2
    f1 = f1
    f2 = f2
    Clones = {c1, c2}
    Files = {f1}
    Scopes = {"s1"}
    NoScope = "none"
    ScopeOf <- MCOneScope
    Kind <- MCTicket
    Commands <- MCSync
    Moves = {"edit", "delete", "write", "repair"}
    MaxEdits = 3
    MaxFaults = 0
INVARIANTS CommittedWorkKept
PROPERTIES Converges DeletionsStand UncommittedWorkKept
