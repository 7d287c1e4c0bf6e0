SPECIFICATION Spec
CONSTANTS
    c1 = c1
    c2 = c2
    f1 = f1
    f2 = f2
    Clones = {c1, c2}
    Files = {f1, f2}
    Scopes = {"s1"}
    NoScope = "none"
    ScopeOf <- MCOneScope
    Kind <- MCSchema
    Commands <- MCAllCommands
    Moves = {"edit", "delete", "write", "repair"}
    MaxEdits = 2
    MaxFaults = 1
SYMMETRY MCSymmetry
INVARIANTS OneMergeBase NoMarkersCommitted
CHECK_DEADLOCK FALSE
