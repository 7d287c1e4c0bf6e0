SPECIFICATION Spec
CONSTANTS
    todo = todo
    active = active
    done = done
    odd = odd
    none = none
    broken = broken
    Known = {todo, active, done}
    Odd = odd
    Terminal = {done}
    Ids <- MCIds
    Instants <- MCInstants
    Values = {0, 1}
    Tags = {1}
    Dates = {1, 2}
    Hashes = {1, 2}
    Absent = none
    Unreadable = broken
    Starts <- MCStarts
    MaxEdits = 3
INVARIANTS MergeIsSymmetric StatusAndChangedAgree ClosuresStand EditsStand
CHECK_DEADLOCK FALSE
