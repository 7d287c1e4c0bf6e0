CONSTANTS
    Procs = {p1, p2, p3}
    NoProc = NoProc
    Tickets = {t1, t2}
    Commands <- ClaimCommands
    Board = {"todo", "done"}
    Repos = {"none", "upstream"}
SPECIFICATION Spec
SYMMETRY Symmetry
INVARIANTS ClaimExclusive NoTwins NoLostUpdate
PROPERTIES RepairHeals
CHECK_DEADLOCK FALSE
