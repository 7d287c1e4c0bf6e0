CONSTANTS
    Procs = {p1, p2, p3}
    NoProc = NoProc
    Tickets = {t1}
    Commands <- ConfigCommands
    Board = {"todo"}
    Repos = {"upstream"}
SPECIFICATION FairSpec
INVARIANTS RestoresOwnChange
PROPERTIES HoldRespected CommandsEnd
CHECK_DEADLOCK FALSE
