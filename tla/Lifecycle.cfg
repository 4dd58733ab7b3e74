SPECIFICATION FairSpec
CONSTANTS
    Procs = {d1, d2}
    NoProc = NoProc
INVARIANTS TypeOK Reachable LeavesNothing
PROPERTIES SignalledEnds StartedServes
CHECK_DEADLOCK FALSE
