SPECIFICATION FairSpec
CONSTANTS
    Uis = {"gtk", "tui", "terminal", "direct"}
INVARIANTS TypeOK ShownIsSaid ErrorStays
PROPERTIES SuccessIsTrue LoadingEnds TrayFollows
