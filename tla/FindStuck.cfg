SPECIFICATION FairSpec
CONSTANTS
    Uis = {"gtk"}
PROPERTIES LoadingIsLeft
