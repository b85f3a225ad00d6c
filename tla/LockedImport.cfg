SPECIFICATION Spec
CONSTANTS
    MaxScreens = 3
    MaxLoops = 2
INVARIANTS
    ParsedFileForgotten
