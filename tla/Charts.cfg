SPECIFICATION Spec
CONSTANTS
    None = None
    Runs <- MCRuns
    Plans <- MCShapes
INVARIANT SelectionNeverMixes
