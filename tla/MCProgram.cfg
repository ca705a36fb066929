SPECIFICATION ProgramFairSpec
CONSTANTS
    Ports = 3
    FeedLines = {"clean", "noise", "fragment"}
    FeedBound = 1
    Files <- MCFiles
    InRow <- MCInRow
    Null = Null
INVARIANTS ProgramTypeOK LinesBeforeRules ReadingsAreHeard ServesUnderItsName
PROPERTIES ComesUp
