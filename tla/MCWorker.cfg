SPECIFICATION FairSpec
CONSTANTS
    Ids <- MCIds
    Stored <- MCStored
    NoId = NoId
    InsertFails = {FALSE}
    RowBound = 3
INVARIANTS TypeOK HashedRuleHasThread AcceptedRuleRuns AcceptedRuleIsStored NoStrayThreads
PROPERTIES RequestAnswered ImplementsRuleStore
