SPECIFICATION Spec
CONSTANTS
    Ids <- MCPlainIds
    Stored <- MCPlainStored
    NoId = NoId
    InsertFails = {FALSE}
    RowBound = 3
INVARIANTS RemovedRuleIsGone
