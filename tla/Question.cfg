SPECIFICATION CallSpec
CONSTANTS
    Primary = p
    Secondary = {b1, b2}
    MaxRetries = 2
INVARIANTS
    FinalOnRecord
    OnlyClearQuestionsRun
    NothingAfterPrimaryFailed
    SuccessHasRows
    UnavailableLeavesNothing
    AnsweredIsTraced
    RulesShow
    UnavailableHasACause
PROPERTIES
    ImplementsLife
CHECK_DEADLOCK FALSE
