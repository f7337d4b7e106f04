SPECIFICATION FairSpec
CONSTANTS
    MaxQuestions = 3
    MaxTokens = 1
    MaxLoads = 2
    MaxSessions = 2
CONSTRAINTS StoppedEarly UpToFirstAccident SecondLoad ThirdQuestion
INVARIANTS ReplyGoesToItsQuestion ShownIsSaved
PROPERTY BusyIsLifted
CHECK_DEADLOCK FALSE
