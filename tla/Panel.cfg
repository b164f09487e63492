SPECIFICATION FairSpec
CONSTANTS
    MaxChanges = 2
    MaxCalls = 2
    Faulty = {"loss"}
INVARIANT TypeOK
PROPERTIES StatusRecovers QueueFollows
CHECK_DEADLOCK FALSE
