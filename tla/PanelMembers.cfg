SPECIFICATION FairSpec
CONSTANTS
    MaxChanges = 1
    MaxCalls = 2
    Faulty = {}
PROPERTY MembersFollow
CHECK_DEADLOCK FALSE
