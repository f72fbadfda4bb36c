CONSTANTS
    MaxEpoch = 4
    MaxOwn = 3
    MaxFaults = 3
SPECIFICATION FairSpec
INVARIANTS  PendingIsRecorded 
PROPERTIES DeletesOnlyForks  
