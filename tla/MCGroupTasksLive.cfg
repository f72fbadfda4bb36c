CONSTANTS
    Workers = {"app", "sync"}
    Lane <- LiveLane
    MaxEpoch = 4
    MaxOwn = 2
    MaxSent = 1
    MaxRaces = 0
CONSTRAINT FewRaces
SPECIFICATION Spec
INVARIANTS  PendingIsRecorded
  
