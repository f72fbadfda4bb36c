CONSTANTS
    Workers = {"app", "sync"}
    Lane <- BatchLane
    MaxEpoch = 3
    MaxOwn = 4
    MaxSent = 0
    MaxRaces = 0
CONSTRAINT FewRaces
SPECIFICATION Spec
 
PROPERTIES CommitExtends
