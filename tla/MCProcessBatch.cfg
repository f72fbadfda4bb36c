CONSTANTS
    Groups <- MCGroups
    Members <- MCMembers
    Self = "self"
    Jid <- MCJid
    Moving <- MCMoving
    MaxMessages <- MCMessages
    MaxCalls = 2
CHECK_DEADLOCK FALSE
SPECIFICATION Spec
INVARIANTS GoneIsReported RemovalsSound RemovalsComplete ReaddsExact
