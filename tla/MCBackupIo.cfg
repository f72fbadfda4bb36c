CONSTANTS MaxCalls = 4
SPECIFICATION IoFairSpec
INVARIANTS ResolvedIsWritten QueueHasRoom CancelWins
PROPERTIES CancelSettles
CHECK_DEADLOCK FALSE
