CONSTANTS
    MaxFails = 3
    MaxTodoHints = 2
    MaxTries = 2
    MaxPerAnswer = 2
    MaxJobs = 2
    Workers = 1
    MaxRounds = 1
    MaxReviews = 1
    MaxRuns = 1
SPECIFICATION AgentsSpec
INVARIANTS AtMostOneMoreQuestion
PROPERTIES SubagentLetsGo CancelTakesEffect
CHECK_DEADLOCK FALSE
