SPECIFICATION FairSpec
INVARIANTS ModelSeesAnswers SuccessSpentItsNudges
PROPERTIES RepeatingModelIsStopped InterruptEndsLoop
CHECK_DEADLOCK FALSE
CONSTANTS
    Calls = {"read", "complete", "explore", "explore2", "spawn", "plan", "background"}
    Tool <- MCTool
    Batches <- MCBatches
    MaxNudgeAttempts = 2
    MaxTodoNudges = 1
    MaxDoomNudges = 2
    DoomThreshold = 2
    MaxCycleLen = 2
    ExploreAfter = 2
    ConcludeAfter = 3
    DrainMax = 1
    MaxInjected = 1
