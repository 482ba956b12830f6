SPECIFICATION TracingSpec
CONSTANTS
    MaxIterations = 2
    MaxCalls = 1
    Tokens = {0, 2}
    Rates <- MCRates
    MaxRuns = 2
    MaxProcesses = 2
    MaxFaults = 1
INVARIANTS TracingTypeOK NestingRebuilds NothingCompletedIsLost RunsAddUp NothingSpentIsMissing OneTracePerRun BackendsAgree
CHECK_DEADLOCK FALSE
