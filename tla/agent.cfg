SPECIFICATION AgentSpec
CONSTANTS
    MaxIterations = 3
    MaxCalls = 2
INVARIANTS TranscriptWellFormed StopReasonIsEarned RecordsMatchTranscript OneProposalPerCall
PROPERTIES NothingPostedAfterTheEnd RunEnds
CHECK_DEADLOCK FALSE
