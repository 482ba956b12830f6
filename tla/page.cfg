SPECIFICATION PageSpec
CONSTANTS
    Invoices = {"INV-1"}
    ItemNumbers = {"001", "002"}
    Texts <- MCTexts
    Values <- MCValues
    DecimalOf <- MCDecimalOf
    Base <- MCBase
    Reviewers = {"alice"}
    Requests <- MCRequests
    MaxProposals = 2
    ClockStepsBack = TRUE
    Stripped <- MCStripped
    Blank = ""
INVARIANTS
    WarnedIsRefused
    UnwarnedIsAccepted
CHECK_DEADLOCK FALSE
