SPECIFICATION EvalSpec
CONSTANTS
    Invoices <- MCInvoices
    ItemNumbers <- MCItems
    Texts <- MCTexts
    Values <- MCValues
    DecimalOf <- MCDecimalOf
    Base <- MCBase
    Requests <- MCRequests
    Reviewers = {"anna"}
    MaxProposals = 2
    ClockStepsBack = FALSE
    Watched <- MCWatched
    MaxCases = 1
INVARIANTS GreenMeansNothingWritten BlameHasACause
PROPERTY EvalEnds
CHECK_DEADLOCK FALSE
