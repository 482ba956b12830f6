SPECIFICATION EvalSpec
CONSTANTS
    Invoices <- MCInvoices
    ItemNumbers <- MCItems
    Texts <- MCTexts
    Values <- MCValues
    DecimalOf <- MCDecimalOf
    Base <- MCBase
    Requests <- MCRequests
    Reviewers = {"anna"}
    MaxProposals = 1
    ClockStepsBack = FALSE
    Watched <- MCWatched
    MaxCases = 1
INVARIANT GreenMeansRead
CHECK_DEADLOCK FALSE
