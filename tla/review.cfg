SPECIFICATION ReviewSpec
CONSTANTS
    Invoices <- MCInvoices
    ItemNumbers <- MCItems
    Texts <- MCTexts
    Values <- MCValues
    DecimalOf <- MCDecimalOf
    Base <- MCBase
    Requests <- MCRequests
    Reviewers = {"d1", "d2", "default"}
    Desks = {"d1", "d2"}
    DefaultReviewer = "default"
    MaxProposals = 1
    MaxClicks = 2
    MaxResets = 1
    ResetMidHandler = FALSE
    ClockStepsBack = FALSE
INVARIANTS ReviewTypeOK BannerIsTrue
PROPERTIES ApprovedWhatWasShown EveryFormEnds
CHECK_DEADLOCK FALSE
