SPECIFICATION Spec
CONSTANTS
    Invoices <- MCInvoices
    ItemNumbers <- MCItems
    Texts <- MCTexts
    Values <- MCValues
    DecimalOf <- MCDecimalOf
    Base <- MCBase
    Reviewers = {"anna"}
    Requests <- MCRequests
    MaxProposals = 3
    ClockStepsBack = FALSE
PROPERTY AppliedIsServed
CHECK_DEADLOCK FALSE
