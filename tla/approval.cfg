SPECIFICATION Spec
CONSTANTS
    Invoices <- MCInvoices
    ItemNumbers <- MCItems
    Texts <- MCTexts
    Values <- MCValues
    DecimalOf <- MCDecimalOf
    Base <- MCBase
    Reviewers = {"anna"}
    Requests <- MCRequests
    MaxProposals = 3
    ClockStepsBack = FALSE
INVARIANTS OnlyApprovedIsStored AppliedExactlyOnce NoLostUpdate ReadPathAgrees
PROPERTIES VerdictIsFinal ImplementsGate
CHECK_DEADLOCK FALSE
