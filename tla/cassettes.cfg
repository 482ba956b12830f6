SPECIFICATION CassettesSpec
CONSTANTS
    MaxIterations = 3
    Invoices = {i1, i2}
    MaxChanges = 2
    MaxSessions = 3
SYMMETRY InvoiceSymmetry
INVARIANTS ReplayedAsRecorded CassetteIsWhole RefusalHasACause
CHECK_DEADLOCK FALSE
