-------------------------------- MODULE MCEval --------------------------------
(* Two watched invoices and one that is not, a correction for each of two of *)
(* them, and one case: applies fall before, between and after the readings.   *)
EXTENDS EvalGate

MCInvoices == {"INV-1", "INV-2", "INV-3"}
MCWatched  == <<"INV-1", "INV-2">>
MCItems    == {"001"}
MCTexts    == {"20", "18"}
MCValues   == {"20", "18", NoBlock, RejectedBlockReason}
MCDecimalOf == [t \in MCTexts |-> t]
MCBase == [inv \in MCInvoices |-> [f \in Fields |-> IF f = BlockField THEN NoBlock ELSE "20"]]

MCRequests ==
    {[invoice_number |-> inv,
      payload |-> [correction_type |-> AmendQuantity, invoice_number |-> inv,
                   inv_item_number |-> "001", from |-> "20", to |-> "18"]]
     : inv \in {"INV-1", "INV-3"}}

=============================================================================
