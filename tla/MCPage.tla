-------------------------------- MODULE MCPage --------------------------------
(* One invoice with one line and a price block, two proposals: amounts spelled *)
(* in two ways or not at all, a line that does not exist, and block reasons    *)
(* spelled exactly, with a blank, and empty.                                   *)
EXTENDS ReviewPage

MCTexts  == {"20", "20.0", "18", "abc", "PRICE", " PRICE", ""}
MCValues == {"20", "18", "PRICE", NoBlock, RejectedBlockReason}
MCDecimalOf == [t \in MCTexts |-> CASE t \in {"20", "20.0"} -> "20" [] t = "18" -> "18"
                                    [] OTHER -> NotANumber]
MCStripped == [t \in MCTexts |-> IF t = " PRICE" THEN "PRICE" ELSE t]
MCBase == [inv \in {"INV-1"} |-> [f \in Fields |->
               CASE f = BlockField -> "PRICE" [] f = <<"quantity", "001">> -> "20"
                 [] OTHER -> Absent]]

MCRequests ==
    {[invoice_number |-> "INV-1", payload |-> p] : p \in
        [correction_type : {AmendQuantity}, invoice_number : {"INV-1"},
         inv_item_number : {"001", "002"}, from : {"20", "20.0", "18", "abc"}, to : {"18"}]
        \cup [correction_type : {AmendQuantity}, invoice_number : {"INV-1"},
              inv_item_number : {"001"}, from : {"18"}, to : {"20"}]
        \cup [correction_type : {ReleaseBlock}, invoice_number : {"INV-1"},
              released_block_reason : {"PRICE", " PRICE", ""}]
        \cup [correction_type : {RejectInvoice}, invoice_number : {"INV-1"},
              duplicate_of : {"INV-1"}]}

=============================================================================
