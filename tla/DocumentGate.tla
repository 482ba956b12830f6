----------------------------- MODULE DocumentGate -----------------------------
(***************************************************************************)
(* What the approval gate promises, without the machinery that keeps the   *)
(* promise: documents that are corrected in place, and correction requests *)
(* a human grants or refuses.  A document changes only by carrying out a   *)
(* granted request, each request once, exactly as it was written, and only *)
(* while the document still reads as the request says it does.             *)
(*                                                                         *)
(* There are no hashes, no stored amendments, no clock and no payload sent *)
(* along with the apply: module Approval is shown to implement this one.   *)
(***************************************************************************)
EXTENDS Corrections

VARIABLES
    requests,    \* the correction requests, in the order they were made
    document     \* the documents, corrected in place

gateVars == <<requests, document>>

Stages  == {"open", "granted", "refused", "done"}
Request == [invoice_number : Invoices, payload : Payload, stage : Stages]

GateInit == requests = <<>> /\ document = Base

MakeRequest(inv, p) ==
    /\ requests' = Append(requests, [invoice_number |-> inv, payload |-> p, stage |-> "open"])
    /\ UNCHANGED document

Decide(i, stage) ==
    /\ requests[i].stage = "open"
    /\ requests' = [requests EXCEPT ![i].stage = stage]
    /\ UNCHANGED document

Correct(i) ==
    LET inv == requests[i].invoice_number
        p   == requests[i].payload IN
    /\ requests[i].stage = "granted"
    /\ StaleConflict(document[inv], p) = NoConflict
    /\ requests' = [requests EXCEPT ![i].stage = "done"]
    /\ document' = [document EXCEPT ![inv] = Amended(inv, @, p)]

GateNext ==
    \/ \E inv \in Invoices, p \in Payload : MakeRequest(inv, p)
    \/ \E i \in DOMAIN requests : Decide(i, "granted") \/ Decide(i, "refused")
    \/ \E i \in DOMAIN requests : Correct(i)

GateSpec == GateInit /\ [][GateNext]_gateVars

=============================================================================
