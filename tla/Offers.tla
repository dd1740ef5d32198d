------------------------------- MODULE Offers --------------------------------
(***************************************************************************)
(* What the offer letters of a candidate promise, whichever handlers       *)
(* overlap: an application has one offer, it is answered only after it was *)
(* sent, and nobody joins who never accepted. A sent or answered offer may *)
(* be sent again, and answered again.                                      *)
(*                                                                         *)
(* Hiring.tla implements this specification.                               *)
(***************************************************************************)
CONSTANT Apps

VARIABLES
    offer,      \* the offer letter of each application
    accepted,   \* applications whose offer was accepted at some time
    joined      \* applications whose candidate has joined

vars == <<offer, accepted, joined>>

Init ==
    /\ offer = [a \in Apps |-> "none"]
    /\ accepted = {}
    /\ joined = {}

Draft(a) ==
    /\ offer[a] = "none"
    /\ offer' = [offer EXCEPT ![a] = "Draft"]
    /\ UNCHANGED <<accepted, joined>>

Send(a) ==
    /\ offer[a] # "none"
    /\ offer' = [offer EXCEPT ![a] = "Sent"]
    /\ UNCHANGED <<accepted, joined>>

Accept(a) ==
    /\ offer[a] \notin {"none", "Draft"}
    /\ offer' = [offer EXCEPT ![a] = "Accepted"]
    /\ accepted' = accepted \union {a}
    /\ UNCHANGED joined

Decline(a) ==
    /\ offer[a] \notin {"none", "Draft"}
    /\ offer' = [offer EXCEPT ![a] = "Rejected"]
    /\ UNCHANGED <<accepted, joined>>

Join(a) ==
    /\ a \in accepted
    /\ joined' = joined \union {a}
    /\ UNCHANGED <<offer, accepted>>

Next == \E a \in Apps : Draft(a) \/ Send(a) \/ Accept(a) \/ Decline(a) \/ Join(a)

Spec == Init /\ [][Next]_vars
=============================================================================
