---------------------------- MODULE HiringLadder ----------------------------
(***************************************************************************)
(* What Q3's interview desk promises about one application, without users, *)
(* slots or statements: rounds are decided one after the other, a decision *)
(* stands unless it was a hold, each cleared round opens exactly one more, *)
(* and only a final round's selection hires. Interviews.tla implements it. *)
(***************************************************************************)
EXTENDS Naturals, Sequences

VARIABLES
    ladder,    \* the rounds so far, with what was decided after each
    hired      \* the candidate was selected

vars == <<ladder, hired>>

Init ==
    /\ ladder = <<[decision |-> "None", final |-> FALSE]>>
    /\ hired = FALSE

Last == ladder[Len(ladder)]

Decide(d) ==
    /\ Last.decision \in {"None", "Hold"}
    /\ IF Last.final THEN d \in {"Hold", "Rejected", "Selected"}
                     ELSE d \in {"Hold", "Rejected", "NextRound", "FinalRound"}
    /\ ladder' = [ladder EXCEPT ![Len(ladder)].decision = d]
    /\ UNCHANGED hired

OpenNext ==
    /\ Last.decision \in {"NextRound", "FinalRound"}
    /\ ladder' = Append(ladder, [decision |-> "None", final |-> Last.decision = "FinalRound"])
    /\ UNCHANGED hired

Hire ==
    /\ Last.decision = "Selected"
    /\ hired' = TRUE
    /\ UNCHANGED ladder

Next ==
    \/ \E d \in {"Hold", "Rejected", "Selected", "NextRound", "FinalRound"} : Decide(d)
    \/ OpenNext \/ Hire

Spec == Init /\ [][Next]_vars
=============================================================================
