------------------------------ MODULE SignIns -------------------------------
(***************************************************************************)
(* What the session table promises about a sign-in, whatever is refreshed, *)
(* logged out or revoked at the same time: "a refresh token is only valid  *)
(* while its jti is still present" (auth.service.ts), so a sign-in begins  *)
(* once, has at most one bearer at any moment, and never comes back when   *)
(* it has ended.                                                           *)
(*                                                                         *)
(* Accounts.tla implements this specification.                             *)
(***************************************************************************)
EXTENDS Naturals

CONSTANT Ids          \* sign-ins that may ever begin

VARIABLE phase        \* phase[i] of sign-in i

Phases == {"new", "held", "exchanging", "ended"}

Init == phase = [i \in Ids |-> "new"]

Move(i, from, to) == phase[i] = from /\ phase' = [phase EXCEPT ![i] = to]

\* Registration or login issued the first token.
Begin(i) == Move(i, "new", "held")
\* The bearer hands its token in, and is answered with the next one.
HandIn(i) == Move(i, "held", "exchanging")
HandOut(i) == Move(i, "exchanging", "held")
\* Logged out, refused, interrupted; a revocation ends any number in one transaction.
End ==
    \E S \in SUBSET {i \in Ids : phase[i] \in {"held", "exchanging"}} :
        phase' = [i \in Ids |-> IF i \in S THEN "ended" ELSE phase[i]]

Next == (\E i \in Ids : Begin(i) \/ HandIn(i) \/ HandOut(i)) \/ End

Spec == Init /\ [][Next]_phase
=============================================================================
