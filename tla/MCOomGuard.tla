------------------------------ MODULE MCOomGuard ------------------------------
(***************************************************************************)
(* Instances of OomGuard for TLC, in units of 128Mi: Base is 1, the        *)
(* guardrail 8.                                                            *)
(***************************************************************************)
EXTENDS OomGuard

CONSTANTS p1, p2, q1, q2

\* Unset, 384Mi (its double is in range, the double of that is not), 512Mi (its
\* double is the guardrail), and one an owner set above the guardrail.
OwnerLimits == {0, 3, 4, 9}

\* The deployment's pods and one of the others have names of one length.
NameLengths == [p \in {p1, p2, q1, q2} |-> IF p = q2 THEN 2 ELSE 1]
=============================================================================
