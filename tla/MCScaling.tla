------------------------------ MODULE MCScaling -------------------------------
(***************************************************************************)
(* Instances of Scaling for TLC.                                           *)
(***************************************************************************)
EXTENDS Scaling

CONSTANTS p1, p2, p3, telegram, slack
=============================================================================
