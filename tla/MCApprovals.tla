----------------------------- MODULE MCApprovals -----------------------------
(***************************************************************************)
(* Instances of Approvals for TLC.  An action that matches a branch and    *)
(* the button of the node alerts, "cordon_node|n", that matches none.      *)
(***************************************************************************)
EXTENDS Approvals

CONSTANTS m1, scale, cordon_node

TeamKinds == {"click", "join", "leave", "remove"}
AskKinds  == {"click", "ask"}
ClickOnly == {"click", "join"}
=============================================================================
