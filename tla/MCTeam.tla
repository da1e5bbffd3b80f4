------------------------------- MODULE MCTeam -------------------------------
(***************************************************************************)
(* Instances of Team for TLC.                                              *)
(***************************************************************************)
EXTENDS Team

CONSTANTS ana, bob

\* Bob's first name is "sam"; Ana's has a comma, before it "sam" and behind it
\* what reads as an entry of Bob's chat under a name nobody has.
SomeNames == {"sam", "eve", "sam,eve"}
FirstName == [u \in Users |-> IF u = ana THEN "sam,eve" ELSE "sam"]
BeforeComma == [n \in SomeNames |-> IF n = "sam,eve" THEN "sam" ELSE n]
AfterComma ==
    [n \in SomeNames |-> IF n = "sam,eve" THEN {[chat |-> bob, name |-> "eve"]} ELSE {}]
=============================================================================
