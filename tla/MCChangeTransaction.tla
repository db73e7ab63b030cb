------------------------- MODULE MCChangeTransaction -------------------------
(* Proposals for the runs of ChangeTransaction.                            *)
EXTENDS ChangeTransaction

\* A replacement, a new file, and another replacement.
ThreeOp == <<"replace", "create", "replace">>
=============================================================================
