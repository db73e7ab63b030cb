------------------------- MODULE MCCorrectionEngine -------------------------
(* Proposals for the runs of CorrectionEngine.                             *)
EXTENDS CorrectionEngine, TLC

\* One file; two files; the other file and no focused test; no full test.
MCChanges == ("p1" :> {"a"}) @@ ("p2" :> {"a", "b"}) @@ ("p3" :> {"c"}) @@ ("p4" :> {"b"})
MCCost == ("p1" :> 1) @@ ("p2" :> 2) @@ ("p3" :> 1) @@ ("p4" :> 0)
MCFocused == ("p1" :> 1) @@ ("p2" :> 1) @@ ("p3" :> 0) @@ ("p4" :> 1)
MCFull == ("p1" :> 1) @@ ("p2" :> 2) @@ ("p3" :> 1) @@ ("p4" :> 0)
=============================================================================
