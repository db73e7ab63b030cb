------------------------- MODULE MCLegacyExecution -------------------------
(* What the reflection may ask for: nothing (the default plan), the plan   *)
(* that failed, a step to be repeated, one that only looks different, one  *)
(* that does not exist, and nothing that can be run.                       *)
EXTENDS LegacyExecution

Analysis(repeat, stamp) == Step("analyze_code", "original", repeat, stamp)
Inspection == Step("inspect_context", "original", FALSE, "late")

SomeRequests ==
    {DefaultRequest, DebugPlan,
     <<Analysis(TRUE, "early"), Step("unknown", "original", FALSE, "early")>>,
     <<Inspection, Analysis(FALSE, "late")>>,
     <<Step("unknown", "alternative", FALSE, "early"), Step("", "original", FALSE, "early")>>,
     <<Step("", "original", FALSE, "early")>>, <<>>}
=============================================================================
