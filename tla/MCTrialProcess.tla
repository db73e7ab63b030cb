--------------------------- MODULE MCTrialProcess ---------------------------
(* Clients for the runs of TrialProcess.                                   *)
EXTENDS TrialProcess

TwoClients == {"c1", "c2"}
OneClient == {"c1"}
=============================================================================
