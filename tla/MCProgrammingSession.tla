------------------------ MODULE MCProgrammingSession ------------------------
(* Plans for the runs of ProgrammingSession.                               *)
EXTENDS ProgrammingSession

SomePlans == {"p", "q"}
=============================================================================
