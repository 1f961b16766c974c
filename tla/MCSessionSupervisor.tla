------------------------ MODULE MCSessionSupervisor ------------------------
(* SessionSupervisor with one local service and a tunnel. *)
EXTENDS SessionSupervisor

CONSTANTS p1, p2, p3, p4, p5, p6, c1

SixPids == {p1, p2, p3, p4, p5, p6}
OneShell == {c1}
JustMcp == <<"mcp">>
StartStopRestart == {"start", "stop", "restart-service"}
==============================================================================
