---------------------------- MODULE MCMcpSessions ----------------------------
(* Instances of McpSessions for TLC: the shared default worker and one     *)
(* worker of a parallel campaign.                                          *)
EXTENDS McpSessions

MCWorkers == {"default", "w1"}

=============================================================================
