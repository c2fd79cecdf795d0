---------------------------- MODULE MCAgentDays ----------------------------
(* AgentDays with the values of MCOrderPipeline. *)
EXTENDS MCOrderPipeline, AgentDays
=============================================================================
