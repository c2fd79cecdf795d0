-------------------------- MODULE MCAgentRestarts --------------------------
(* AgentRestarts with the values of MCOrderPipeline. *)
EXTENDS MCOrderPipeline, AgentRestarts
=============================================================================
