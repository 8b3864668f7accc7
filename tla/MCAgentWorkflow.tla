---------------------------- MODULE MCAgentWorkflow ----------------------------
(* Three runs over two questions, one slot less than runs, both caches. *)
EXTENDS AgentWorkflow
================================================================================
