---------------------------- MODULE MCAgentReload ----------------------------
(* Model values of the run of AgentReload. *)
EXTENDS AgentReload

CONSTANTS a, fa, fb

(* One device; the second file is one written by hand. *)
MCFileOf == [id \in {a} |-> fa]
=============================================================================
