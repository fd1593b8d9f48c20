-------------------------- MODULE MCWorkflowRouter --------------------------
(* WorkflowRouter on every requested sequence of up to MaxLen entries.     *)
EXTENDS WorkflowRouter

(* A type that subfinder accepts and one that it does not. *)
MCTargetType == {"DOMAIN", "IP"}
=============================================================================
