------------------------------- MODULE MCDeploy -------------------------------
(* A small instance of Deploy. *)
EXTENDS Deploy, TLC

CONSTANTS memo
=============================================================================
