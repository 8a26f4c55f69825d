------------------------------ MODULE MCServer ------------------------------
(* Small instances of Server.                                              *)
EXTENDS Server

CONSTANTS q1, q2
=============================================================================
