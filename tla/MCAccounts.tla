----------------------------- MODULE MCAccounts -----------------------------
(* Small instances of Accounts.                                            *)
EXTENDS Accounts

CONSTANTS u1, u2, u3, t1, t2, t3, q1, q2, n1
=============================================================================
