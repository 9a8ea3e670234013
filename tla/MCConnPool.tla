----------------------------- MODULE MCConnPool -----------------------------
(* ConnPool for TLC, as it is.                                             *)
EXTENDS ConnPool
=============================================================================
