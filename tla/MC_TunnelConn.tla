----------------------------- MODULE MC_TunnelConn -----------------------------
(* TunnelConn for TLC: the .cfg gives every constant its value. *)
EXTENDS TunnelConn
=============================================================================
