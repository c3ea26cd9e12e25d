----------------------------- MODULE MC_CertCache -----------------------------
(* CertCache for TLC; a unit of time is 5 seconds. *)
EXTENDS CertCache, TLC

DialerSymmetry == Permutations(Dialers)
=============================================================================
