---------------------------- MODULE MC_AdminIssue ----------------------------
(* AdminIssue for TLC: requests, serials and names are interchangeable. *)
EXTENDS AdminIssue, TLC

Symmetry == Permutations(Requests) \cup Permutations(Serials) \cup Permutations(Names)
=============================================================================
