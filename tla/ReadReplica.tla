----------------------------- MODULE ReadReplica -----------------------------
(***************************************************************************)
(* What the split into one writer and one read-only consumer promises.     *)
(*                                                                         *)
(* mtls-admin is the only writer of an authority (the certificate table,   *)
(* or the configuration file); mtls-gw serves from a private copy.  Every  *)
(* committed change makes a new version of the authority.  The copy may    *)
(* lag behind, but it may never fall behind a version that was promised:   *)
(* once a reload has been acknowledged for a version, the copy is at least *)
(* that recent for ever after.                                             *)
(***************************************************************************)
EXTENDS Naturals

VARIABLES
    ver,    \* the latest committed version of the authority
    view,   \* the version the consumer's copy was taken from
    floor   \* the highest version a reload has promised

vars == <<ver, view, floor>>

Init ==
    /\ ver = 1
    /\ view = 1
    /\ floor = 0

Commit ==
    /\ ver' = ver + 1
    /\ UNCHANGED <<view, floor>>

\* The copy moves to any committed version that keeps the promise.
Install ==
    /\ view' \in floor .. ver
    /\ UNCHANGED <<ver, floor>>

\* A reload answers: whatever the copy already covers may be promised.
Promise ==
    /\ floor' \in floor .. view
    /\ UNCHANGED <<ver, view>>

Next == Commit \/ Install \/ Promise

Spec == Init /\ [][Next]_vars

\* The copy is never older than what was promised.
PromiseKept == floor <= view

=============================================================================
