--------------------------- MODULE MC_RelayManager ---------------------------
(* RelayManager for TLC: two addresses whose gateways have different CAs, a CA *)
(* file that cannot be loaded, one other source than the system store, and     *)
(* patches of one field and of two.                                            *)
EXTENDS RelayManager, TLC

CONSTANTS gw, alt, none, own, other, bad, store, dir

MCServes == (gw :> own) @@ (alt :> other)

MCPatches ==
    {[server |-> gw], [server |-> alt], [ca |-> own], [ca |-> bad], [ca |-> none],
     [dir |-> store], [dir |-> dir], [ca |-> own, dir |-> store]}

\* The default template, and a file with two tunnels.
MCFiles ==
    {[server |-> none, ca |-> none, dir |-> store, tunnels |-> <<>>],
     [server |-> gw, ca |-> own, dir |-> store,
      tunnels |-> <<[id |-> "a", cert |-> "x"], [id |-> "b", cert |-> "x"]>>]}

MCFlags == {[noPersist |-> FALSE, server |-> none], [noPersist |-> TRUE, server |-> alt]}

Symmetry == Permutations(Ops)
=============================================================================
