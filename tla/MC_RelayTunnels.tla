--------------------------- MODULE MC_RelayTunnels ---------------------------
(* Configurations for RelayTunnels, for TLC. *)
EXTENDS RelayTunnels, TLC

R(ch, port, path) == [channel |-> ch, port |-> port, path |-> path]
T(s, cert, rs) == [service |-> s, cert |-> cert, routes |-> rs, enabled |-> TRUE]
C(h, ts) == [host |-> h, ca |-> TRUE, tunnels |-> ts]

Whole == R("c1", 1, "")
PathA == R("c2", 1, "/a")
PathB == R("c3", 1, "/b")
Other == R("c4", 2, "")

\* One service with a whole-port route and guests in several combinations and
\* with two certificates; a second service that competes for its port; a
\* disabled tunnel; two tunnels with a route of one key, as a file may have; a
\* server_ca that cannot be read.
MCShapes ==
    {<<T("web", "x", <<PathA, Whole>>)>>,
     <<T("web", "y", <<PathA, Whole>>)>>,
     <<T("web", "x", <<PathA, PathB>>)>>,
     <<T("web", "x", <<PathB, PathA, Whole, Other>>)>>,
     <<T("web", "y", <<PathA>>), T("api", "x", <<Other>>)>>,
     <<T("web", "x", <<PathA, Whole>>), T("web", "y", <<PathA>>)>>,
     <<T("api", "x", <<Whole>>), [T("web", "y", <<PathA>>) EXCEPT !.enabled = FALSE]>>}

MCSetups == {C(h, ts) : h \in {"lo", "any"}, ts \in MCShapes}
            \cup {[host |-> "lo", ca |-> FALSE, tunnels |-> <<>>]}
=============================================================================
