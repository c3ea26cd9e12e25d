-------------------------- MODULE MC_GatewayRequest --------------------------
(* Configurations, paths and certificates for GatewayRequest, for TLC. *)
EXTENDS GatewayRequest, TLC

MCEntryOf == ":9443" :> <<9443, <<>>>> @@ ":9443/a" :> <<9443, <<"a">>>>
             @@ "9443/a/" :> <<9443, <<"a">>>> @@ ":9443/a/b" :> <<9443, <<"a", "b">>>>
             @@ ":x" :> NoEntry

MCIndexOf == [ch \in {"web", "api", "0", "1"} |-> CASE ch = "0" -> 0 [] ch = "1" -> 1 [] OTHER -> -1]

MCTargets == {<<>>, <<"srv">>, <<"srv", "v1">>, <<"srv", "..", "v2">>}

M(id, l, t) == [id |-> id, listen |-> l, target |-> t]
S(n, chs, rs) == [name |-> n, channels |-> chs, roles |-> rs]
C(ms, ss) == [roles |-> <<"ops", "dev">>, mappings |-> ms, services |-> ss, admin |-> "admin"]

\* Nested entries; a target written with dots; numeric references, with and
\* without an id of that spelling; two services on one channel; and spellings of
\* one entry, which are refused.
MCSetups ==
    LET tables == {<<M("web", ":9443/a", <<"srv">>), M("api", ":9443/a/b", <<"srv", "v1">>)>>,
                   <<M("web", ":9443", <<>>), M("api", ":9443/a", <<"srv", "v1">>)>>,
                   <<M("1", ":9443/a/b", <<"srv">>), M("web", ":9443/a", <<"srv", "..", "v2">>)>>,
                   <<M("web", ":9443/a", <<"srv">>), M("api", "9443/a/", <<"srv">>)>>}
        roles == {{"ops"}, {"dev"}, {"any"}, {"null"}, {"admin"}}
    IN {C(ms, ss) : ms \in tables,
                    ss \in {<<S("s1", chs, r1), S("s2", {"web"}, r2)>> :
                              chs \in {{"web"}, {"api"}, {"1"}, {"0", "web"}},
                              r1 \in roles, r2 \in roles}}
=============================================================================
