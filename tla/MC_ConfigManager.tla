--------------------------- MODULE MC_ConfigManager ---------------------------
(* Configurations and requests for ConfigManager, for TLC. *)
EXTENDS ConfigManager, TLC

MCEntryOf == ":1" :> <<1, <<>>>> @@ "1/" :> <<1, <<>>>> @@ ":1/a" :> <<1, <<"a">>>>
             @@ ":x" :> NoEntry

MCTargets == {<<>>}

MCIndexOf == [ch \in {"web", "0", "9"} |-> CASE ch = "0" -> 0 [] ch = "9" -> 9 [] OTHER -> -1]

M(id, l) == [id |-> id, listen |-> l, target |-> <<>>]
S(n, chs, rs) == [name |-> n, channels |-> chs, roles |-> rs]

MCFirst ==
    {[admin |-> "admin", roles |-> rs, mappings |-> ms, services |-> ss] :
        rs \in {<<"ops">>, <<"ops", "ops">>, <<"ops", "admin">>},
        ms \in {<<M("web", ":1")>>, <<M("web", ":1"), M("0", ":1/a")>>, <<M("web", ":1"), M("0", "1/")>>},
        ss \in {<<>>, <<S("s1", {"web"}, {"ops"})>>, <<S("s1", {"0"}, {"ops"})>>}}

MCNewMappings == {M("web", ":1/a"), M("0", ":1"), M("0", ":1/a"), M("9", ":x")}

MCNewServices == {S("s1", {"web"}, {"ops"}), S("s1", {"0"}, {"any", "dev"}), S("s2", {"9"}, {"admin"}),
                  S("s2", {"web"}, {"admin"})}
=============================================================================
