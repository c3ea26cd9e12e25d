---------------------------- MODULE MC_GatewaySync ----------------------------
(* Values for the constants of GatewaySync, for TLC. *)
EXTENDS GatewaySync, TLC

\* "base" and "wide" differ in ports and roles; "strict" asks for IP binding,
\* which a reload must refuse; "broken" does not parse.
MCListens == ("base" :> {1}) @@ ("moved" :> {2}) @@ ("wide" :> {1, 2})
             @@ ("strict" :> {1}) @@ ("broken" :> {})

MCRolesAt == [c \in Configs |->
                [p \in Ports |-> IF p = 2 THEN {"null"}
                                 ELSE IF c = "wide" THEN {"any"} ELSE {"ops"}]]

MCIPBind == [c \in Configs |-> c = "strict"]

MCListensOf == [c \in Configs |-> MCListens[c] \cap Ports]

MCPurposes == [s \in Serials |-> IF s = ReloadCert THEN {"admin"} ELSE {"ops"}]

\* The reload certificate is short-lived (AdminDays).
MCExpiryDay == [s \in Serials |-> IF s = ReloadCert THEN 0 ELSE 1]

Symmetry == Permutations(Admins) \cup Permutations(Handlers) \cup Permutations(Requests)
=============================================================================
