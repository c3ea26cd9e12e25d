------------------------------- MODULE Routing -------------------------------
(***************************************************************************)
(* The router of mtls-gw as functions of a configuration                   *)
(* (internal/proxy/proxy.go, internal/types, internal/pathutil) and the    *)
(* two places that decide whether a configuration is acceptable            *)
(* (config.Parse and ConfigManager.rebuild).                               *)
(*                                                                         *)
(* A configuration is a record with the fields roles, mappings, services   *)
(* (sequences, in file order) and admin (admin_role).  A path is the       *)
(* sequence of segments after its leading slash: "/a/b" is <<"a", "b">>,   *)
(* "/a/" is <<"a", "">> and "/" is <<"">>.                                 *)
(***************************************************************************)
EXTENDS Integers, Sequences, FiniteSets, SequencesExt

CONSTANTS
    EntryOf,     \* parseListen: EntryOf[l] is <<port, path>>, or NoEntry
    NoEntry,
    GoodRoles,   \* the names ValidRoleName accepts
    GoodTargets, \* the target URLs (with header rules) NewRouter accepts
    IndexOf      \* strconv.Atoi of a channel reference, -1 if it is no number

-----------------------------------------------------------------------------
(* Paths *)

\* The root taken back with the first segment, for comparison.
PushGreedy(out, seg) ==
    CASE seg = ".." -> IF Len(out) <= 1 THEN <<>> ELSE Front(Front(out))
      [] seg = "."  -> out
      [] OTHER      -> Append(out, seg)

\* One round of the loop of CleanDotSegments: ".." takes back the last segment,
\* but never the root.
Push(out, seg) ==
    CASE seg = ".." -> IF out = <<>> THEN out ELSE Front(out)
      [] seg = "."  -> out
      [] OTHER      -> Append(out, seg)

Undotted(p) ==
    LET out[n \in 0 .. Len(p)] == IF n = 0 THEN <<>> ELSE Push(out[n-1], p[n])
    IN out[Len(p)]

CleanDotSegments(p) == IF Undotted(p) = <<>> THEN <<"">> ELSE Undotted(p)

\* matchPath compares whole segments.
MatchPath(p, pref) == IsPrefix(pref, p)

\* The prefix cut from a path that was not compared by whole segments, for
\* comparison: one segment too few is left of the target's path.
SubstituteShort(p, inPath, outPath) ==
    CleanDotSegments((IF outPath = <<>> THEN <<>> ELSE Front(outPath))
                     \o SubSeq(p, Len(inPath) + 1, Len(p)))

\* substitute and joinURLPath: the entry's path is replaced by the target's.
Substitute(p, inPath, outPath) ==
    LET rest == SubSeq(p, Len(inPath) + 1, Len(p))
    IN CleanDotSegments(outPath \o (IF rest = <<>> THEN <<"">> ELSE rest))

-----------------------------------------------------------------------------
(* NewRouter *)

Distinct(s) == \A i, j \in DOMAIN s : i # j => s[i] # s[j]

RolesDeclarable(roles) ==
    /\ \A i \in DOMAIN roles : roles[i] \notin {"any", "null"} /\ roles[i] \in GoodRoles
    /\ Distinct(roles)

\* Two entries are the same if they are after normalisation.
MappingsOK(ms) ==
    /\ \A i \in DOMAIN ms : /\ ms[i].id # ""
                            /\ EntryOf[ms[i].listen] # NoEntry
                            /\ ms[i].target \in GoodTargets
    /\ Distinct([i \in DOMAIN ms |-> ms[i].id])
    /\ Distinct([i \in DOMAIN ms |-> EntryOf[ms[i].listen]])

\* A number is a position before it is an id, for comparison.
ResolvePosition(ms, ch) ==
    LET byId == {i \in DOMAIN ms : ms[i].id = ch}
    IN CASE IndexOf[ch] >= 0 /\ IndexOf[ch] < Len(ms) -> IndexOf[ch] + 1
         [] byId # {} /\ ~(IndexOf[ch] >= 0 /\ IndexOf[ch] < Len(ms)) ->
              CHOOSE i \in byId : \A j \in byId : i <= j
         [] OTHER -> 0

\* resolveChannelIndex: by id first, then by position (counted from 0).
\* The result is a position in ms, or 0.
Resolve(ms, ch) ==
    LET byId == {i \in DOMAIN ms : ms[i].id = ch}
    IN CASE byId # {} -> CHOOSE i \in byId : \A j \in byId \ {i} : i < j
         [] byId = {} /\ IndexOf[ch] >= 0 /\ IndexOf[ch] < Len(ms) -> IndexOf[ch] + 1
         [] OTHER -> 0

ServicesOK(ms, ss, roles) ==
    /\ Distinct([i \in DOMAIN ss |-> ss[i].name])
    /\ \A i \in DOMAIN ss :
          /\ ss[i].name # ""
          /\ ss[i].channels # {}
          /\ ss[i].roles \ {"any", "null"} \subseteq GoodRoles \cap ToSet(roles)
          /\ \A ch \in ss[i].channels : Resolve(ms, ch) # 0

RouterBuilds(c) ==
    /\ RolesDeclarable(c.roles)
    /\ MappingsOK(c.mappings)
    /\ ServicesOK(c.mappings, c.services, c.roles)

\* config.Parse on a decoded file, and NewRouter on what it returns: how the
\* gateway starts and reloads.
Loads(c) ==
    /\ c.admin \in GoodRoles \ {"any", "null"}
    /\ c.admin \notin ToSet(c.roles)
    /\ \A i \in DOMAIN c.services : c.admin \notin c.services[i].roles
    /\ RolesDeclarable(c.roles)
    /\ RouterBuilds(c)

\* As it was before admin_role was looked for in both places, for comparison.
RebuildsLax(c) == RouterBuilds(c)

\* ConfigManager.rebuild: what an administrative change has to pass.
Rebuilds(c) ==
    /\ \A i \in DOMAIN c.services : c.admin \notin c.services[i].roles
    /\ c.admin \notin ToSet(c.roles)
    /\ RouterBuilds(c)

-----------------------------------------------------------------------------
(* The router of a configuration that builds. Routes are mapping positions. *)

\* The roles of the first service that refers to the mapping, for comparison.
RouteRolesFirst(c, i) ==
    LET refers(k) == \E ch \in c.services[k].channels : Resolve(c.mappings, ch) = i
        ks == {k \in DOMAIN c.services : refers(k)}
    IN IF ks = {} THEN {} ELSE c.services[CHOOSE k \in ks : \A j \in ks : k <= j].roles

\* Roles of all the services that refer to the mapping (mergeRoles).
RouteRoles(c, i) ==
    UNION {s.roles : s \in {t \in ToSet(c.services) :
                              \E ch \in t.channels : Resolve(c.mappings, ch) = i}}

Listens(c) == {EntryOf[c.mappings[i].listen][1] : i \in DOMAIN c.mappings}

\* Match: the longest prefix on that port; the whole-port route is the empty
\* prefix. 0 stands for no route.
Match(c, port, p) ==
    LET hits == {i \in DOMAIN c.mappings :
                   LET e == EntryOf[c.mappings[i].listen]
                   IN e[1] = port /\ MatchPath(p, e[2])}
        length(i) == Len(EntryOf[c.mappings[i].listen][2])
    IN IF hits = {} THEN 0 ELSE CHOOSE i \in hits : \A j \in hits : length(j) <= length(i)

\* rolesMatch, for a certificate with these roles.
RolesMatch(want, have) == "any" \in want \/ want \cap have # {}

AllowsNull(c, i)   == "null" \in RouteRoles(c, i)
Allows(c, i, have) == RolesMatch(RouteRoles(c, i), have)

\* A list that shows the services of anonymous access by role "null", too, and
\* those of any role to everybody, for comparison.
ServicesAllowedAll(c, have) == ToSet(c.services)

\* ServicesAllowed: what /info tells the holder of a certificate.
ServicesAllowed(c, have) == {s \in ToSet(c.services) : RolesMatch(s.roles, have)}

\* gatewayHandler: what becomes of a request, by a client whose certificate is
\* authorized or not (certified) and has these roles. The path is made
\* canonical first and matched afterwards.
Handle(c, port, raw, certified, have) ==
    LET p == CleanDotSegments(raw)
        i == Match(c, port, p)
        answer(status) == [status |-> status, route |-> i, path |-> <<>>]
    IN IF i = 0 THEN answer("no route")
       ELSE IF AllowsNull(c, i) \/ (certified /\ Allows(c, i, have))
            THEN [status |-> "forwarded", route |-> i,
                  path |-> Substitute(p, EntryOf[c.mappings[i].listen][2], c.mappings[i].target)]
       ELSE answer("forbidden")

=============================================================================
