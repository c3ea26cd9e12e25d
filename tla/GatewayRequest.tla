---------------------------- MODULE GatewayRequest ----------------------------
(***************************************************************************)
(* One request after another through mtls-gw's router: the path of the     *)
(* request grows a segment at a time, over every configuration in Setups   *)
(* that the gateway loads.                                                 *)
(***************************************************************************)
EXTENDS Routing

CONSTANTS
    Setups,    \* configurations
    Segments,  \* path segments, with ".", ".." and the empty one
    Holders,   \* sets of roles a certificate may have
    MaxPath    \* bound: segments of a path

\* What Go's types, the decoder of the file and parseListen guarantee.
Typed ==
    /\ Segments \subseteq STRING /\ MaxPath \in Nat
    /\ \A ch \in DOMAIN IndexOf : IndexOf[ch] \in Int
    /\ \A l \in DOMAIN EntryOf :
          EntryOf[l] # NoEntry => /\ EntryOf[l] = <<EntryOf[l][1], EntryOf[l][2]>>
                                 /\ EntryOf[l][2] \in Seq(STRING)
    /\ \A c \in Setups :
          /\ c.mappings \in Seq([id : STRING, listen : DOMAIN EntryOf, target : Seq(STRING)])
          /\ c.services \in Seq([name : STRING, channels : SUBSET DOMAIN IndexOf,
                                 roles : SUBSET STRING])

ASSUME RequestAssumption == Typed

VARIABLES
    conf,      \* the configuration being served
    port,
    path,      \* the request's path as the client sent it
    certified, \* Authorize accepted the client's certificate
    have       \* the roles of that certificate

request == <<conf, port, path, certified, have>>

RequestInit ==
    /\ conf \in {c \in Setups : Loads(c)}
    /\ port \in Listens(conf)
    /\ path = <<>>
    /\ certified \in BOOLEAN
    /\ have \in Holders

Extend ==
    /\ Len(path) < MaxPath
    /\ \E seg \in Segments : path' = Append(path, seg)
    /\ UNCHANGED <<conf, port, certified, have>>

RequestSpec == RequestInit /\ [][Extend]_request

-----------------------------------------------------------------------------
Outcome == Handle(conf, port, path, certified, have)
Target(i) == conf.mappings[i].target
Entry(i) == EntryOf[conf.mappings[i].listen]

\* gatewayHandler cleans the path before it matches and Serve replaces the
\* prefix afterwards: whatever dots a client sends, what reaches a backend
\* lies under the path of the target it was matched to (NewRouter accepts
\* targets with dots, too: those are taken out of it).
InsideTarget ==
    path # <<>> /\ Outcome.status = "forwarded"
    => IsPrefix(Undotted(Target(Outcome.route)), Outcome.path)

\* A reference for CleanDotSegments: read from the right, each ".." cancels
\* the next segment to its left that is not itself cancelled. Height is the
\* number of segments that are left by then.
Height(p) ==
    LET height[j \in 0 .. Len(p)] ==
          IF j = 0 THEN 0
          ELSE CASE p[j] = ".." -> IF height[j-1] = 0 THEN 0 ELSE height[j-1] - 1
                 [] p[j] = "."  -> height[j-1]
                 [] OTHER       -> height[j-1] + 1
    IN height

Survives(p, k) ==
    /\ p[k] \notin {".", ".."}
    /\ \A j \in k .. Len(p) : Height(p)[j] >= Height(p)[k]

Canonical(p) ==
    LET kept == {k \in DOMAIN p : Survives(p, k)}
        at(n) == CHOOSE k \in kept : Cardinality({j \in kept : j <= k}) = n
    IN IF kept = {} THEN <<"">> ELSE [n \in 1 .. Cardinality(kept) |-> p[at(n)]]

\* CleanDotSegments keeps a segment exactly if no later ".." climbs above it.
CleanIsCanonical == path # <<>> => CleanDotSegments(path) = Canonical(path)

\* NewRouter merges the roles of all services into the routes they refer to;
\* a request passes exactly if one of those services would let it pass.
AccessIsByService ==
    path # <<>> /\ Outcome.route # 0 =>
        (Outcome.status = "forwarded" <=>
            \E s \in ToSet(conf.services) :
                /\ \E ch \in s.channels : Resolve(conf.mappings, ch) = Outcome.route
                /\ "null" \in s.roles \/ (certified /\ RolesMatch(s.roles, have)))

\* An entry that a request can be sent to as it is written.
Plain(entry) == \A k \in DOMAIN entry[2] : entry[2][k] \notin {"", ".", ".."}

\* What /info lists for a certificate can be used with it: a request to the
\* entry of each channel of each listed service is forwarded, to that channel,
\* as long as no entry is written with dots (which cleaned paths never match)
\* or empty segments (":9443//" takes "/" away from ":9443").
InfoUsable ==
    (\A i \in DOMAIN conf.mappings : Plain(Entry(i))) =>
    \A s \in ServicesAllowed(conf, have) : \A ch \in s.channels :
        LET i == Resolve(conf.mappings, ch)
            p == IF Entry(i)[2] = <<>> THEN <<"">> ELSE Entry(i)[2]
            o == Handle(conf, Entry(i)[1], p, TRUE, have)
        IN o.status = "forwarded" /\ o.route = i

=============================================================================
