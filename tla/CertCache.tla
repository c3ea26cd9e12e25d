------------------------------ MODULE CertCache ------------------------------
(***************************************************************************)
(* The client certificates of mtls-relay: the cache of internal/relay      *)
(* (loadCertLang, SetSource, releaseCertKeyDelayed of core.go) for one     *)
(* certificate id, the TCP tunnels that dial with it (relayDial), the      *)
(* requests of the local API that use it to reach the gateway or           *)
(* mtls-admin (Discover, Verify, withAdmin), and the HTTP tunnels that     *)
(* keep it in a transport (localHTTPHandler of tunnel.go).                 *)
(*                                                                         *)
(* Loading a certificate of the Windows store acquires a key handle, which *)
(* somebody has to free; what is used after it was freed is undefined.     *)
(* A certificate that leaves the cache is freed keyReleaseDelay later.     *)
(*                                                                         *)
(* Time is counted in units; entries have ages and timers waits.  A dial   *)
(* ends within DialTime: the timeouts of Dialer.Dial; those of the clients *)
(* of a local request, one after the other in Verify; and for a transport, *)
(* which limits the connection only, the gateway's limit for a handshake.  *)
(* A goroutine that has what it waited for goes on at once.                *)
(***************************************************************************)
EXTENDS Integers, Sequences, FiniteSets

CONSTANTS
    Dialers,    \* connections of TCP tunnels, and local requests
    Proxies,    \* HTTP tunnels
    CertTTL,    \* defaultCertCacheTTL
    Delay,      \* keyReleaseDelay
    DialTime,   \* how long a dial may take
    None,
    MaxHandle,  \* bound: certificates loaded
    MaxSource   \* bound: sources

ASSUME CacheAssumption ==
    /\ Dialers \cap Proxies = {}
    /\ None \notin Nat /\ None \notin [h : Nat, age : Nat]
    /\ {CertTTL, Delay, DialTime, MaxHandle, MaxSource} \subseteq Nat
    /\ CertTTL > 0 /\ MaxSource > 0

\* keyReleaseDelay is longer than every dial, the TTL longer than both.
ASSUME TimesAssumption == DialTime < Delay /\ Delay <= CertTTL

VARIABLES
    src,       \* the current source, one number for each that was set
    cache,     \* the entry of the certificate: its handle and the time since loadedAt
    born,      \* born[h]: the source handle h was loaded from
    releases,  \* releases[h]: the waits of the timers that are to free h
    frees,     \* frees[h]: how often h was freed
    pc,        \* where each tunnel is
    snap,      \* the source it loads from
    got,       \* the handle it has loaded or dials with
    since,     \* how long it has dialled
    transport  \* transport[p]: the handle in the HTTP tunnel's transport and the time since builtAt

keys  == <<born, releases, frees>>
local == <<pc, snap, got, since, transport>>
vars  == <<src, cache, keys, local>>

Users   == Dialers \cup Proxies
Handles == 1 .. MaxHandle

-----------------------------------------------------------------------------
Init ==
    /\ src = 1
    /\ cache = None
    /\ born = [h \in Handles |-> None]
    /\ releases = [h \in Handles |-> <<>>]
    /\ frees = [h \in Handles |-> 0]
    /\ pc = [u \in Users |-> "idle"]
    /\ snap = [u \in Users |-> None]
    /\ got = [u \in Users |-> None]
    /\ since = [u \in Users |-> 0]
    /\ transport = [p \in Proxies |-> None]

\* An immediate release, for comparison.
ReleasedNow(h) == [releases EXCEPT ![h] = Append(@, 0)]

\* releaseCertKeyDelayed.
Released(h) == [releases EXCEPT ![h] = Append(@, Delay)]

\* A cached certificate is used up to the end of its TTL.
Fresh == cache # None /\ cache.age < CertTTL

\* The tunnel has its certificate: a connection dials with it, an HTTP tunnel
\* rebuilds its transport around it.
Use(u, h) ==
    IF u \in Dialers
    THEN /\ pc' = [pc EXCEPT ![u] = "dialing"]
         /\ got' = [got EXCEPT ![u] = h]
         /\ UNCHANGED <<since, transport>>
    ELSE /\ pc' = [pc EXCEPT ![u] = "idle"]
         /\ got' = [got EXCEPT ![u] = None]
         /\ transport' = [transport EXCEPT ![u] = [h |-> h, age |-> 0]]
         /\ UNCHANGED since

\* loadCertLang, for a new connection, a local request (LoadCertWithPassword
\* comes here with a source that has key handles) or a transport that is to be
\* rebuilt: there is none, it is older than the TTL, or the server's host, which
\* may change at any time, is not the one it was built for.
LoadCert(u) ==
    /\ pc[u] = "idle"
    /\ \/ Fresh /\ Use(u, cache.h) /\ UNCHANGED snap
       \/ /\ ~Fresh
          /\ pc' = [pc EXCEPT ![u] = "loading"]
          /\ snap' = [snap EXCEPT ![u] = src]
          /\ UNCHANGED <<got, since, transport>>
    /\ UNCHANGED <<src, cache, keys>>

\* src.Load, with the source of before.
Load(u) ==
    /\ pc[u] = "loading"
    /\ \/ \E h \in Handles :
            /\ born[h] = None /\ \A k \in 1 .. h - 1 : born[k] # None
            /\ born' = [born EXCEPT ![h] = snap[u]]
            /\ got' = [got EXCEPT ![u] = h]
            /\ pc' = [pc EXCEPT ![u] = "loaded"]
          /\ UNCHANGED snap
       \/ /\ pc' = [pc EXCEPT ![u] = "idle"]
          /\ snap' = [snap EXCEPT ![u] = None]
          /\ UNCHANGED <<born, got>>
    /\ UNCHANGED <<src, cache, releases, frees, since, transport>>

\* A loader that does not look at the source again, and one that overwrites the
\* entry, for comparison.
StoreAnyway(u) ==
    /\ pc[u] = "loaded"
    /\ releases' = IF cache # None THEN Released(cache.h) ELSE releases
    /\ cache' = [h |-> got[u], age |-> 0]
    /\ Use(u, got[u])
    /\ snap' = [snap EXCEPT ![u] = None]
    /\ UNCHANGED <<src, born, frees>>

StoreOverwrites(u) ==
    /\ pc[u] = "loaded"
    /\ IF src # snap[u]
       THEN releases' = Released(got[u]) /\ UNCHANGED cache
       ELSE cache' = [h |-> got[u], age |-> 0] /\ UNCHANGED releases
    /\ Use(u, got[u])
    /\ snap' = [snap EXCEPT ![u] = None]
    /\ UNCHANGED <<src, born, frees>>

\* The rest of loadCertLang: a certificate of a source that was replaced in the
\* meantime is used once, any other one enters the cache.
Store(u) ==
    /\ pc[u] = "loaded"
    /\ IF src # snap[u]
       THEN releases' = Released(got[u]) /\ UNCHANGED cache
       ELSE /\ releases' = IF cache # None THEN Released(cache.h) ELSE releases
            /\ cache' = [h |-> got[u], age |-> 0]
    /\ Use(u, got[u])
    /\ snap' = [snap EXCEPT ![u] = None]
    /\ UNCHANGED <<src, born, frees>>

\* A request of an HTTP tunnel opens a connection of its transport, whatever the
\* age of that: if rebuilding it has failed, the old one goes on being used.
DialTransport(p) ==
    /\ pc[p] = "idle" /\ transport[p] # None
    /\ pc' = [pc EXCEPT ![p] = "dialing"]
    /\ got' = [got EXCEPT ![p] = transport[p].h]
    /\ UNCHANGED <<src, cache, keys, snap, since, transport>>

\* The handshake or the local request is over, well or badly.
Dialed(u) ==
    /\ pc[u] = "dialing"
    /\ pc' = [pc EXCEPT ![u] = "idle"]
    /\ got' = [got EXCEPT ![u] = None]
    /\ since' = [since EXCEPT ![u] = 0]
    /\ UNCHANGED <<src, cache, keys, snap, transport>>

-----------------------------------------------------------------------------
SetSource ==
    /\ src < MaxSource
    /\ src' = src + 1
    /\ releases' = IF cache # None THEN Released(cache.h) ELSE releases
    /\ cache' = None
    /\ UNCHANGED <<born, frees, local>>

\* The timer of releaseCertKeyDelayed; it may be late.
Free(h) ==
    /\ releases[h] # <<>> /\ Head(releases[h]) = 0
    /\ releases' = [releases EXCEPT ![h] = Tail(@)]
    /\ frees' = [frees EXCEPT ![h] = @ + 1]
    /\ UNCHANGED <<src, cache, born, local>>

\* An age counts up to the TTL, a wait down to 0.
Older(entry) == IF entry = None \/ entry.age = CertTTL THEN entry
                ELSE [entry EXCEPT !.age = @ + 1]

Sooner(waits) == [i \in DOMAIN waits |-> IF waits[i] = 0 THEN 0 ELSE waits[i] - 1]

Tick ==
    /\ \A u \in Users : pc[u] # "loaded" /\ (pc[u] = "dialing" => since[u] < DialTime)
    /\ cache' = Older(cache)
    /\ transport' = [p \in Proxies |-> Older(transport[p])]
    /\ since' = [u \in Users |-> IF pc[u] = "dialing" THEN since[u] + 1 ELSE 0]
    /\ releases' = [h \in Handles |-> Sooner(releases[h])]
    /\ UNCHANGED <<src, born, frees, pc, snap, got>>

Next ==
    \/ \E u \in Users : LoadCert(u) \/ Load(u) \/ Store(u) \/ Dialed(u)
    \/ \E p \in Proxies : DialTransport(p)
    \/ SetSource
    \/ \E h \in Handles : Free(h)
    \/ Tick

Spec == Init /\ [][Next]_vars

-----------------------------------------------------------------------------
\* No certificate of a source that was replaced is in the cache, however long
\* its loading took.
SourceCurrent == cache # None => born[cache.h] = src

\* A handle that was loaded is with its loader, in the cache, to be freed or
\* freed: one of these and only once.  None leaks and none is freed twice.
OneOwner ==
    \A h \in Handles : born[h] # None =>
        Cardinality({u \in Users : pc[u] = "loaded" /\ got[u] = h})
          + (IF cache # None /\ cache.h = h THEN 1 ELSE 0)
          + Len(releases[h]) + frees[h] = 1

\* No connection of a TCP tunnel is in a handshake with a handle that was freed,
\* and no local request is under way with one, however late they got it from the
\* cache; and no connection that an HTTP tunnel opens before its transport has
\* the age of keyReleaseDelay begins with one.
DialSafe ==
    /\ \A d \in Dialers : pc[d] = "dialing" => frees[got[d]] = 0
    /\ \A p \in Proxies :
          transport[p] # None /\ transport[p].age < Delay => frees[transport[p].h] = 0

\* keyReleaseDelay's comment, for the transports of HTTP tunnels it names: a
\* certificate that left the cache is not freed while they still hold and use it.
TransportSafe == \A p \in Proxies : pc[p] = "dialing" => frees[got[p]] = 0

=============================================================================
