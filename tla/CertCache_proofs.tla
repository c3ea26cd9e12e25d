--------------------------- MODULE CertCache_proofs ---------------------------
(***************************************************************************)
(* Who owns a key handle, and that none is used in a handshake after it    *)
(* was freed, for any number of tunnels, certificates and sources, and any *)
(* times that keep TimesAssumption.                                        *)
(***************************************************************************)
EXTENDS CertCache, FiniteSetTheorems, TLAPS

Entries == [h : Handles, age : 0 .. CertTTL]

Types ==
    /\ src \in Nat
    /\ cache \in {None} \cup Entries
    /\ born \in [Handles -> Nat \cup {None}]
    /\ releases \in [Handles -> Seq(Nat)]
    /\ frees \in [Handles -> Nat]
    /\ pc \in [Users -> {"idle", "loading", "loaded", "dialing"}]
    /\ snap \in [Users -> Nat \cup {None}]
    /\ got \in [Users -> Handles \cup {None}]
    /\ since \in [Users -> 0 .. DialTime]
    /\ transport \in [Proxies -> {None} \cup Entries]

\* The three places of a handle that somebody has to free, after its loading:
\* in use by its owner, with one timer, freed once.
Untouched(h) == releases[h] = <<>> /\ frees[h] = 0
Waits(h)     == frees[h] = 0 /\ \E w \in Nat : releases[h] = <<w>>
Freed(h)     == frees[h] = 1 /\ releases[h] = <<>>

InCache(h)   == cache # None /\ cache.h = h
Loaded(u, h) == pc[u] = "loaded" /\ got[u] = h

\* What a loader has nobody else has.
LoadersOwn ==
    \A u \in Users :
        /\ pc[u] = "loading" => snap[u] \in Nat
        /\ pc[u] = "loaded" =>
              /\ got[u] \in Handles /\ snap[u] \in Nat
              /\ born[got[u]] = snap[u]
              /\ Untouched(got[u]) /\ ~InCache(got[u])
              /\ \A v \in Users : Loaded(v, got[u]) => v = u

CacheOwns == cache # None => born[cache.h] = src /\ Untouched(cache.h)

Places ==
    \A h \in Handles :
        /\ \/ Untouched(h) \/ Waits(h) \/ Freed(h)
        /\ born[h] = None => Untouched(h)
        /\ born[h] # None /\ Untouched(h) => InCache(h) \/ \E u \in Users : Loaded(u, h)

\* A handle with these timers and frees that was taken age ago certainly lives
\* until the delay is over.
Lives(waits, freed, age) ==
    /\ age < Delay => freed = 0
    /\ \A w \in Nat : waits = <<w>> => age + w >= Delay

Timed ==
    /\ \A d \in Dialers : pc[d] = "dialing" =>
          got[d] \in Handles /\ Lives(releases[got[d]], frees[got[d]], since[d])
    /\ \A p \in Proxies : transport[p] # None =>
          Lives(releases[transport[p].h], frees[transport[p].h], transport[p].age)

IInv ==
    /\ Types
    /\ LoadersOwn
    /\ CacheOwns
    /\ Places
    /\ Timed

-----------------------------------------------------------------------------
LEMMA OneWait ==
    ASSUME NEW w \in Nat
    PROVE  /\ <<>> # <<w>> /\ Append(<<>>, w) = <<w>> /\ Head(<<w>>) = w /\ Tail(<<w>>) = <<>>
           /\ <<w>> \in Seq(Nat) /\ Len(<<w>>) = 1
           /\ \A v \in Nat : <<v>> = <<w>> => v = w
  OBVIOUS

LEMMA NoWait == <<>> \in Seq(Nat) /\ Len(<<>>) = 0
  OBVIOUS

LEMMA SoonerOne ==
    ASSUME NEW w \in Nat
    PROVE  Sooner(<<w>>) = << IF w = 0 THEN 0 ELSE w - 1 >>
  BY DEF Sooner

LEMMA SoonerNone == Sooner(<<>>) = <<>>
  BY DEF Sooner

\* An entry is never taken for none.
LEMMA EntryIsSome == \A e \in Entries : e # None /\ e.h \in Handles /\ e.age \in 0 .. CertTTL
  <1>1. Entries \subseteq [h : Nat, age : Nat]
    BY CacheAssumption DEF Entries, Handles
  <1> QED BY <1>1, CacheAssumption DEF Entries

LEMMA NewEntry == \A h \in Handles : [h |-> h, age |-> 0] \in Entries
  BY CacheAssumption DEF Entries

LEMMA InitHolds == Init => IInv
  <1> SUFFICES ASSUME Init PROVE IInv
    OBVIOUS
  <1>1. Types
    BY CacheAssumption, NoWait DEF Init, Types
  <1>2. LoadersOwn /\ CacheOwns /\ Places /\ Timed
    BY CacheAssumption DEF Init, LoadersOwn, CacheOwns, Places, Timed, Untouched, Users
  <1> QED BY <1>1, <1>2 DEF IInv

-----------------------------------------------------------------------------
\* What Use changes: the tunnel dials, or has a new transport.
LEMMA UseTypes ==
    ASSUME Types, NEW u \in Users, NEW h \in Handles, Use(u, h)
    PROVE  /\ pc' \in [Users -> {"idle", "loading", "loaded", "dialing"}]
           /\ got' \in [Users -> Handles \cup {None}]
           /\ since' = since
           /\ transport' \in [Proxies -> {None} \cup Entries]
           /\ pc'[u] \in {"idle", "dialing"}
           /\ \A v \in Users \ {u} : pc'[v] = pc[v] /\ got'[v] = got[v]
           /\ u \in Dialers => got'[u] = h
           /\ u \in Proxies => transport'[u] = [h |-> h, age |-> 0] /\ pc'[u] = "idle"
           /\ \A p \in Proxies \ {u} : transport'[p] = transport[p]
  BY CacheAssumption, NewEntry DEF Types, Use, Users

\* Whatever is taken before its timer is set lives; a handle whose timer is set
\* only now lives as before.
LEMMA LivesNow ==
    ASSUME NEW age \in Nat, NEW waits \in {<<>>, <<Delay>>}
    PROVE  Lives(waits, 0, age)
  <1>1. \A w \in Nat : waits = <<w>> => age + w >= Delay
    <2>1. CASE waits = <<>>
      BY <2>1, OneWait
    <2>2. CASE waits = <<Delay>>
      BY <2>2, OneWait, CacheAssumption
    <2> QED BY <2>1, <2>2
  <1> QED BY <1>1 DEF Lives

LEMMA LivesOn ==
    ASSUME NEW age \in Nat, NEW waits, NEW later \in {waits, <<Delay>>}, NEW freed,
           Lives(waits, freed, age)
    PROVE  Lives(later, freed, age)
  <1>1. CASE later = waits
    BY <1>1
  <1>2. CASE later = <<Delay>>
    <2>1. \A w \in Nat : <<Delay>> = <<w>> => age + w >= Delay
      BY OneWait, CacheAssumption
    <2> QED BY <1>2, <2>1 DEF Lives
  <1> QED BY <1>1, <1>2

LEMMA Ages ==
    ASSUME Types
    PROVE  /\ \A u \in Users : since[u] \in Nat
           /\ \A p \in Proxies : transport[p] # None =>
                 transport[p].h \in Handles /\ transport[p].age \in Nat
  BY EntryIsSome, CacheAssumption DEF Types

LEMMA UseTimed ==
    ASSUME Types, Timed, NEW u \in Users, NEW h \in Handles, Use(u, h),
           frees[h] = 0, releases'[h] \in {<<>>, <<Delay>>}, frees' = frees,
           \A k \in Handles : releases'[k] \in {releases[k], <<Delay>>}
    PROVE  Timed'
  <1>1. ASSUME NEW d \in Dialers, pc'[d] = "dialing"
        PROVE  got'[d] \in Handles /\ Lives(releases'[got'[d]], frees'[got'[d]], since'[d])
    <2>1. d \in Users /\ since'[d] = since[d] /\ since[d] \in Nat
      BY UseTypes, Ages DEF Users
    <2>2. CASE d = u
      BY <2>1, <2>2, UseTypes, LivesNow
    <2>3. CASE d # u
      <3>1. pc[d] = "dialing" /\ got'[d] = got[d]
        BY <1>1, <2>1, <2>3, UseTypes
      <3>2. got[d] \in Handles /\ Lives(releases[got[d]], frees[got[d]], since[d])
        BY <3>1 DEF Timed
      <3> QED BY <2>1, <3>1, <3>2, LivesOn
    <2> QED BY <2>2, <2>3
  <1>2. ASSUME NEW p \in Proxies, transport'[p] # None
        PROVE  Lives(releases'[transport'[p].h], frees'[transport'[p].h], transport'[p].age)
    <2>1. CASE p = u
      <3>1. transport'[p] = [h |-> h, age |-> 0]
        BY <2>1, UseTypes
      <3> QED BY <3>1, LivesNow
    <2>2. CASE p # u
      <3>1. transport'[p] = transport[p]
        BY <2>2, UseTypes
      <3>2. Lives(releases[transport[p].h], frees[transport[p].h], transport[p].age)
        BY <1>2, <3>1 DEF Timed
      <3> QED BY <1>2, <3>1, <3>2, Ages, LivesOn
    <2> QED BY <2>1, <2>2
  <1> QED BY <1>1, <1>2 DEF Timed

LEMMA LoadCertStep ==
    ASSUME IInv, NEW u \in Users, LoadCert(u)
    PROVE  IInv'
  <1> USE DEF IInv
  <1>1. UNCHANGED <<src, cache, born, releases, frees>> /\ pc[u] = "idle"
    BY DEF LoadCert, keys
  <1>2. CASE Fresh /\ Use(u, cache.h) /\ UNCHANGED snap
    <2>1. cache.h \in Handles /\ Untouched(cache.h)
      BY <1>2, EntryIsSome DEF Fresh, Types, CacheOwns
    <2>2. Types'
      BY <1>1, <1>2, <2>1, UseTypes DEF Types
    <2>3. Timed'
      BY <1>1, <1>2, <2>1, UseTimed DEF Untouched
    <2>4. \A v \in Users : pc'[v] \in {"loading", "loaded"} => pc'[v] = pc[v] /\ got'[v] = got[v]
      BY <1>2, <2>1, UseTypes
    <2>5. \A v \in Users : pc[v] = "loaded" => pc'[v] = pc[v] /\ got'[v] = got[v]
      BY <1>1, <1>2, <2>1, UseTypes
    <2> QED
      BY <1>1, <1>2, <2>2, <2>3, <2>4, <2>5
      DEF LoadersOwn, CacheOwns, Places, Untouched, Waits, Freed, InCache, Loaded
  <1>3. CASE ~Fresh /\ pc' = [pc EXCEPT ![u] = "loading"]
             /\ snap' = [snap EXCEPT ![u] = src] /\ UNCHANGED <<got, since, transport>>
    <2>1. Types'
      BY <1>1, <1>3 DEF Types
    <2>2. LoadersOwn' /\ CacheOwns' /\ Places'
      BY <1>1, <1>3
      DEF Types, LoadersOwn, CacheOwns, Places, Untouched, Waits, Freed, InCache, Loaded
    <2>3. Timed'
      BY <1>1, <1>3 DEF Types, Timed, Lives, Users
    <2> QED BY <2>1, <2>2, <2>3
  <1> QED BY <1>2, <1>3 DEF LoadCert

LEMMA LoadStep ==
    ASSUME IInv, NEW u \in Users, Load(u)
    PROVE  IInv'
  <1> USE DEF IInv
  <1>1. UNCHANGED <<src, cache, releases, frees, since, transport>> /\ pc[u] = "loading"
    BY DEF Load
  <1>2. ASSUME NEW h \in Handles, born[h] = None, born' = [born EXCEPT ![h] = snap[u]],
               got' = [got EXCEPT ![u] = h], pc' = [pc EXCEPT ![u] = "loaded"],
               UNCHANGED snap
        PROVE  IInv'
    <2>1. snap[u] \in Nat /\ Untouched(h)
      BY <1>1, <1>2 DEF LoadersOwn, Places
    <2>2. ~InCache(h) /\ \A v \in Users : ~Loaded(v, h)
      BY <1>2, CacheAssumption DEF InCache, Loaded, LoadersOwn, CacheOwns, Types
    <2>3. Types'
      BY <1>1, <1>2, <2>1 DEF Types
    <2>4. LoadersOwn'
      BY <1>1, <1>2, <2>1, <2>2 DEF Types, LoadersOwn, Untouched, InCache, Loaded
    <2>5. CacheOwns'
      BY <1>1, <1>2, <2>2, EntryIsSome DEF Types, CacheOwns, Untouched, InCache
    <2>6. Places'
      BY <1>1, <1>2, <2>1, <2>2, CacheAssumption
      DEF Types, Places, Untouched, Waits, Freed, InCache, Loaded
    <2>7. Timed'
      BY <1>1, <1>2 DEF Types, Timed, Lives, Users
    <2> QED BY <2>3, <2>4, <2>5, <2>6, <2>7
  <1>3. CASE /\ pc' = [pc EXCEPT ![u] = "idle"] /\ snap' = [snap EXCEPT ![u] = None]
             /\ UNCHANGED <<born, got>>
    <2>1. Types'
      BY <1>1, <1>3 DEF Types
    <2>2. LoadersOwn' /\ CacheOwns' /\ Places'
      BY <1>1, <1>3
      DEF Types, LoadersOwn, CacheOwns, Places, Untouched, Waits, Freed, InCache, Loaded
    <2>3. Timed'
      BY <1>1, <1>3 DEF Types, Timed, Lives, Users
    <2> QED BY <2>1, <2>2, <2>3
  <1> QED BY <1>2, <1>3 DEF Load

\* A loader that is done leaves what the others have to them.
LEMMA OthersKeep ==
    ASSUME LoadersOwn, NEW u \in Users, pc'[u] \notin {"loading", "loaded"},
           UNCHANGED <<born, frees>>,
           \A v \in Users \ {u} : pc'[v] = pc[v] /\ got'[v] = got[v] /\ snap'[v] = snap[v],
           \A v \in Users \ {u} : pc[v] = "loaded" =>
               releases'[got[v]] = releases[got[v]] /\ ~(cache' # None /\ cache'.h = got[v])
    PROVE  LoadersOwn'
  <1> SUFFICES ASSUME NEW v \in Users
               PROVE  /\ pc'[v] = "loading" => snap'[v] \in Nat
                      /\ pc'[v] = "loaded" =>
                            /\ got'[v] \in Handles /\ snap'[v] \in Nat
                            /\ born'[got'[v]] = snap'[v]
                            /\ releases'[got'[v]] = <<>> /\ frees'[got'[v]] = 0
                            /\ ~(cache' # None /\ cache'.h = got'[v])
                            /\ \A w \in Users :
                                  pc'[w] = "loaded" /\ got'[w] = got'[v] => w = v
    BY DEF LoadersOwn, Untouched, InCache, Loaded
  <1>1. CASE v = u
    BY <1>1
  <1>2. CASE v # u
    <2>1. pc[v] = "loaded" =>
             /\ got[v] \in Handles /\ snap[v] \in Nat /\ born[got[v]] = snap[v]
             /\ releases[got[v]] = <<>> /\ frees[got[v]] = 0
      BY DEF LoadersOwn, Untouched
    <2>2. ASSUME pc'[v] = "loaded", NEW w \in Users, pc'[w] = "loaded", got'[w] = got'[v]
          PROVE  w = v
      BY <1>2, <2>2 DEF LoadersOwn, Loaded
    <2> QED BY <1>2, <2>1, <2>2 DEF LoadersOwn
  <1> QED BY <1>1, <1>2

\* The certificate that is loaded now leaves its place, in the cache or with a
\* timer; so does the one that was in the cache.
LEMMA StoreStep ==
    ASSUME IInv, NEW u \in Users, Store(u)
    PROVE  IInv'
  <1> USE DEF IInv
  <1> DEFINE h == got[u]
  <1>1. /\ pc[u] = "loaded" /\ h \in Handles /\ snap[u] \in Nat /\ born[h] = snap[u]
        /\ Untouched(h) /\ ~InCache(h) /\ \A v \in Users : Loaded(v, h) => v = u
    BY DEF Store, LoadersOwn
  <1>2. /\ Use(u, h) /\ snap' = [snap EXCEPT ![u] = None]
        /\ UNCHANGED <<src, born, frees>>
    BY DEF Store
  <1>3. cache # None => cache.h \in Handles /\ Untouched(cache.h) /\ cache.h # h
    BY <1>1, EntryIsSome DEF Types, CacheOwns, InCache
  <1>4. /\ pc'[u] \in {"idle", "dialing"}
        /\ \A v \in Users \ {u} : pc'[v] = pc[v] /\ got'[v] = got[v] /\ snap'[v] = snap[v]
    BY <1>1, <1>2, UseTypes DEF Types
  <1>5. \A v \in Users \ {u} : pc[v] = "loaded" => got[v] # h
    BY <1>1 DEF Loaded
  <1>6. CASE src # snap[u] /\ releases' = Released(h) /\ UNCHANGED cache
    <2>1. releases' = [releases EXCEPT ![h] = <<Delay>>]
      BY <1>1, <1>6, OneWait, CacheAssumption DEF Released, Untouched
    <2>2. /\ releases'[h] = <<Delay>> /\ \A k \in Handles \ {h} : releases'[k] = releases[k]
          /\ releases' \in [Handles -> Seq(Nat)]
      BY <1>1, <2>1, OneWait, CacheAssumption DEF Types
    <2>3. Types'
      BY <1>1, <1>2, <1>6, <2>2, UseTypes DEF Types
    <2>4. \A v \in Users \ {u} : pc[v] = "loaded" =>
             releases'[got[v]] = releases[got[v]] /\ ~(cache' # None /\ cache'.h = got[v])
      BY <1>5, <1>6, <2>2 DEF LoadersOwn, InCache
    <2>5. LoadersOwn'
      BY <1>2, <1>4, <2>4, OthersKeep
    <2>6. CacheOwns'
      BY <1>2, <1>3, <1>6, <2>2 DEF CacheOwns, Untouched
    <2>7. Places'
      <3> SUFFICES ASSUME NEW k \in Handles
                   PROVE  /\ Untouched(k)' \/ Waits(k)' \/ Freed(k)'
                          /\ born'[k] = None => Untouched(k)'
                          /\ born'[k] # None /\ Untouched(k)' =>
                                InCache(k)' \/ \E v \in Users : Loaded(v, k)'
        BY DEF Places
      <3>1. CASE k = h
        BY <1>1, <1>2, <2>2, <3>1, OneWait, CacheAssumption DEF Untouched, Waits
      <3>2. CASE k # h
        <4>1. UNCHANGED <<releases[k], frees[k], born[k], cache>>
          BY <1>2, <1>6, <2>2, <3>2
        <4>2. \A v \in Users : Loaded(v, k) => Loaded(v, k)'
          BY <1>4, <3>2 DEF Loaded
        <4> QED BY <4>1, <4>2 DEF Places, Untouched, Waits, Freed, InCache
      <3> QED BY <3>1, <3>2
    <2>8. Timed'
      BY <1>1, <1>2, <2>2, UseTimed DEF Untouched
    <2> QED BY <2>3, <2>5, <2>6, <2>7, <2>8
  <1>7. CASE /\ src = snap[u] /\ cache' = [h |-> h, age |-> 0]
             /\ releases' = IF cache # None THEN Released(cache.h) ELSE releases
    <2>1. /\ \A k \in Handles : InCache(k) => releases'[k] = <<Delay>>
          /\ \A k \in Handles : ~InCache(k) => releases'[k] = releases[k]
          /\ releases' \in [Handles -> Seq(Nat)]
      <3>1. CASE cache = None
        BY <1>7, <3>1 DEF Types, InCache
      <3>2. CASE cache # None
        <4>1. releases' = [releases EXCEPT ![cache.h] = <<Delay>>]
          BY <1>3, <1>7, <3>2, OneWait, CacheAssumption DEF Released, Untouched
        <4> QED BY <1>3, <3>2, <4>1, OneWait, CacheAssumption DEF Types, InCache
      <3> QED BY <3>1, <3>2
    <2>2. cache' \in Entries /\ cache' # None /\ cache'.h = h
      BY <1>1, <1>7, NewEntry, EntryIsSome
    <2>3. Types'
      BY <1>1, <1>2, <2>1, <2>2, UseTypes DEF Types
    <2>4. \A v \in Users \ {u} : pc[v] = "loaded" =>
             releases'[got[v]] = releases[got[v]] /\ ~(cache' # None /\ cache'.h = got[v])
      BY <1>5, <2>1, <2>2 DEF LoadersOwn, InCache
    <2>5. LoadersOwn'
      BY <1>2, <1>4, <2>4, OthersKeep
    <2>6. CacheOwns'
      BY <1>1, <1>2, <1>7, <2>1, <2>2 DEF CacheOwns, Untouched
    <2>7. Places'
      <3> SUFFICES ASSUME NEW k \in Handles
                   PROVE  /\ Untouched(k)' \/ Waits(k)' \/ Freed(k)'
                          /\ born'[k] = None => Untouched(k)'
                          /\ born'[k] # None /\ Untouched(k)' =>
                                InCache(k)' \/ \E v \in Users : Loaded(v, k)'
        BY DEF Places
      <3>1. CASE k = h
        BY <1>1, <1>2, <2>1, <2>2, <3>1, CacheAssumption DEF Untouched, InCache
      <3>2. CASE InCache(k)
        <4>1. frees'[k] = 0 /\ releases'[k] = <<Delay>> /\ born'[k] # None
          BY <1>2, <2>1, <3>2, CacheAssumption DEF InCache, CacheOwns, Untouched, Types
        <4> QED BY <4>1, OneWait, CacheAssumption DEF Untouched, Waits
      <3>3. CASE k # h /\ ~InCache(k)
        <4>1. UNCHANGED <<releases[k], frees[k], born[k]>>
          BY <1>2, <2>1, <3>3
        <4>2. \A v \in Users : Loaded(v, k) => Loaded(v, k)'
          BY <1>4, <3>3 DEF Loaded
        <4> QED BY <3>3, <4>1, <4>2 DEF Places, Untouched, Waits, Freed
      <3> QED BY <3>1, <3>2, <3>3
    <2>8. Timed'
      BY <1>1, <1>2, <2>1, UseTimed DEF Untouched
    <2> QED BY <2>3, <2>5, <2>6, <2>7, <2>8
  <1> QED BY <1>2, <1>6, <1>7 DEF Store

\* A tunnel that dials with its transport.
LEMMA DialTransportStep ==
    ASSUME IInv, NEW p \in Proxies, DialTransport(p)
    PROVE  IInv'
  <1> USE DEF IInv
  <1>1. /\ pc[p] = "idle" /\ transport[p] # None
        /\ pc' = [pc EXCEPT ![p] = "dialing"] /\ got' = [got EXCEPT ![p] = transport[p].h]
        /\ UNCHANGED <<src, cache, born, releases, frees, snap, since, transport>>
    BY DEF DialTransport, keys
  <1>2. transport[p].h \in Handles
    BY <1>1, Ages
  <1>3. Types'
    BY <1>1, <1>2 DEF Types
  <1>4. LoadersOwn' /\ CacheOwns' /\ Places'
    BY <1>1 DEF Types, LoadersOwn, CacheOwns, Places, Untouched, Waits, Freed, InCache, Loaded
  <1>5. Timed'
    BY <1>1, CacheAssumption DEF Types, Timed, Users
  <1> QED BY <1>3, <1>4, <1>5

LEMMA DialedStep ==
    ASSUME IInv, NEW u \in Users, Dialed(u)
    PROVE  IInv'
  <1> USE DEF IInv
  <1>1. /\ pc[u] = "dialing" /\ pc' = [pc EXCEPT ![u] = "idle"]
        /\ got' = [got EXCEPT ![u] = None] /\ since' = [since EXCEPT ![u] = 0]
        /\ UNCHANGED <<src, cache, born, releases, frees, snap, transport>>
    BY DEF Dialed, keys
  <1>2. Types'
    BY <1>1, CacheAssumption DEF Types
  <1>3. LoadersOwn' /\ CacheOwns' /\ Places'
    BY <1>1 DEF Types, LoadersOwn, CacheOwns, Places, Untouched, Waits, Freed, InCache, Loaded
  <1>4. Timed'
    BY <1>1 DEF Types, Timed, Users
  <1> QED BY <1>2, <1>3, <1>4

\* The certificate of the old source gets its timer.
LEMMA SetSourceStep ==
    ASSUME IInv, SetSource
    PROVE  IInv'
  <1> USE DEF IInv
  <1>1. src' = src + 1 /\ cache' = None /\ UNCHANGED <<born, frees, pc, snap, got, since, transport>>
    BY DEF SetSource, local
  <1>2. /\ \A k \in Handles : InCache(k) => releases'[k] = <<Delay>>
        /\ \A k \in Handles : ~InCache(k) => releases'[k] = releases[k]
        /\ releases' \in [Handles -> Seq(Nat)]
    <2>1. CASE cache = None
      BY <2>1 DEF SetSource, Types, InCache
    <2>2. CASE cache # None
      <3>1. cache.h \in Handles /\ Untouched(cache.h)
        BY <2>2, EntryIsSome DEF Types, CacheOwns
      <3>2. releases' = [releases EXCEPT ![cache.h] = <<Delay>>]
        BY <2>2, <3>1, OneWait, CacheAssumption DEF SetSource, Released, Untouched
      <3> QED BY <2>2, <3>1, <3>2, OneWait, CacheAssumption DEF Types, InCache
    <2> QED BY <2>1, <2>2
  <1>3. Types'
    BY <1>1, <1>2 DEF Types
  <1>4. LoadersOwn'
    BY <1>1, <1>2 DEF LoadersOwn, Untouched, InCache, Loaded
  <1>5. CacheOwns'
    BY <1>1 DEF CacheOwns
  <1>6. Places'
    <2> SUFFICES ASSUME NEW k \in Handles
                 PROVE  /\ Untouched(k)' \/ Waits(k)' \/ Freed(k)'
                        /\ born'[k] = None => Untouched(k)'
                        /\ born'[k] # None /\ Untouched(k)' =>
                              InCache(k)' \/ \E u \in Users : Loaded(u, k)'
      BY DEF Places
    <2>1. CASE InCache(k)
      <3>1. frees'[k] = 0 /\ releases'[k] = <<Delay>> /\ born'[k] # None
        BY <1>1, <1>2, <2>1, CacheAssumption DEF InCache, CacheOwns, Untouched, Types
      <3> QED BY <3>1, OneWait, CacheAssumption DEF Untouched, Waits
    <2>2. CASE ~InCache(k)
      BY <1>1, <1>2, <2>2 DEF Places, Untouched, Waits, Freed, Loaded
    <2> QED BY <2>1, <2>2
  <1>7. Timed'
    <2>1. \A k \in Handles : releases'[k] \in {releases[k], <<Delay>>}
      BY <1>2
    <2>2. ASSUME NEW d \in Dialers, pc'[d] = "dialing"
          PROVE  got'[d] \in Handles /\ Lives(releases'[got'[d]], frees'[got'[d]], since'[d])
      <3>1. got[d] \in Handles /\ Lives(releases[got[d]], frees[got[d]], since[d])
        BY <1>1, <2>2 DEF Timed
      <3>2. since[d] \in Nat
        BY Ages DEF Users
      <3> QED BY <1>1, <2>1, <3>1, <3>2, LivesOn
    <2>3. ASSUME NEW p \in Proxies, transport'[p] # None
          PROVE  Lives(releases'[transport'[p].h], frees'[transport'[p].h], transport'[p].age)
      <3>1. Lives(releases[transport[p].h], frees[transport[p].h], transport[p].age)
        BY <1>1, <2>3 DEF Timed
      <3> QED BY <1>1, <2>1, <2>3, <3>1, Ages, LivesOn
    <2> QED BY <2>2, <2>3 DEF Timed
  <1> QED BY <1>3, <1>4, <1>5, <1>6, <1>7

\* A timer that has run out: whoever took the handle has had it for the delay.
LEMMA FreeStep ==
    ASSUME IInv, NEW h \in Handles, Free(h)
    PROVE  IInv'
  <1> USE DEF IInv
  <1>1. /\ releases[h] # <<>> /\ Head(releases[h]) = 0
        /\ releases' = [releases EXCEPT ![h] = Tail(@)] /\ frees' = [frees EXCEPT ![h] = @ + 1]
        /\ UNCHANGED <<src, cache, born, pc, snap, got, since, transport>>
    BY DEF Free, local
  <1>2. Waits(h) /\ releases[h] = <<0>>
    BY <1>1, OneWait DEF Places, Untouched, Waits, Freed
  <1>3. /\ releases' = [releases EXCEPT ![h] = <<>>] /\ frees' = [frees EXCEPT ![h] = 1]
    BY <1>1, <1>2, OneWait DEF Waits, Types
  <1>4. Types'
    BY <1>1, <1>3, NoWait DEF Types
  <1>5. ~Untouched(h)
    BY <1>2, OneWait DEF Untouched
  <1>6. LoadersOwn'
    BY <1>1, <1>3, <1>5 DEF Types, LoadersOwn, Untouched, InCache, Loaded
  <1>7. CacheOwns'
    BY <1>1, <1>3, <1>5, EntryIsSome DEF Types, CacheOwns, Untouched
  <1>8. Places'
    BY <1>1, <1>3, <1>5 DEF Types, Places, Untouched, Waits, Freed, InCache, Loaded
  <1>9. ASSUME NEW k \in Handles, NEW age \in Nat, Lives(releases[k], frees[k], age)
        PROVE  Lives(releases'[k], frees'[k], age)
    <2>1. CASE k # h
      BY <1>1, <1>9, <2>1 DEF Types
    <2>2. CASE k = h
      <3>1. age >= Delay
        BY <1>2, <1>9, <2>2 DEF Lives
      <3> QED BY <3>1, CacheAssumption DEF Lives
    <2> QED BY <2>1, <2>2
  <1>10. Timed'
    BY <1>1, <1>9, Ages DEF Timed, Users
  <1> QED BY <1>4, <1>6, <1>7, <1>8, <1>10

\* An age grows as time does, or the delay is over.
Grows(age, older) ==
    \/ older = age + 1
    \/ older = age /\ age >= Delay

\* Time passes for who has taken a handle as it does for its timer.
LEMMA TickStep ==
    ASSUME IInv, Tick
    PROVE  IInv'
  <1> USE DEF IInv
  <1>1. /\ \A u \in Users : pc[u] = "dialing" => since[u] < DialTime
        /\ cache' = Older(cache)
        /\ transport' = [p \in Proxies |-> Older(transport[p])]
        /\ since' = [u \in Users |-> IF pc[u] = "dialing" THEN since[u] + 1 ELSE 0]
        /\ releases' = [h \in Handles |-> Sooner(releases[h])]
        /\ UNCHANGED <<src, born, frees, pc, snap, got>>
    BY DEF Tick
  <1>2. ASSUME NEW e \in {None} \cup Entries
        PROVE  /\ Older(e) \in {None} \cup Entries
               /\ e = None <=> Older(e) = None
               /\ e # None => /\ Older(e).h = e.h
                              /\ Older(e).age = IF e.age = CertTTL THEN CertTTL ELSE e.age + 1
    <2>1. CASE e = None
      BY <2>1 DEF Older
    <2>2. CASE e # None
      <3>1. e \in Entries /\ e.age \in 0 .. CertTTL
        BY <2>2, EntryIsSome
      <3>2. CASE e.age = CertTTL
        BY <2>2, <3>1, <3>2 DEF Older
      <3>3. CASE e.age # CertTTL
        <4>1. Older(e) = [h |-> e.h, age |-> e.age + 1]
          BY <2>2, <3>1, <3>3 DEF Older, Entries
        <4>2. Older(e) \in Entries
          BY <3>1, <3>3, <4>1, CacheAssumption DEF Entries
        <4> QED BY <2>2, <3>3, <4>1, <4>2, EntryIsSome
      <3> QED BY <3>2, <3>3
    <2> QED BY <2>1, <2>2
  <1>3. ASSUME NEW h \in Handles
        PROVE  /\ releases'[h] \in Seq(Nat)
               /\ releases[h] = <<>> <=> releases'[h] = <<>>
               /\ \A w \in Nat : releases[h] = <<w>> =>
                     releases'[h] = << IF w = 0 THEN 0 ELSE w - 1 >>
               /\ Untouched(h) \/ Freed(h) \/ Waits(h)
    <2>1. releases'[h] = Sooner(releases[h]) /\ (Untouched(h) \/ Freed(h) \/ Waits(h))
      BY <1>1 DEF Places
    <2>2. CASE releases[h] = <<>>
      BY <2>1, <2>2, SoonerNone, NoWait, OneWait
    <2>3. CASE \E w \in Nat : releases[h] = <<w>>
      <3>1. PICK w \in Nat : releases[h] = <<w>>
        BY <2>3
      <3>2. releases'[h] = << IF w = 0 THEN 0 ELSE w - 1 >>
        BY <2>1, <3>1, SoonerOne
      <3>3. (IF w = 0 THEN 0 ELSE w - 1) \in Nat
        OBVIOUS
      <3> QED BY <2>1, <3>1, <3>2, <3>3, OneWait
    <2> QED BY <2>1, <2>2, <2>3 DEF Untouched, Freed, Waits
  <1>4. Types'
    <2>1. since' \in [Users -> 0 .. DialTime]
      BY <1>1, CacheAssumption DEF Types
    <2>2. releases' \in [Handles -> Seq(Nat)]
      BY <1>1, <1>3
    <2>3. cache' \in {None} \cup Entries /\ transport' \in [Proxies -> {None} \cup Entries]
      BY <1>1, <1>2 DEF Types
    <2> QED BY <1>1, <2>1, <2>2, <2>3 DEF Types
  <1>5. \A h \in Handles : /\ InCache(h)' <=> InCache(h)
                           /\ Untouched(h)' <=> Untouched(h)
                           /\ Freed(h)' <=> Freed(h)
    BY <1>1, <1>2, <1>3 DEF Types, InCache, Untouched, Freed
  <1>6. \A h \in Handles : Waits(h) => Waits(h)'
    <2> SUFFICES ASSUME NEW h \in Handles, Waits(h) PROVE Waits(h)'
      OBVIOUS
    <2>1. PICK w \in Nat : releases[h] = <<w>>
      BY DEF Waits
    <2>2. (IF w = 0 THEN 0 ELSE w - 1) \in Nat
      OBVIOUS
    <2> QED BY <1>1, <1>3, <2>1, <2>2 DEF Waits
  <1>7. LoadersOwn' /\ Places'
    BY <1>1, <1>5, <1>6 DEF LoadersOwn, Places, Loaded
  <1>8. CacheOwns'
    BY <1>1, <1>2, <1>5, EntryIsSome DEF Types, CacheOwns
  <1>9. ASSUME NEW h \in Handles, NEW age \in Nat, NEW older \in Nat,
               Grows(age, older),
               Lives(releases[h], frees[h], age)
        PROVE  Lives(releases'[h], frees'[h], older)
    <2>1. older < Delay => frees'[h] = 0
      BY <1>1, <1>9, CacheAssumption DEF Lives, Grows
    <2>2. ASSUME NEW w \in Nat, releases'[h] = <<w>> PROVE older + w >= Delay
      <3>1. PICK v \in Nat : releases[h] = <<v>>
        BY <1>3, <2>2, OneWait DEF Untouched, Freed, Waits
      <3>2. age + v >= Delay
        BY <1>9, <3>1 DEF Lives
      <3>3. w = IF v = 0 THEN 0 ELSE v - 1
        BY <1>3, <2>2, <3>1, OneWait
      <3> QED BY <1>9, <3>2, <3>3, CacheAssumption DEF Grows
    <2> QED BY <2>1, <2>2 DEF Lives
  <1>10. Timed'
    <2>1. ASSUME NEW d \in Dialers, pc'[d] = "dialing"
          PROVE  got'[d] \in Handles /\ Lives(releases'[got'[d]], frees'[got'[d]], since'[d])
      <3>1. got[d] \in Handles /\ Lives(releases[got[d]], frees[got[d]], since[d])
        BY <1>1, <2>1 DEF Timed
      <3>2. since[d] \in Nat /\ since'[d] \in Nat /\ Grows(since[d], since'[d])
        BY <1>1, <2>1, Ages DEF Users, Grows
      <3>3. Lives(releases'[got[d]], frees'[got[d]], since'[d])
        BY <1>9, <3>1, <3>2
      <3> QED BY <1>1, <3>1, <3>3
    <2>2. ASSUME NEW p \in Proxies, transport'[p] # None
          PROVE  Lives(releases'[transport'[p].h], frees'[transport'[p].h], transport'[p].age)
      <3>1. transport[p] \in Entries /\ transport[p] # None /\ transport'[p] = Older(transport[p])
        BY <1>1, <1>2, <2>2 DEF Types
      <3>2. Lives(releases[transport[p].h], frees[transport[p].h], transport[p].age)
        BY <3>1 DEF Timed
      <3>3. /\ transport'[p].h = transport[p].h /\ transport[p].h \in Handles
            /\ transport[p].age \in Nat /\ transport'[p].age \in Nat
            /\ Grows(transport[p].age, transport'[p].age)
        BY <1>2, <3>1, EntryIsSome, CacheAssumption, TimesAssumption DEF Grows
      <3>4. Lives(releases'[transport[p].h], frees'[transport[p].h], transport'[p].age)
        BY <1>9, <3>2, <3>3
      <3> QED BY <3>3, <3>4
    <2> QED BY <2>1, <2>2 DEF Timed
  <1> QED BY <1>4, <1>7, <1>8, <1>10

-----------------------------------------------------------------------------
LEMMA StepKeeps == IInv /\ [Next]_vars => IInv'
  <1> SUFFICES ASSUME IInv, [Next]_vars PROVE IInv'
    OBVIOUS
  <1>1. CASE UNCHANGED vars
    BY <1>1
    DEF vars, keys, local, IInv, Types, LoadersOwn, CacheOwns, Places, Timed,
        Untouched, Waits, Freed, InCache, Loaded
  <1>2. ASSUME NEW u \in Users, LoadCert(u) \/ Load(u) \/ Store(u) \/ Dialed(u) PROVE IInv'
    BY <1>2, LoadCertStep, LoadStep, StoreStep, DialedStep
  <1>3. ASSUME NEW p \in Proxies, DialTransport(p) PROVE IInv'
    BY <1>3, DialTransportStep
  <1>4. CASE SetSource
    BY <1>4, SetSourceStep
  <1>5. ASSUME NEW h \in Handles, Free(h) PROVE IInv'
    BY <1>5, FreeStep
  <1>6. CASE Tick
    BY <1>6, TickStep
  <1> QED BY <1>1, <1>2, <1>3, <1>4, <1>5, <1>6 DEF Next

LEMMA Inductive == Spec => []IInv
  BY InitHolds, StepKeeps, PTL DEF Spec

\* What SetSource clears stays cleared: no loader of an old source puts its
\* certificate into the cache.
THEOREM SourceCorrect == Spec => []SourceCurrent
  <1>1. IInv => SourceCurrent
    BY DEF IInv, CacheOwns, SourceCurrent
  <1> QED BY <1>1, Inductive, PTL

\* Every handle that was loaded has one owner: none leaks, none is freed twice.
THEOREM OwnerCorrect == Spec => []OneOwner
  <1>1. IInv => OneOwner
    <2> SUFFICES ASSUME IInv, NEW h \in Handles, born[h] # None
                 PROVE  Cardinality({u \in Users : pc[u] = "loaded" /\ got[u] = h})
                          + (IF cache # None /\ cache.h = h THEN 1 ELSE 0)
                          + Len(releases[h]) + frees[h] = 1
      BY DEF OneOwner
    <2> DEFINE Loaders == {u \in Users : pc[u] = "loaded" /\ got[u] = h}
    <2>1. CASE \E u \in Users : Loaded(u, h)
      <3>1. PICK u \in Users : Loaded(u, h)
        BY <2>1
      <3>2. Untouched(h) /\ ~InCache(h) /\ \A v \in Users : Loaded(v, h) => v = u
        BY <3>1 DEF IInv, LoadersOwn, Loaded
      <3>3. Loaders = {u}
        BY <3>1, <3>2 DEF Loaded
      <3>4. Cardinality(Loaders) = 1
        BY <3>3, FS_Singleton
      <3> QED BY <3>2, <3>4, NoWait DEF Untouched, InCache
    <2>2. CASE ~\E u \in Users : Loaded(u, h)
      <3>1. Loaders = {}
        BY <2>2 DEF Loaded
      <3>2. Cardinality(Loaders) = 0
        BY <3>1, FS_EmptySet
      <3>3. CASE Untouched(h)
        <4>1. InCache(h)
          BY <2>2, <3>3 DEF IInv, Places
        <4> QED BY <3>2, <3>3, <4>1, NoWait DEF Untouched, InCache
      <3>4. CASE Waits(h)
        <4>1. Len(releases[h]) = 1 /\ frees[h] = 0 /\ ~InCache(h)
          BY <3>4, OneWait DEF Waits, Untouched, InCache, IInv, CacheOwns
        <4> QED BY <3>2, <4>1 DEF InCache
      <3>5. CASE Freed(h)
        <4>1. Len(releases[h]) = 0 /\ frees[h] = 1 /\ ~InCache(h)
          BY <3>5, NoWait DEF Freed, Untouched, InCache, IInv, CacheOwns
        <4> QED BY <3>2, <4>1 DEF InCache
      <3> QED BY <3>3, <3>4, <3>5 DEF IInv, Places
    <2> QED BY <2>1, <2>2
  <1> QED BY <1>1, Inductive, PTL

\* A dial is over before the delay of whatever it uses is; so is the first use of
\* a young transport.
THEOREM DialCorrect == Spec => []DialSafe
  <1>1. IInv => DialSafe
    <2> SUFFICES ASSUME IInv PROVE DialSafe
      OBVIOUS
    <2>1. ASSUME NEW d \in Dialers, pc[d] = "dialing" PROVE frees[got[d]] = 0
      <3>1. since[d] \in 0 .. DialTime
        BY DEF IInv, Types, Users
      <3>2. since[d] < Delay
        BY <3>1, CacheAssumption, TimesAssumption
      <3> QED BY <2>1, <3>2 DEF IInv, Timed, Lives
    <2> QED BY <2>1 DEF IInv, Timed, Lives, DialSafe
  <1> QED BY <1>1, Inductive, PTL

=============================================================================
