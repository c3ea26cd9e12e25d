-------------------------- MODULE RelayTunnels_proofs --------------------------
(***************************************************************************)
(* Who owns a listening socket of mtls-relay, what a reported success is   *)
(* worth, and which listeners outlive a reload, for any configurations,    *)
(* any addresses and anything that other programs do with the ports.       *)
(***************************************************************************)
EXTENDS RelayTunnels, TLAPS

Runtimes == [spec : RouteSpecs, at : Addresses \cup {None}]

Types ==
    /\ host \in Hosts /\ started \in BOOLEAN /\ ok \in BOOLEAN
    /\ conf \in Setups /\ todo \in Seq(RouteSpecs)
    /\ pc \in {"idle", "start", "routes", "switch", "restore", "rebuild"}
    /\ tun \in [DOMAIN tun -> Runtimes]

\* A runtime is filed under the key of its own route, during the hot switch too.
Filed ==
    /\ \A k \in DOMAIN tun : Key(tun[k].spec) = k
    /\ pc \in {"switch", "restore"} => todo # <<>> /\ Key(Head(todo)) \in DOMAIN tun
    /\ pc = "rebuild" => rest \subseteq DOMAIN tun

\* The runtimes whose listener runs: all but the one that is being switched.
Running == IF pc \in {"switch", "restore"} THEN DOMAIN tun \ {Key(Head(todo))} ELSE DOMAIN tun

Owned ==
    /\ sock = {tun[k].at : k \in Running} \ {None}
    /\ \A k, l \in Running : tun[k].at = tun[l].at /\ tun[k].at # None => k = l

\* Start begins without a runtime, and what it starts is on one address.
Phases ==
    /\ pc = "start" => ~started /\ \A k \in DOMAIN tun : tun[k].at \in {None, Addr(tun[k].spec)}
    /\ pc = "idle" /\ ~started => DOMAIN tun = {}
    /\ pc \notin {"idle", "start"} => started

Inv == Types /\ Filed /\ Owned /\ Phases

-----------------------------------------------------------------------------
LEMMA EmptyTodo == <<>> \in Seq(RouteSpecs)
OBVIOUS

LEMMA InvInit == Init => Inv
<1> SUFFICES ASSUME Init PROVE Inv
  OBVIOUS
<1>1. DOMAIN tun = {} /\ tun \in [DOMAIN tun -> Runtimes]
  BY DEF Init
<1>2. Types
  BY <1>1, EmptyTodo DEF Init, Types
<1>3. Filed /\ Phases
  BY <1>1 DEF Init, Filed, Phases
<1>4. Owned
  BY <1>1 DEF Init, Owned, Running
<1> QED
  BY <1>2, <1>3, <1>4 DEF Inv

LEMMA InvOwned == Inv => SocketsOwned
BY DEF Inv, Types, Filed, Running, Owned, Phases, SocketsOwned, Listening

\* A free address is not one of the relay's own.
LEMMA FreeIsNew == ASSUME NEW a, Free(a) PROVE a \notin sock
BY DEF Free, Clash

LEMMA AddrIs == ASSUME Inv, NEW s \in RouteSpecs PROVE Addr(s) \in Addresses /\ Addr(s) # None
BY NoneAssumption DEF Inv, Types, RouteSpecs, Addresses, Addr

\* What a start of a route does to the runtimes: the new one is filed under its
\* key, and the others stay as they are.
LEMMA StartFiled ==
  ASSUME Inv, NEW s \in RouteSpecs, StartTunnel(s)
  PROVE  /\ tun' \in [DOMAIN tun' -> Runtimes]
         /\ DOMAIN tun' = DOMAIN tun \cup {Key(s)}
         /\ \A k \in DOMAIN tun' : Key(tun'[k].spec) = k
         /\ tun'[Key(s)].spec = s
         /\ \A k \in DOMAIN tun \ {Key(s)} : tun'[k] = tun[k]
         /\ \/ Free(Addr(s)) /\ tun'[Key(s)].at = Addr(s) /\ sock' = sock \cup {Addr(s)}
            \/ Guest(s) /\ ~Free(Addr(s)) /\ tun'[Key(s)].at = None /\ sock' = sock
<1>1. Runtime(s) \in Runtimes /\ Runtime(s).spec = s
  BY AddrIs DEF Runtime, Runtimes
<1>2. \A k \in DOMAIN tun : tun[k] \in Runtimes /\ Key(tun[k].spec) = k
  BY DEF Inv, Types, Filed
<1>3. DOMAIN tun' = DOMAIN tun \cup {Key(s)}
  BY DEF StartTunnel
<1>4. \A k \in DOMAIN tun' : tun'[k] = IF k = Key(s) THEN Runtime(s) ELSE tun[k]
  BY <1>3 DEF StartTunnel
<1>5. tun' = [k \in DOMAIN tun' |-> tun'[k]]
  BY <1>3 DEF StartTunnel
<1> QED
  BY <1>1, <1>2, <1>3, <1>4, <1>5 DEF StartTunnel, Starts, Runtime

\* A route whose key has no running listener may be started: sockets and
\* listeners still correspond one to one.
LEMMA StartOwned ==
  ASSUME Inv, NEW s \in RouteSpecs, StartTunnel(s),
         NEW R, R = DOMAIN tun \ {Key(s)},
         sock = {tun[k].at : k \in R} \ {None},
         \A k, l \in R : tun[k].at = tun[l].at /\ tun[k].at # None => k = l
  PROVE  /\ sock' = {tun'[k].at : k \in DOMAIN tun'} \ {None}
         /\ \A k, l \in DOMAIN tun' : tun'[k].at = tun'[l].at /\ tun'[k].at # None => k = l
<1>1. /\ DOMAIN tun' = R \cup {Key(s)}
      /\ \A k \in R : tun'[k] = tun[k]
      /\ \/ Free(Addr(s)) /\ tun'[Key(s)].at = Addr(s) /\ sock' = sock \cup {Addr(s)}
         \/ tun'[Key(s)].at = None /\ sock' = sock
  BY StartFiled
<1>2. Addr(s) # None
  BY AddrIs
<1>3. CASE Free(Addr(s)) /\ tun'[Key(s)].at = Addr(s) /\ sock' = sock \cup {Addr(s)}
  <2>1. \A k \in R : tun'[k].at # Addr(s)
    BY <1>1, <1>2, <1>3, FreeIsNew
  <2> QED
    BY <1>1, <1>2, <1>3, <2>1
<1>4. CASE tun'[Key(s)].at = None /\ sock' = sock
  BY <1>1, <1>4
<1> QED
  BY <1>1, <1>3, <1>4

\* A stop of some runtimes closes their sockets and no others.
LEMMA StopOwned ==
  ASSUME Inv, pc \notin {"switch", "restore"}, NEW ks \in SUBSET DOMAIN tun, StopTunnels(ks)
  PROVE  /\ tun' \in [DOMAIN tun' -> Runtimes]
         /\ DOMAIN tun' = DOMAIN tun \ ks
         /\ \A k \in DOMAIN tun' : tun'[k] = tun[k]
         /\ sock' = {tun'[k].at : k \in DOMAIN tun'} \ {None}
<1>1. /\ DOMAIN tun' = DOMAIN tun \ ks
      /\ tun' = [k \in DOMAIN tun' |-> tun[k]]
  BY DEF StopTunnels, Without
<1>2. sock' = sock \ {tun[k].at : k \in ks}
  BY DEF StopTunnels, Listening, Inv, Owned, Running
<1> QED
  BY <1>1, <1>2 DEF Inv, Types, Owned, Running

-----------------------------------------------------------------------------
\* One lemma per phase of an operation.
LEMMA IdleStep ==
  ASSUME Inv, pc = "idle",
         StartDone \/ Stop \/ \E c \in Setups : Start(c) \/ Reload(c)
  PROVE  Inv'
<1>1. ASSUME NEW c \in Setups, Start(c) \/ Reload(c) PROVE Inv'
  <2>1. Specs(c) \in Seq(RouteSpecs) /\ c.host \in Hosts
    BY SetupsAssumption
  <2>2. tun' = tun /\ sock' = sock /\ started' = started /\ conf' = c /\ host' = c.host
    BY <1>1 DEF Start, Reload, Begin
  <2>3. \/ pc' = "idle" /\ todo' = <<>> /\ ok' = FALSE
        \/ todo' = Specs(c) /\ ok' = TRUE /\ pc' = IF started THEN "routes" ELSE "start"
    BY <1>1 DEF Start, Reload, Begin
  <2>4. Types' /\ Filed'
    <3>1. todo' \in Seq(RouteSpecs) /\ ok' \in BOOLEAN /\ pc' \in {"idle", "start", "routes"}
      BY <2>1, <2>3, EmptyTodo
    <3> QED
      BY <2>1, <2>2, <3>1 DEF Inv, Types, Filed
  <2>5. Owned'
    BY <2>2, <2>3 DEF Inv, Owned, Running
  <2>6. Phases'
    BY <2>2, <2>3 DEF Inv, Phases, Types
  <2> QED
    BY <2>4, <2>5, <2>6 DEF Inv
<1>2. ASSUME Stop PROVE Inv'
  <2>1. /\ tun' \in [DOMAIN tun' -> Runtimes] /\ DOMAIN tun' = {}
        /\ sock' = {tun'[k].at : k \in DOMAIN tun'} \ {None}
    BY <1>2, StopOwned DEF Stop
  <2>2. pc' = "idle" /\ started' = FALSE /\ UNCHANGED <<host, conf, todo, ok>>
    BY <1>2 DEF Stop, work
  <2>3. Types'
    BY <2>1, <2>2 DEF Inv, Types
  <2>4. Filed' /\ Phases'
    BY <2>1, <2>2 DEF Filed, Phases
  <2>5. Owned'
    BY <2>1, <2>2 DEF Owned, Running
  <2> QED
    BY <2>3, <2>4, <2>5 DEF Inv
<1> QED
  BY <1>1, <1>2 DEF StartDone

LEMMA StartStep ==
  ASSUME Inv, pc = "start", StartRoute \/ StartDone
  PROVE  Inv'
<1>1. ASSUME StartRoute, StartTunnel(Head(todo)), todo # <<>>, todo' = Tail(todo), UNCHANGED <<pc, ok>>
      PROVE  Inv'
  <2> DEFINE s == Head(todo)
  <2>1. s \in RouteSpecs /\ todo' \in Seq(RouteSpecs)
    BY <1>1 DEF Inv, Types
  <2>2. pc' = "start" /\ UNCHANGED <<host, started, conf, ok>>
    BY <1>1 DEF StartRoute, run
  <2>3. /\ tun' \in [DOMAIN tun' -> Runtimes]
        /\ DOMAIN tun' = DOMAIN tun \cup {Key(s)}
        /\ \A k \in DOMAIN tun' : Key(tun'[k].spec) = k
        /\ tun'[Key(s)].spec = s
        /\ \A k \in DOMAIN tun \ {Key(s)} : tun'[k] = tun[k]
        /\ tun'[Key(s)].at \in {Addr(s), None}
    BY <1>1, <2>1, StartFiled
  <2>4. Types' /\ Filed'
    BY <2>1, <2>2, <2>3 DEF Inv, Types, Filed
  <2>5. Phases'
    BY <2>2, <2>3 DEF Inv, Phases, Addr
  \* A second route with the same key has the same address, so that its
  \* predecessor has no listener that could be lost.
  <2>6. CASE Key(s) \notin DOMAIN tun \/ tun[Key(s)].at = None
    <3>1. /\ sock = {tun[k].at : k \in DOMAIN tun \ {Key(s)}} \ {None}
          /\ \A k, l \in DOMAIN tun \ {Key(s)} : tun[k].at = tun[l].at /\ tun[k].at # None => k = l
      BY <2>6, <1>1 DEF Inv, Owned, Running, StartRoute
    <3>2. Owned'
      BY <1>1, <2>1, <2>2, <3>1, StartOwned DEF Owned, Running
    <3> QED
      BY <2>4, <2>5, <3>2 DEF Inv
  <2>7. CASE Key(s) \in DOMAIN tun /\ tun[Key(s)].at # None
    <3>1. Key(tun[Key(s)].spec) = Key(s) /\ tun[Key(s)].spec \in RouteSpecs
      BY <2>7 DEF Inv, Types, Filed, Runtimes
    <3>2. tun[Key(s)].spec.port = s.port /\ tun[Key(s)].spec.path = s.path
      BY <3>1 DEF Key
    <3>3. tun[Key(s)].at = Addr(s) /\ Addr(s) \in sock
      BY <2>7, <3>2, <1>1 DEF Inv, Phases, Addr, Owned, Running, StartRoute
    <3>4. Guest(s)
      BY <3>3, <1>1, FreeIsNew DEF StartTunnel, Starts
    <3>5. PICK l \in DOMAIN tun : tun[l].at # None /\ tun[l].spec.port = s.port /\ tun[l].spec.path = ""
      BY <3>4 DEF Guest, WholePort
    <3>6. tun[l].at = Addr(s)
      BY <3>5, <1>1 DEF Inv, Phases, Addr, StartRoute
    <3>7. l = Key(s)
      BY <2>7, <3>3, <3>5, <3>6, <1>1 DEF Inv, Owned, Running, StartRoute
    <3> QED
      BY <3>2, <3>4, <3>5, <3>7 DEF Guest
  <2> QED
    BY <2>6, <2>7
<1>2. ASSUME StartRoute, StopTunnels(DOMAIN tun), pc' = "idle", todo' = <<>>, ok' = FALSE PROVE Inv'
  <2>1. /\ tun' \in [DOMAIN tun' -> Runtimes] /\ DOMAIN tun' = {}
        /\ sock' = {tun'[k].at : k \in DOMAIN tun'} \ {None}
    BY <1>2, StopOwned DEF StartRoute
  <2>2. UNCHANGED <<started, host, conf>>
    BY <1>2 DEF StartRoute, run
  <2>3. Types'
    BY <1>2, <2>1, <2>2, EmptyTodo DEF Inv, Types
  <2>4. Filed' /\ Phases'
    BY <1>2, <2>1, <2>2 DEF Filed, Phases
  <2>5. Owned'
    BY <1>2, <2>1, <2>2 DEF Owned, Running
  <2> QED
    BY <2>3, <2>4, <2>5 DEF Inv
<1>3. ASSUME StartDone PROVE Inv'
  BY <1>3 DEF StartDone, work, Inv, Types, Filed, Owned, Running, Phases
<1> QED
  BY <1>1, <1>2, <1>3 DEF StartRoute

LEMMA RouteStep ==
  ASSUME Inv, pc = "routes", ReloadRoute \/ RemoveRoutes
  PROVE  Inv'
<1> DEFINE s == Head(todo)
<1>0. started
  BY DEF Inv, Phases
<1>1. ASSUME ReloadRoute, Key(s) \notin DOMAIN tun, StartTunnel(s), todo # <<>>,
             todo' = Tail(todo), UNCHANGED <<pc, ok>>
      PROVE  Inv'
  <2>1. s \in RouteSpecs /\ todo' \in Seq(RouteSpecs)
    BY <1>1 DEF Inv, Types
  <2>2. pc' = "routes" /\ UNCHANGED <<host, started, conf, ok>>
    BY <1>1 DEF ReloadRoute, run
  <2>3. Types' /\ Filed'
    BY <1>1, <2>1, <2>2, StartFiled DEF Inv, Types, Filed
  <2>4. /\ sock = {tun[k].at : k \in DOMAIN tun \ {Key(s)}} \ {None}
        /\ \A k, l \in DOMAIN tun \ {Key(s)} : tun[k].at = tun[l].at /\ tun[k].at # None => k = l
    BY <1>1 DEF Inv, Owned, Running
  <2>5. Owned'
    BY <1>1, <2>1, <2>2, <2>4, StartOwned DEF Owned, Running
  <2> QED
    BY <1>0, <2>2, <2>3, <2>5 DEF Inv, Phases
<1>2. ASSUME ReloadRoute, todo # <<>>, todo' = Tail(todo), UNCHANGED <<pc, tun, sock>>, ok' \in BOOLEAN
      PROVE  Inv'
  BY <1>0, <1>2 DEF ReloadRoute, run, Inv, Types, Filed, Owned, Running, Phases
<1>3. ASSUME ReloadRoute, Key(s) \in DOMAIN tun, sock' = sock \ {tun[Key(s)].at}, todo # <<>>,
             pc' = "switch", UNCHANGED <<todo, ok, tun>>
      PROVE  Inv'
  <2>1. sock' = {tun[k].at : k \in DOMAIN tun \ {Key(s)}} \ {None}
    BY <1>3 DEF Inv, Owned, Running
  <2>2. UNCHANGED <<host, started, conf>>
    BY <1>3 DEF ReloadRoute, run
  <2>3. Owned'
    BY <1>3, <2>1 DEF Inv, Owned, Running
  <2> QED
    BY <1>0, <1>3, <2>2, <2>3 DEF Inv, Types, Filed, Phases
<1>4. ASSUME RemoveRoutes PROVE Inv'
  <2> DEFINE gone == DOMAIN tun \ Keys(conf)
  <2>1. StopTunnels(gone)
    BY <1>4 DEF RemoveRoutes
  <2>2. /\ tun' \in [DOMAIN tun' -> Runtimes] /\ DOMAIN tun' = DOMAIN tun \ gone
        /\ \A k \in DOMAIN tun' : tun'[k] = tun[k]
        /\ sock' = {tun'[k].at : k \in DOMAIN tun'} \ {None}
    <3> HIDE DEF gone
    <3>1. gone \in SUBSET DOMAIN tun
      BY DEF gone
    <3> QED
      BY <2>1, <3>1, StopOwned
  <2>3. pc' = "rebuild" /\ rest' = DOMAIN tun' /\ UNCHANGED <<host, started, conf, todo, ok>>
    BY <1>4, <2>2 DEF RemoveRoutes, run
  <2>4. Types' /\ Filed'
    BY <2>2, <2>3 DEF Inv, Types, Filed
  <2>5. Owned'
    BY <2>2, <2>3 DEF Inv, Owned, Running
  <2> QED
    BY <1>0, <2>3, <2>4, <2>5 DEF Inv, Phases
<1> QED
  BY <1>1, <1>2, <1>3, <1>4 DEF ReloadRoute, Inv, Types

\* The route that is being switched has no socket: whichever of the two
\* runtimes is started, or none, its key has one runtime.
LEMMA SwitchStep ==
  ASSUME Inv, pc \in {"switch", "restore"}, Switch \/ Restore
  PROVE  Inv'
<1> DEFINE key == Key(Head(todo))
<1>0. /\ todo # <<>> /\ key \in DOMAIN tun /\ started
      /\ Head(todo) \in RouteSpecs /\ Tail(todo) \in Seq(RouteSpecs)
      /\ Key(tun[key].spec) = key /\ tun[key].spec \in RouteSpecs
  BY DEF Inv, Types, Filed, Phases, Runtimes
<1>1. ASSUME NEW s \in RouteSpecs, Key(s) = key, StartTunnel(s), pc' = "routes", todo' = Tail(todo),
             ok' \in BOOLEAN, UNCHANGED <<host, started, conf>>
      PROVE  Inv'
  <2>1. Types' /\ Filed'
    BY <1>0, <1>1, StartFiled DEF Inv, Types, Filed
  <2>2. /\ sock = {tun[k].at : k \in DOMAIN tun \ {Key(s)}} \ {None}
        /\ \A k, l \in DOMAIN tun \ {Key(s)} : tun[k].at = tun[l].at /\ tun[k].at # None => k = l
    BY <1>1 DEF Inv, Owned, Running
  <2>3. Owned'
    BY <1>1, <2>2, StartOwned DEF Owned, Running
  <2> QED
    BY <1>0, <1>1, <2>1, <2>3 DEF Inv, Phases
<1>2. ASSUME Switch, pc' = "restore", UNCHANGED <<todo, tun, sock>> PROVE Inv'
  BY <1>0, <1>2 DEF Switch, run, Inv, Types, Filed, Owned, Running, Phases
<1>3. ASSUME Restore, tun' = Without(tun, {key}), UNCHANGED sock PROVE Inv'
  <2>1. DOMAIN tun' = DOMAIN tun \ {key} /\ tun' = [k \in DOMAIN tun' |-> tun[k]]
    BY <1>3 DEF Without
  <2>2. pc' = "routes" /\ todo' = Tail(todo) /\ ok' = FALSE /\ UNCHANGED <<host, started, conf>>
    BY <1>3 DEF Restore, run
  <2>3. Types' /\ Filed'
    <3>1. \A k \in DOMAIN tun' : tun'[k] \in Runtimes /\ Key(tun'[k].spec) = k
      BY <2>1 DEF Inv, Types, Filed
    <3>2. tun' \in [DOMAIN tun' -> Runtimes]
      BY <2>1, <3>1
    <3> QED
      BY <1>0, <2>2, <3>1, <3>2 DEF Inv, Types, Filed
  <2>4. Owned'
    <3>1. \A k \in DOMAIN tun' : tun'[k] = tun[k]
      BY <2>1
    <3>2. Running' = DOMAIN tun' /\ Running = DOMAIN tun'
      BY <2>1, <2>2 DEF Running
    <3>3. {tun'[k].at : k \in Running'} = {tun[k].at : k \in Running}
      BY <3>1, <3>2
    <3>4. sock' = {tun'[k].at : k \in Running'} \ {None}
      BY <1>3, <3>3 DEF Inv, Owned
    <3>5. \A k, l \in Running' : tun'[k].at = tun'[l].at /\ tun'[k].at # None => k = l
      BY <3>1, <3>2 DEF Inv, Owned
    <3> QED
      BY <3>4, <3>5 DEF Owned
  <2> QED
    BY <1>0, <2>2, <2>3, <2>4 DEF Inv, Phases
<1>4. CASE Switch
  <2>1. CASE StartTunnel(Head(todo)) /\ pc' = "routes" /\ todo' = Tail(todo)
    <3>1. ok' \in BOOLEAN /\ UNCHANGED <<host, started, conf>>
      BY <1>4 DEF Switch, run, Inv, Types
    <3> QED
      BY <1>0, <1>1, <2>1, <3>1
  <2> QED
    BY <1>2, <1>4, <2>1 DEF Switch
<1>5. CASE Restore
  <2>1. CASE StartTunnel(tun[key].spec)
    <3>1. pc' = "routes" /\ todo' = Tail(todo) /\ ok' \in BOOLEAN /\ UNCHANGED <<host, started, conf>>
      BY <1>5 DEF Restore, run
    <3> QED
      BY <1>0, <1>1, <2>1, <3>1
  <2> QED
    BY <1>3, <1>5, <2>1 DEF Restore
<1> QED
  BY <1>4, <1>5

LEMMA RebuildStep ==
  ASSUME Inv, pc = "rebuild", ReloadDone \/ \E k \in rest : RebuildRoute(k)
  PROVE  Inv'
<1>0. started
  BY DEF Inv, Phases
<1>1. ASSUME NEW k \in rest, RebuildRoute(k), tun[k].at = None, StartTunnel(tun[k].spec), UNCHANGED ok
      PROVE  Inv'
  <2> DEFINE s == tun[k].spec
  <2>1. s \in RouteSpecs /\ Key(s) = k /\ k \in DOMAIN tun
    BY DEF Inv, Types, Filed, Runtimes
  <2>2. pc' = "rebuild" /\ rest' \subseteq DOMAIN tun /\ UNCHANGED <<host, started, conf, todo, ok>>
    BY <1>1 DEF RebuildRoute, run, Inv, Filed
  <2>3. Types' /\ Filed'
    BY <1>1, <2>1, <2>2, StartFiled DEF Inv, Types, Filed
  <2>4. /\ sock = {tun[l].at : l \in DOMAIN tun \ {Key(s)}} \ {None}
        /\ \A l, m \in DOMAIN tun \ {Key(s)} : tun[l].at = tun[m].at /\ tun[l].at # None => l = m
    BY <1>1, <2>1 DEF Inv, Owned, Running
  <2>5. Owned'
    BY <1>1, <2>1, <2>2, <2>4, StartOwned DEF Owned, Running
  <2> QED
    BY <1>0, <2>2, <2>3, <2>5 DEF Inv, Phases
<1>2. ASSUME NEW k \in rest, RebuildRoute(k), UNCHANGED <<tun, sock>>, ok' \in BOOLEAN PROVE Inv'
  BY <1>0, <1>2 DEF RebuildRoute, run, Inv, Types, Filed, Owned, Running, Phases
<1>3. ASSUME ReloadDone PROVE Inv'
  BY <1>0, <1>3 DEF ReloadDone, run, work, Inv, Types, Filed, Owned, Running, Phases
<1> QED
  BY <1>1, <1>2, <1>3 DEF RebuildRoute, Inv, Types

LEMMA InvNext == Inv /\ [Next]_vars => Inv'
<1> SUFFICES ASSUME Inv, [Next]_vars PROVE Inv'
  OBVIOUS
<1>1. CASE (\E c \in Setups : Start(c) \/ Reload(c)) \/ Stop
  BY <1>1, IdleStep DEF Start, Reload, Begin, Stop
<1>2. CASE StartRoute \/ StartDone
  BY <1>2, StartStep DEF StartRoute, StartDone
<1>3. CASE ReloadRoute \/ RemoveRoutes
  BY <1>3, RouteStep DEF ReloadRoute, RemoveRoutes
<1>4. CASE Switch \/ Restore
  BY <1>4, SwitchStep DEF Switch, Restore
<1>5. CASE ReloadDone \/ \E k \in rest : RebuildRoute(k)
  BY <1>5, RebuildStep DEF ReloadDone, RebuildRoute
<1>6. CASE UNCHANGED vars \/ \E a \in Addresses : TakePort(a) \/ FreePort(a)
  <2>1. UNCHANGED <<started, host, tun, sock, pc, conf, todo, rest, ok>>
    BY <1>6 DEF TakePort, FreePort, vars, run, work
  <2>2. Types' /\ Filed'
    BY <2>1 DEF Inv, Types, Filed
  <2>3. Owned'
    BY <2>1 DEF Inv, Owned, Running
  <2>4. Phases'
    BY <2>1 DEF Inv, Phases, Addr
  <2> QED
    BY <2>2, <2>3, <2>4 DEF Inv
<1> QED
  BY <1>1, <1>2, <1>3, <1>4, <1>5, <1>6 DEF Next

\* Every socket belongs to exactly one route that is still known, through
\* failures, hot switches, restores and rebuilds (SocketsOwned).
THEOREM OwnedCorrect == Spec => []SocketsOwned
BY InvInit, InvNext, InvOwned, PTL DEF Spec

-----------------------------------------------------------------------------
\* Done: the routes of the configuration that the operation has been through.
Total   == Len(Specs(conf))
Handled == Total - Len(todo)

\* The operation works on its configuration, from the first route on.
InOrder ==
    pc # "idle" \/ started =>
        /\ host = conf.host
        /\ Len(todo) <= Total
        /\ \A j \in 1 .. Len(todo) : todo[j] = Specs(conf)[Handled + j]
        /\ pc \in {"idle", "rebuild"} => Len(todo) = 0

\* Unless a route has failed, those it has been through have the runtime of the
\* last of them with their key.
Complete ==
    (pc # "idle" \/ started) /\ ok =>
        \A i \in 1 .. Handled :
            LET s == Specs(conf)[i] IN
            /\ Key(s) \in DOMAIN tun
            /\ \/ tun[Key(s)].spec = s
               \/ \E j \in 1 .. Handled : i < j /\ Key(Specs(conf)[j]) = Key(s)

\* What a start has begun with is nothing, what a rebuild begins with is configured.
Configured ==
    pc \in {"start", "rebuild"} \/ (pc = "idle" /\ started /\ ok) => DOMAIN tun \subseteq Keys(conf)

\* Routes that have been looked at by the last loop are served.
ServedBut(left) ==
    \A k \in DOMAIN tun \ left :
        tun[k].at # None \/ WholePort(tun[k].spec.service, tun[k].spec.port)

Served ==
    /\ ok /\ (pc = "start" \/ (pc = "idle" /\ started)) => ServedBut({})
    /\ ok /\ pc = "rebuild" => ServedBut(rest)

\* A listener is on listen_host or is one the operation has found.
Placed ==
    \A k \in DOMAIN tun : \/ tun[k].at \in {None, Addr(tun[k].spec)}
                          \/ k \in DOMAIN before /\ before[k] = tun[k]

\* Sockets do not clash, with one another or with those of other programs; a
\* listener is on the port of its route.
Apart ==
    /\ \A a, b \in sock : Clash(a, b) => a = b
    /\ \A a \in sock, b \in foreign : ~Clash(a, b)
    /\ \A k \in DOMAIN tun : tun[k].at # None => tun[k].at[2] = tun[k].spec.port

\* While nobody interferes a configured route that listened on listen_host keeps
\* its listener; in a hot switch its address is free.
Kept ==
    calm /\ (pc # "idle" \/ started) =>
        \A k \in DOMAIN before :
            /\ before[k].at = <<host, before[k].spec.port>>
            /\ k \in Keys(conf) \/ pc \in {"routes", "switch", "restore"}
            =>
            /\ k \in DOMAIN tun /\ tun[k].at = before[k].at
            /\ pc \in {"switch", "restore"} /\ k = Key(Head(todo)) => pc = "switch" /\ Free(tun[k].at)

\* What an operation has found; a start finds nothing.
Found ==
    /\ before \in [DOMAIN before -> Runtimes]
    /\ pc = "start" => DOMAIN before = {}

KInv == InOrder /\ Complete /\ Configured /\ Served /\ Placed /\ Apart /\ Kept /\ Found

LEMMA KInit == Init => KInv
<1> SUFFICES ASSUME Init PROVE KInv
  OBVIOUS
<1>1. DOMAIN tun = {} /\ DOMAIN before = {} /\ before \in [DOMAIN before -> Runtimes]
  BY DEF Init
<1>2. InOrder /\ Complete /\ Configured /\ Kept
  BY DEF Init, InOrder, Complete, Configured, Kept
<1>3. Served /\ Placed /\ Apart /\ Found
  BY <1>1 DEF Init, Served, Placed, Apart, Found
<1> QED
  BY <1>2, <1>3 DEF KInv

\* A route after the other.
LEMMA Advance ==
  ASSUME Inv, InOrder, pc \notin {"idle", "rebuild"}, pc' \notin {"idle", "rebuild"},
         todo # <<>>, todo' = Tail(todo), UNCHANGED <<host, conf>>
  PROVE  /\ InOrder'
         /\ Handled \in Nat /\ Handled' = Handled + 1 /\ Handled' <= Total
         /\ Head(todo) = Specs(conf)[Handled + 1] /\ Head(todo) \in RouteSpecs
<1>1. todo \in Seq(RouteSpecs) /\ Specs(conf) \in Seq(RouteSpecs)
  BY SetupsAssumption DEF Inv, Types
<1>2. /\ Len(todo) \in Nat /\ Len(todo) > 0 /\ Len(todo') = Len(todo) - 1
      /\ Head(todo) = todo[1] /\ Head(todo) \in RouteSpecs
      /\ \A j \in 1 .. Len(todo') : todo'[j] = todo[j + 1]
  BY <1>1
<1>3. Total \in Nat /\ Total' = Total /\ Len(todo) <= Total
  BY <1>1 DEF Total, InOrder
<1>4. Handled \in Nat /\ Handled' = Handled + 1 /\ Handled' <= Total
  BY <1>2, <1>3 DEF Handled
<1>5. Head(todo) = Specs(conf)[Handled + 1]
  BY <1>2, <1>3 DEF InOrder
<1>6. ASSUME NEW j \in 1 .. Len(todo') PROVE todo'[j] = Specs(conf)[Handled' + j]
  <2>1. j + 1 \in 1 .. Len(todo)
    BY <1>2
  <2>2. todo[j + 1] = Specs(conf)[Handled + (j + 1)]
    BY <2>1 DEF InOrder
  <2>3. Handled + (j + 1) = Handled' + j
    BY <1>4
  <2> QED
    BY <1>2, <2>2, <2>3
<1>7. InOrder'
  BY <1>2, <1>3, <1>6 DEF InOrder
<1> QED
  BY <1>2, <1>4, <1>5, <1>7

\* Every route of the configuration has its key among the keys.
LEMMA KeysAre ==
  ASSUME NEW c \in Setups
  PROVE  \A k : k \in Keys(c) <=> \E i \in 1 .. Len(Specs(c)) : k = Key(Specs(c)[i])
<1>1. Specs(c) \in Seq(RouteSpecs)
  BY SetupsAssumption
<1> QED
  BY <1>1 DEF Keys, ToSet

\* Routes that have been handled stay complete when the next one is started ...
LEMMA CompleteStarted ==
  ASSUME Inv, InOrder, Complete, pc \notin {"idle", "rebuild"}, pc' \notin {"idle", "rebuild"},
         todo # <<>>, todo' = Tail(todo), UNCHANGED <<host, conf, ok>>, StartTunnel(Head(todo))
  PROVE  Complete'
<1> DEFINE s == Head(todo)
           n == Handled
<1>1. n \in Nat /\ Handled' = n + 1 /\ s = Specs(conf)[n + 1] /\ s \in RouteSpecs
  BY Advance
<1>2. /\ DOMAIN tun' = DOMAIN tun \cup {Key(s)} /\ tun'[Key(s)].spec = s
      /\ \A k \in DOMAIN tun \ {Key(s)} : tun'[k] = tun[k]
  BY <1>1, StartFiled
<1> HIDE DEF n, s
<1>3. SUFFICES ASSUME ok, NEW i \in 1 .. n + 1
      PROVE  LET r == Specs(conf)[i] IN
             /\ Key(r) \in DOMAIN tun'
             /\ \/ tun'[Key(r)].spec = r
                \/ \E j \in 1 .. n + 1 : i < j /\ Key(Specs(conf)[j]) = Key(r)
  BY <1>1 DEF Complete
<1>4. CASE i = n + 1
  BY <1>1, <1>2, <1>4
<1>5. CASE i # n + 1 /\ Key(Specs(conf)[i]) = Key(s)
  <2>1. i < n + 1 /\ n + 1 \in 1 .. n + 1
    BY <1>1, <1>5
  <2> QED
    BY <1>1, <1>2, <1>5, <2>1
<1>6. CASE i # n + 1 /\ Key(Specs(conf)[i]) # Key(s)
  <2>1. i \in 1 .. n
    BY <1>1, <1>6
  <2>2. /\ Key(Specs(conf)[i]) \in DOMAIN tun
        /\ \/ tun[Key(Specs(conf)[i])].spec = Specs(conf)[i]
           \/ \E j \in 1 .. n : i < j /\ Key(Specs(conf)[j]) = Key(Specs(conf)[i])
    BY <1>3, <2>1 DEF Complete, n
  <2>3. 1 .. n \subseteq 1 .. n + 1
    BY <1>1
  <2> QED
    BY <1>2, <1>6, <2>2, <2>3
<1> QED
  BY <1>4, <1>5, <1>6

\* ... or when it has what it wants.
LEMMA CompleteFound ==
  ASSUME Inv, InOrder, Complete, pc \notin {"idle", "rebuild"}, pc' \notin {"idle", "rebuild"},
         todo # <<>>, todo' = Tail(todo), UNCHANGED <<host, conf, ok, tun>>,
         Key(Head(todo)) \in DOMAIN tun, tun[Key(Head(todo))].spec = Head(todo)
  PROVE  Complete'
<1> DEFINE n == Handled
<1>1. n \in Nat /\ Handled' = n + 1 /\ Head(todo) = Specs(conf)[n + 1]
  BY Advance
<1> HIDE DEF n
<1>3. SUFFICES ASSUME ok, NEW i \in 1 .. n + 1
      PROVE  LET r == Specs(conf)[i] IN
             /\ Key(r) \in DOMAIN tun
             /\ \/ tun[Key(r)].spec = r
                \/ \E j \in 1 .. n + 1 : i < j /\ Key(Specs(conf)[j]) = Key(r)
  BY <1>1 DEF Complete
<1>4. CASE i = n + 1
  BY <1>1, <1>4
<1>6. CASE i # n + 1
  <2>1. i \in 1 .. n /\ 1 .. n \subseteq 1 .. n + 1
    BY <1>1, <1>6
  <2>2. /\ Key(Specs(conf)[i]) \in DOMAIN tun
        /\ \/ tun[Key(Specs(conf)[i])].spec = Specs(conf)[i]
           \/ \E j \in 1 .. n : i < j /\ Key(Specs(conf)[j]) = Key(Specs(conf)[i])
    BY <1>3, <2>1 DEF Complete, n
  <2> QED
    BY <2>1, <2>2
<1> QED
  BY <1>4, <1>6

\* A runtime that takes the place of one with a whole port has it, too.
LEMMA WholePortStays ==
  ASSUME Inv, NEW s \in RouteSpecs, StartTunnel(s), NEW service, NEW port, WholePort(service, port)
  PROVE  WholePort(service, port)'
<1>1. /\ DOMAIN tun' = DOMAIN tun \cup {Key(s)} /\ tun'[Key(s)].spec = s
      /\ \A k \in DOMAIN tun \ {Key(s)} : tun'[k] = tun[k]
      /\ \/ tun'[Key(s)].at = Addr(s)
         \/ s.path # ""
  BY StartFiled DEF Guest
<1>2. Addr(s) # None
  BY AddrIs
<1>3. PICK k \in DOMAIN tun : /\ tun[k].at # None
                              /\ tun[k].spec.service = service
                              /\ tun[k].spec.port = port
                              /\ tun[k].spec.path = ""
  BY DEF WholePort
<1>4. Key(tun[k].spec) = k
  BY DEF Inv, Filed
<1>5. CASE k = Key(s)
  <2>1. s.service = service /\ s.port = port /\ s.path = ""
    BY <1>3, <1>4, <1>5 DEF Key
  <2> QED
    BY <1>1, <1>2, <2>1 DEF WholePort
<1>6. CASE k # Key(s)
  BY <1>1, <1>3, <1>6 DEF WholePort
<1> QED
  BY <1>5, <1>6

\* What has been started is served.
LEMMA StartServed ==
  ASSUME Inv, NEW s \in RouteSpecs, StartTunnel(s), NEW left, ServedBut(left)
  PROVE  ServedBut(left \ {Key(s)})'
<1>1. /\ DOMAIN tun' = DOMAIN tun \cup {Key(s)} /\ tun'[Key(s)].spec = s
      /\ \A k \in DOMAIN tun \ {Key(s)} : tun'[k] = tun[k]
      /\ tun'[Key(s)].at = Addr(s) \/ Guest(s)
  BY StartFiled
<1>2. Addr(s) # None
  BY AddrIs
<1>3. \A a, b : WholePort(a, b) => WholePort(a, b)'
  BY WholePortStays
<1>5. ASSUME NEW k \in DOMAIN tun', k = Key(s), tun'[k].at = None
      PROVE  WholePort(s.service, s.port)'
  BY <1>1, <1>2, <1>3, <1>5 DEF Guest
<1>6. ASSUME NEW k \in DOMAIN tun' \ left, k # Key(s), tun'[k].at = None
      PROVE  \E a, b : a = tun'[k].spec.service /\ b = tun'[k].spec.port /\ WholePort(a, b)'
  BY <1>1, <1>3, <1>6 DEF ServedBut
<1>7. ASSUME NEW k \in DOMAIN tun' \ (left \ {Key(s)}), tun'[k].at = None
      PROVE  \E l \in DOMAIN tun' : /\ tun'[l].at # None
                                    /\ tun'[l].spec.service = tun'[k].spec.service
                                    /\ tun'[l].spec.port = tun'[k].spec.port
                                    /\ tun'[l].spec.path = ""
  <2>1. CASE k = Key(s)
    BY <1>1, <1>5, <1>7, <2>1 DEF WholePort
  <2>2. CASE k # Key(s)
    BY <1>6, <1>7, <2>2 DEF WholePort
  <2> QED
    BY <2>1, <2>2
<1> QED
  BY <1>7 DEF ServedBut, WholePort

\* A start of a route keeps listeners apart and in their places.
LEMMA StartApart ==
  ASSUME Inv, Apart, Placed, NEW s \in RouteSpecs, StartTunnel(s), UNCHANGED <<foreign, host, before>>
  PROVE  Apart' /\ Placed'
<1>1. /\ DOMAIN tun' = DOMAIN tun \cup {Key(s)} /\ tun'[Key(s)].spec = s
      /\ \A k \in DOMAIN tun \ {Key(s)} : tun'[k] = tun[k]
      /\ \/ Free(Addr(s)) /\ tun'[Key(s)].at = Addr(s) /\ sock' = sock \cup {Addr(s)}
         \/ tun'[Key(s)].at = None /\ sock' = sock
  BY StartFiled
<1>2. Addr(s)' = Addr(s) /\ Addr(s)[2] = s.port
  BY DEF Addr
<1>3. Placed'
  BY <1>1 DEF Placed, Addr
<1>4. /\ foreign' = foreign
      /\ \A k \in DOMAIN tun' : tun'[k].at # None => tun'[k].at[2] = tun'[k].spec.port
  BY <1>1, <1>2 DEF Apart
<1>5. CASE sock' = sock
  BY <1>3, <1>4, <1>5 DEF Apart, Clash
<1>6. CASE Free(Addr(s)) /\ sock' = sock \cup {Addr(s)}
  <2>1. \A b \in sock \cup foreign : ~Clash(Addr(s), b) /\ ~Clash(b, Addr(s))
    BY <1>6 DEF Free, Clash
  <2>2. \A a, b \in sock' : Clash(a, b) => a = b
    BY <1>6, <2>1 DEF Apart
  <2>3. \A a \in sock', b \in foreign : ~Clash(a, b)
    BY <1>6, <2>1 DEF Apart
  <2> QED
    BY <1>3, <1>4, <2>2, <2>3 DEF Apart, Clash
<1> QED
  BY <1>1, <1>3, <1>5, <1>6

\* So does whatever only takes away.
LEMMA StopApart ==
  ASSUME Apart, Placed, sock' \subseteq sock, foreign' \subseteq foreign,
         DOMAIN tun' \subseteq DOMAIN tun, \A k \in DOMAIN tun' : tun'[k] = tun[k],
         UNCHANGED <<host, before>>
  PROVE  Apart' /\ Placed'
<1>1. Placed'
  BY DEF Placed, Addr
<1>2. Apart'
  BY DEF Apart
<1> QED
  BY <1>1, <1>2

-----------------------------------------------------------------------------
\* Again one lemma per phase.
LEMMA KBegin ==
  ASSUME Inv, KInv, NEW c \in Setups, Start(c) \/ Reload(c)
  PROVE  KInv'
<1>1. /\ tun' = tun /\ sock' = sock /\ foreign' = foreign /\ started' = started
      /\ before' = tun /\ conf' = c /\ host' = c.host /\ pc = "idle"
  BY DEF Start, Reload, Begin
<1>2. \/ pc' = "idle" /\ todo' = <<>> /\ ok' = FALSE
      \/ todo' = Specs(c) /\ pc' = IF started THEN "routes" ELSE "start"
  BY DEF Start, Reload, Begin
<1>3. Specs(c) \in Seq(RouteSpecs)
  BY SetupsAssumption
<1>4. InOrder' /\ Complete'
  <2>1. CASE pc' = "idle" /\ todo' = <<>> /\ ok' = FALSE
    BY <1>1, <1>3, <2>1 DEF InOrder, Complete, Total
  <2>2. CASE todo' = Specs(c) /\ pc' \in {"routes", "start"}
    <3>1. Handled' = 0 /\ Total' = Len(todo') /\ Len(todo') \in Nat
      BY <1>1, <1>3, <2>2 DEF Handled, Total
    <3>2. \A j \in 1 .. Len(todo') : todo'[j] = Specs(conf')[0 + j]
      BY <1>1, <2>2, <3>1
    <3> QED
      BY <1>1, <2>2, <3>1, <3>2 DEF InOrder, Complete
  <2> QED
    BY <1>2, <2>1, <2>2
<1>5. Configured' /\ Served'
  <2>1. pc' = "start" => DOMAIN tun = {}
    BY <1>1, <1>2 DEF Inv, Phases
  <2> QED
    BY <1>1, <1>2, <2>1 DEF Configured, Served, ServedBut
<1>6. Placed' /\ Found' /\ Kept'
  <2>1. pc' = "start" => DOMAIN tun = {}
    BY <1>1, <1>2 DEF Inv, Phases
  <2>2. pc' \notin {"switch", "restore"}
    BY <1>2
  <2> QED
    BY <1>1, <2>1, <2>2 DEF Placed, Found, Kept, Inv, Types
<1>7. Apart'
  BY <1>1 DEF KInv, Apart, Clash
<1> QED
  BY <1>4, <1>5, <1>6, <1>7 DEF KInv

LEMMA KStop ==
  ASSUME Inv, KInv, pc \in {"idle", "start"}, StopTunnels(DOMAIN tun), pc' = "idle", ~started',
         UNCHANGED <<foreign, host, before>>
  PROVE  KInv'
<1>1. DOMAIN tun' = {} /\ sock' \subseteq sock
  BY StopOwned DEF StopTunnels
<1>2. Apart' /\ Placed'
  BY <1>1, StopApart DEF KInv
<1>3. InOrder' /\ Complete' /\ Configured' /\ Served' /\ Kept' /\ Found'
  BY DEF InOrder, Complete, Configured, Served, Kept, KInv, Found
<1> QED
  BY <1>2, <1>3 DEF KInv

\* In a start.
LEMMA KStart ==
  ASSUME Inv, KInv, pc = "start", StartRoute \/ StartDone
  PROVE  KInv'
<1>0. ~started /\ DOMAIN before = {} /\ conf \in Setups /\ before \in [DOMAIN before -> Runtimes]
  BY DEF Inv, Phases, Types, KInv, Found
<1>1. ASSUME StartRoute, todo # <<>>, StartTunnel(Head(todo)), todo' = Tail(todo), UNCHANGED <<pc, ok>>
      PROVE  KInv'
  <2> DEFINE s == Head(todo)
  <2>1. UNCHANGED <<started, host, foreign, conf, rest, before, calm>>
    BY <1>1 DEF StartRoute, run
  <2>2. InOrder' /\ s \in RouteSpecs /\ s = Specs(conf)[Handled + 1]
        /\ Handled \in Nat /\ Handled + 1 <= Total
    BY <1>1, <2>1, Advance DEF KInv
  <2>3. Complete'
    BY <1>1, <2>1, CompleteStarted DEF KInv
  <2>4. Configured'
    <3>1. Key(s) \in Keys(conf)
      BY <1>0, <2>2, KeysAre DEF Total
    <3>2. DOMAIN tun' = DOMAIN tun \cup {Key(s)}
      BY <1>1, <2>2, StartFiled
    <3> QED
      BY <1>1, <2>1, <3>1, <3>2 DEF KInv, Configured
  <2>5. Served'
    <3>1. ok => ServedBut({})
      BY DEF KInv, Served
    <3>2. ok => ServedBut({} \ {Key(s)})'
      BY <1>1, <2>2, <3>1, StartServed
    <3> QED
      BY <1>1, <3>2 DEF Served, ServedBut
  <2>6. Apart' /\ Placed'
    BY <1>1, <2>1, <2>2, StartApart DEF KInv
  <2>7. Kept' /\ Found'
    BY <1>0, <2>1 DEF Kept, Found
  <2> QED
    BY <2>2, <2>3, <2>4, <2>5, <2>6, <2>7 DEF KInv
<1>2. ASSUME StartRoute, StopTunnels(DOMAIN tun), pc' = "idle" PROVE KInv'
  BY <1>0, <1>2, KStop DEF StartRoute, run
<1>3. ASSUME StartDone PROVE KInv'
  <2>1. /\ UNCHANGED <<host, tun, sock, foreign, conf, todo, rest, ok, before>>
        /\ pc' = "idle" /\ started' = TRUE /\ todo = <<>>
    BY <1>3 DEF StartDone, work
  <2>2. InOrder' /\ Complete'
    BY <2>1 DEF KInv, InOrder, Complete, Handled, Total
  <2>3. Configured' /\ Kept' /\ Found'
    BY <1>0, <2>1 DEF KInv, Configured, Kept, Found
  <2>4. Served'
    BY <2>1 DEF KInv, Served, ServedBut, WholePort
  <2>5. Apart' /\ Placed'
    BY <2>1, StopApart DEF KInv
  <2> QED
    BY <2>2, <2>3, <2>4, <2>5 DEF KInv
<1> QED
  BY <1>1, <1>2, <1>3 DEF StartRoute

\* A route of a reload that needs no switch.
LEMMA KRoute ==
  ASSUME Inv, KInv, pc = "routes", ReloadRoute, pc' = "routes"
  PROVE  KInv'
<1> DEFINE s == Head(todo)
<1>0. /\ todo # <<>> /\ todo' = Tail(todo)
      /\ UNCHANGED <<started, host, foreign, conf, rest, before, calm>>
      /\ \/ Key(s) \notin DOMAIN tun /\ StartTunnel(s) /\ UNCHANGED ok
         \/ ok' = FALSE /\ UNCHANGED <<tun, sock>>
         \/ Key(s) \in DOMAIN tun /\ tun[Key(s)].spec = s /\ UNCHANGED <<ok, tun, sock>>
  BY DEF ReloadRoute, run
<1>1. InOrder' /\ s \in RouteSpecs
  BY <1>0, Advance DEF KInv
<1>2. Complete'
  <2>1. CASE StartTunnel(s) /\ UNCHANGED ok
    BY <1>0, <2>1, CompleteStarted DEF KInv
  <2>2. CASE ok' = FALSE
    BY <2>2 DEF Complete
  <2>3. CASE Key(s) \in DOMAIN tun /\ tun[Key(s)].spec = s /\ UNCHANGED <<ok, tun, sock>>
    BY <1>0, <2>3, CompleteFound DEF KInv
  <2> QED
    BY <1>0, <2>1, <2>2, <2>3
<1>3. Configured' /\ Served'
  BY DEF Configured, Served
<1>4. Apart' /\ Placed'
  <2>1. CASE StartTunnel(s)
    BY <1>0, <1>1, <2>1, StartApart DEF KInv
  <2>2. CASE UNCHANGED <<tun, sock>>
    BY <1>0, <2>2, StopApart DEF KInv
  <2> QED
    BY <1>0, <2>1, <2>2
<1>5. Found'
  BY <1>0 DEF KInv, Found
\* What is started here was not there before.
<1>6. Kept'
  <2>1. \A k \in DOMAIN tun : k \in DOMAIN tun' /\ tun'[k] = tun[k]
    BY <1>0, <1>1, StartFiled
  <2> QED
    BY <1>0, <2>1 DEF KInv, Kept
<1> QED
  BY <1>1, <1>2, <1>3, <1>4, <1>5, <1>6 DEF KInv

\* The listener that a hot switch stops leaves its address free: no other
\* socket of the relay clashes with it, and none of another program.
LEMMA KStopOld ==
  ASSUME Inv, KInv, pc = "routes", ReloadRoute, pc' = "switch"
  PROVE  KInv'
<1> DEFINE key == Key(Head(todo))
<1>0. /\ key \in DOMAIN tun /\ todo # <<>> /\ sock' = sock \ {tun[key].at}
      /\ UNCHANGED <<started, host, tun, foreign, conf, todo, rest, ok, before, calm>>
  BY DEF ReloadRoute, run
<1>1. InOrder' /\ Complete'
  BY <1>0 DEF KInv, InOrder, Complete, Handled, Total
<1>2. Configured' /\ Served' /\ Found'
  BY <1>0 DEF KInv, Configured, Served, Found
<1>3. Apart' /\ Placed'
  BY <1>0, StopApart DEF KInv
<1>4. ASSUME tun[key].at # None PROVE Free(tun[key].at)'
  <2>1. tun[key].at \in sock
    BY <1>0, <1>4 DEF Inv, Owned, Running
  <2> DEFINE a == tun[key].at
  <2>2. \A b \in sock \cup foreign : Clash(a, b) => b = a /\ b \notin foreign
    BY <2>1 DEF KInv, Apart, Clash
  <2>3. \A b \in sock' \cup foreign' : ~Clash(a, b)
    BY <1>0, <2>2 DEF KInv, Apart
  <2> QED
    BY <1>0, <2>3 DEF Free, Clash
<1>5. Kept'
  <2> SUFFICES ASSUME calm, NEW k \in DOMAIN before, before[k].at = <<host, before[k].spec.port>>
               PROVE  /\ k \in DOMAIN tun /\ tun[k].at = before[k].at
                      /\ k = key => Free(tun[k].at)'
    BY <1>0 DEF Kept
  <2>1. k \in DOMAIN tun /\ tun[k].at = before[k].at
    BY DEF KInv, Kept
  <2>2. before[k].at # None
    BY AddrIs, NoneAssumption DEF KInv, Found, Runtimes, RouteSpecs, Inv, Types, Addresses
  <2> QED
    BY <1>0, <1>4, <2>1, <2>2 DEF Free, Clash
<1> QED
  BY <1>1, <1>2, <1>3, <1>5 DEF KInv

\* In the hot switch: a route that kept its listener so far gets it again.
LEMMA KSwitch ==
  ASSUME Inv, KInv, pc = "switch", Switch
  PROVE  KInv'
<1> DEFINE s == Head(todo)
           key == Key(s)
<1>0. /\ UNCHANGED <<started, host, foreign, conf, rest, ok, before, calm>>
      /\ \/ StartTunnel(s) /\ pc' = "routes" /\ todo' = Tail(todo)
         \/ ~Starts(s) /\ pc' = "restore" /\ UNCHANGED <<todo, tun, sock>>
      /\ todo # <<>> /\ s \in RouteSpecs /\ key \in DOMAIN tun
      /\ tun[key].spec \in RouteSpecs /\ Key(tun[key].spec) = key
  BY DEF Switch, run, Inv, Types, Filed, Runtimes
<1>1. ASSUME calm, NEW k \in DOMAIN before, before[k].at = <<host, before[k].spec.port>>
      PROVE  /\ k \in DOMAIN tun /\ tun[k].at = before[k].at
             /\ k = key => Free(Addr(s)) /\ tun[k].at = Addr(s)
  <2>1. /\ k \in DOMAIN tun /\ tun[k].at = before[k].at
        /\ k = key => Free(tun[k].at)
    BY <1>1 DEF KInv, Kept
  <2>2. before[k].at # None
    BY <1>1, NoneAssumption DEF KInv, Found, Runtimes, RouteSpecs, Inv, Types, Addresses
  <2>3. tun[k].at[2] = tun[k].spec.port
    BY <2>1, <2>2 DEF KInv, Apart
  <2>4. k = key => tun[k].spec.port = s.port
    BY <1>0 DEF Key
  <2>5. tun[k].at[2] = before[k].spec.port
    BY <1>1, <2>1
  <2> QED
    BY <1>1, <2>1, <2>3, <2>4, <2>5 DEF Addr
<1>2. CASE StartTunnel(s) /\ pc' = "routes" /\ todo' = Tail(todo)
  <2>1. InOrder' /\ Complete'
    BY <1>0, <1>2, Advance, CompleteStarted DEF KInv
  <2>2. Configured' /\ Served' /\ Found'
    BY <1>0, <1>2 DEF KInv, Configured, Served, Found
  <2>3. Apart' /\ Placed'
    BY <1>0, <1>2, StartApart DEF KInv
  <2>4. Kept'
    <3>1. /\ DOMAIN tun' = DOMAIN tun \cup {key}
          /\ \A k \in DOMAIN tun \ {key} : tun'[k] = tun[k]
          /\ Free(Addr(s)) => tun'[key].at = Addr(s)
      BY <1>0, <1>2, StartFiled
    <3> QED
      BY <1>0, <1>1, <1>2, <3>1 DEF Kept
  <2> QED
    BY <2>1, <2>2, <2>3, <2>4 DEF KInv
<1>3. CASE ~Starts(s) /\ pc' = "restore" /\ UNCHANGED <<todo, tun, sock>>
  <2>1. InOrder' /\ Complete'
    BY <1>0, <1>3 DEF KInv, InOrder, Complete, Handled, Total
  <2>2. Configured' /\ Served' /\ Found'
    BY <1>0, <1>3 DEF KInv, Configured, Served, Found
  <2>3. Apart' /\ Placed'
    BY <1>0, <1>3, StopApart DEF KInv
  <2>4. Kept'
    BY <1>0, <1>1, <1>3 DEF Kept, Starts
  <2> QED
    BY <2>1, <2>2, <2>3, <2>4 DEF KInv
<1> QED
  BY <1>0, <1>2, <1>3

LEMMA KRestore ==
  ASSUME Inv, KInv, pc = "restore", Restore
  PROVE  KInv'
<1> DEFINE key == Key(Head(todo))
           old == tun[key].spec
<1>0. /\ UNCHANGED <<started, host, foreign, conf, rest, before, calm>>
      /\ todo # <<>> /\ key \in DOMAIN tun /\ old \in RouteSpecs /\ Key(old) = key
      /\ pc' = "routes" /\ todo' = Tail(todo) /\ ok' = FALSE
  BY DEF Restore, run, Inv, Types, Filed, Runtimes
<1>1. InOrder' /\ Complete' /\ Configured' /\ Served' /\ Found'
  BY <1>0, Advance DEF KInv, Complete, Configured, Served, Found
<1>2. /\ Apart' /\ Placed'
      /\ \A k \in DOMAIN tun \ {key} : k \in DOMAIN tun' /\ tun'[k] = tun[k]
  <2>1. CASE StartTunnel(old)
    <3> HIDE DEF old
    <3>1. \A k \in DOMAIN tun \ {key} : k \in DOMAIN tun' /\ tun'[k] = tun[k]
      BY <1>0, <2>1, StartFiled
    <3> QED
      BY <1>0, <2>1, <3>1, StartApart DEF KInv
  <2>2. CASE tun' = Without(tun, {key}) /\ UNCHANGED sock
    <3>1. DOMAIN tun' = DOMAIN tun \ {key} /\ \A k \in DOMAIN tun' : tun'[k] = tun[k]
      BY <2>2 DEF Without
    <3> QED
      BY <1>0, <2>2, <3>1, StopApart DEF KInv
  <2> QED
    BY <2>1, <2>2 DEF Restore
<1>3. Kept'
  BY <1>0, <1>2 DEF KInv, Kept
<1> QED
  BY <1>1, <1>2, <1>3 DEF KInv

\* The keys of complete routes are all keys.
LEMMA AllKeys ==
  ASSUME Inv, InOrder, Complete, ok, todo = <<>>, pc # "idle" \/ started
  PROVE  /\ Keys(conf) \subseteq DOMAIN tun /\ Handled = Total /\ Total = Len(Specs(conf))
         /\ DOMAIN Specs(conf) = 1 .. Total /\ Total \in Nat
<1>1. conf \in Setups /\ Specs(conf) \in Seq(RouteSpecs) /\ Len(todo) = 0
  BY SetupsAssumption DEF Inv, Types
<1>2. Handled = Total /\ Total = Len(Specs(conf)) /\ Total \in Nat
  BY <1>1 DEF Handled, Total
<1>3. \A i \in 1 .. Total : Key(Specs(conf)[i]) \in DOMAIN tun
  BY <1>2 DEF Complete
<1> QED
  BY <1>1, <1>2, <1>3, KeysAre

LEMMA KRemove ==
  ASSUME Inv, KInv, pc = "routes", RemoveRoutes
  PROVE  KInv'
<1> DEFINE gone == DOMAIN tun \ Keys(conf)
<1>0. /\ StopTunnels(gone) /\ todo = <<>> /\ pc' = "rebuild" /\ rest' = DOMAIN tun \cap Keys(conf)
      /\ UNCHANGED <<started, host, foreign, conf, todo, ok, before, calm>>
  BY DEF RemoveRoutes, run
<1>1. /\ DOMAIN tun' = DOMAIN tun \cap Keys(conf) /\ \A k \in DOMAIN tun' : tun'[k] = tun[k]
      /\ sock' \subseteq sock
  <2>1. gone \in SUBSET DOMAIN tun /\ DOMAIN tun \ gone = DOMAIN tun \cap Keys(conf)
    OBVIOUS
  <2> HIDE DEF gone
  <2> QED
    BY <1>0, <2>1, StopOwned DEF StopTunnels
<1>2. todo = <<>> /\ Len(todo) = 0
  BY <1>0
<1>3. InOrder'
  BY <1>0, <1>2 DEF KInv, InOrder, Handled, Total
<1>4. Complete'
  <2>1. Handled' = Handled /\ conf \in Setups
    BY <1>0 DEF Handled, Total, Inv, Types
  <2>2. ok => DOMAIN tun' = Keys(conf) /\ Keys(conf) \subseteq DOMAIN tun
               /\ Handled = Len(Specs(conf))
    BY <1>0, <1>1, AllKeys DEF KInv
  <2>3. \A i \in 1 .. Len(Specs(conf)) : Key(Specs(conf)[i]) \in Keys(conf)
    BY <2>1, KeysAre
  <2> QED
    BY <1>0, <1>1, <2>1, <2>2, <2>3 DEF KInv, Complete
<1>5. Configured' /\ Served' /\ Found'
  BY <1>0, <1>1 DEF KInv, Configured, Served, ServedBut, Found
<1>6. Apart' /\ Placed'
  BY <1>0, <1>1, StopApart DEF KInv
<1>7. Kept'
  BY <1>0, <1>1 DEF KInv, Kept
<1> QED
  BY <1>3, <1>4, <1>5, <1>6, <1>7 DEF KInv

\* A rebuild gives a listener to a route that has none, and touches no other.
LEMMA KRebuild ==
  ASSUME Inv, KInv, pc = "rebuild", NEW k \in rest, RebuildRoute(k)
  PROVE  KInv'
<1> DEFINE s == tun[k].spec
<1>0. /\ UNCHANGED <<started, host, foreign, pc, conf, todo, before, calm>> /\ rest' = rest \ {k}
      /\ k \in DOMAIN tun /\ s \in RouteSpecs /\ Key(s) = k
      /\ \/ tun[k].at = None /\ StartTunnel(s) /\ UNCHANGED ok
         \/ ok' = FALSE /\ UNCHANGED <<tun, sock>>
         \/ /\ tun[k].at # None \/ WholePort(s.service, s.port)
            /\ UNCHANGED <<ok, tun, sock>>
  BY DEF RebuildRoute, run, Inv, Types, Filed, Runtimes
<1>1. InOrder'
  BY <1>0 DEF KInv, InOrder, Handled, Total
<1>2. /\ DOMAIN tun' = DOMAIN tun /\ tun'[k].spec = tun[k].spec
      /\ \A l \in DOMAIN tun : (l = k /\ tun[k].at = None) \/ tun'[l] = tun[l]
  <2>1. CASE tun[k].at = None /\ StartTunnel(s)
    <3> HIDE DEF s
    <3>1. /\ DOMAIN tun' = DOMAIN tun \cup {k} /\ tun'[k].spec = s
          /\ \A l \in DOMAIN tun \ {k} : tun'[l] = tun[l]
      BY <1>0, <2>1, StartFiled
    <3> QED
      BY <1>0, <2>1, <3>1 DEF s
  <2>2. CASE UNCHANGED tun
    BY <2>2
  <2> QED
    BY <1>0, <2>1, <2>2
<1>3. Complete'
  <2>1. Handled' = Handled /\ (ok' => ok)
    BY <1>0 DEF Handled, Total
  <2>2. \A l \in DOMAIN tun : tun'[l].spec = tun[l].spec
    BY <1>2
  <2> QED
    BY <1>0, <1>2, <2>1, <2>2 DEF KInv, Complete
<1>4. Configured'
  BY <1>0, <1>2 DEF KInv, Configured
<1>5. Served'
  <2>1. CASE StartTunnel(s) /\ UNCHANGED ok
    <3> HIDE DEF s
    <3>1. ok => ServedBut(rest)
      BY DEF KInv, Served
    <3>2. ok => \A left : ServedBut(left) => ServedBut(left \ {k})'
      BY <1>0, <2>1, StartServed
    <3> QED
      BY <1>0, <2>1, <3>1, <3>2 DEF Served, ServedBut
  <2>2. CASE ok' = FALSE
    BY <1>0, <2>2 DEF Served
  <2>3. CASE (tun[k].at # None \/ WholePort(s.service, s.port)) /\ UNCHANGED <<ok, tun, sock>>
    <3>1. ok => ServedBut(rest)
      BY DEF KInv, Served
    <3>2. ok => ServedBut(rest \ {k})
      BY <1>0, <2>3, <3>1 DEF ServedBut
    <3> QED
      BY <1>0, <2>3, <3>2 DEF Served, ServedBut, WholePort
  <2> QED
    BY <1>0, <2>1, <2>2, <2>3
<1>6. Apart' /\ Placed'
  <2>1. CASE StartTunnel(s)
    <3> HIDE DEF s
    <3> QED
      BY <1>0, <2>1, StartApart DEF KInv
  <2>2. CASE UNCHANGED <<tun, sock>>
    BY <1>0, <2>2, StopApart DEF KInv
  <2> QED
    BY <1>0, <2>1, <2>2
<1>7. Found'
  BY <1>0 DEF KInv, Found
<1>8. Kept'
  <2> SUFFICES ASSUME calm, NEW l \in DOMAIN before, before[l].at = <<host, before[l].spec.port>>,
                      l \in Keys(conf)
               PROVE  l \in DOMAIN tun' /\ tun'[l].at = before[l].at
    BY <1>0 DEF Kept
  <2>1. l \in DOMAIN tun /\ tun[l].at = before[l].at
    BY DEF KInv, Kept
  <2>2. before[l].at # None
    BY NoneAssumption DEF KInv, Found, Runtimes, RouteSpecs, Inv, Types, Addresses
  <2> QED
    BY <1>2, <2>1, <2>2
<1> QED
  BY <1>1, <1>3, <1>4, <1>5, <1>6, <1>7, <1>8 DEF KInv

LEMMA KDone ==
  ASSUME Inv, KInv, pc = "rebuild", ReloadDone
  PROVE  KInv'
<1>0. /\ UNCHANGED <<started, host, tun, sock, foreign, conf, todo, rest, ok, before, calm>>
      /\ pc' = "idle" /\ rest = {} /\ started
  BY DEF ReloadDone, run, work, Inv, Phases
<1>1. InOrder' /\ Complete'
  BY <1>0 DEF KInv, InOrder, Complete, Handled, Total
<1>2. Configured' /\ Found' /\ Kept'
  BY <1>0 DEF KInv, Configured, Found, Kept
<1>3. Served'
  BY <1>0 DEF KInv, Served, ServedBut, WholePort
<1>4. Apart' /\ Placed'
  BY <1>0, StopApart DEF KInv
<1> QED
  BY <1>1, <1>2, <1>3, <1>4 DEF KInv

\* Other programs: a port is taken only if it is free, and that ends the calm.
LEMMA KOther ==
  ASSUME Inv, KInv, (\E a \in Addresses : TakePort(a) \/ FreePort(a)) \/ UNCHANGED vars
  PROVE  KInv'
<1>0. UNCHANGED <<started, host, tun, sock, pc, conf, todo, rest, ok, before>>
  BY DEF TakePort, FreePort, vars, run, work
<1>1. InOrder' /\ Complete'
  BY <1>0 DEF KInv, InOrder, Complete, Handled, Total
<1>2. Configured' /\ Found' /\ Served'
  BY <1>0 DEF KInv, Configured, Found, Served, ServedBut, WholePort
<1>3. ASSUME NEW a, TakePort(a) PROVE Apart' /\ Placed' /\ Kept'
  <2>1. Free(a) /\ foreign' = foreign \cup {a} /\ ~calm'
    BY <1>3 DEF TakePort
  <2>2. \A b \in sock : ~Clash(a, b) /\ ~Clash(b, a)
    BY <2>1 DEF Free, Clash
  <2>3. \A b \in sock', c \in foreign' : ~Clash(b, c)
    BY <1>0, <2>1, <2>2 DEF KInv, Apart
  <2>4. Apart'
    BY <1>0, <2>3 DEF KInv, Apart, Clash
  <2> QED
    BY <1>0, <2>1, <2>4 DEF KInv, Placed, Addr, Kept
<1>4. ASSUME foreign' \subseteq foreign, calm' = calm PROVE Apart' /\ Placed' /\ Kept'
  <2>1. Apart' /\ Placed'
    BY <1>0, <1>4, StopApart DEF KInv
  <2>2. \A a : Free(a) => Free(a)'
    BY <1>0, <1>4 DEF Free, Clash
  <2> QED
    BY <1>0, <1>4, <2>1, <2>2 DEF KInv, Kept, Free, Clash
<1> QED
  BY <1>0, <1>1, <1>2, <1>3, <1>4 DEF KInv, FreePort, vars

LEMMA KNext == Inv /\ KInv /\ [Next]_vars => KInv'
<1> SUFFICES ASSUME Inv, KInv, [Next]_vars PROVE KInv'
  OBVIOUS
<1>1. CASE \E c \in Setups : Start(c) \/ Reload(c)
  BY <1>1, KBegin
<1>2. CASE Stop
  BY <1>2, KStop DEF Stop, work
<1>3. CASE StartRoute \/ StartDone
  BY <1>3, KStart DEF StartRoute, StartDone
<1>4. CASE ReloadRoute
  <2>1. pc = "routes" /\ pc' \in {"routes", "switch"}
    BY <1>4 DEF ReloadRoute
  <2> QED
    BY <1>4, <2>1, KRoute, KStopOld
<1>5. CASE RemoveRoutes
  BY <1>5, KRemove DEF RemoveRoutes
<1>6. CASE Switch \/ Restore
  BY <1>6, KSwitch, KRestore DEF Switch, Restore
<1>7. CASE ReloadDone \/ \E k \in rest : RebuildRoute(k)
  BY <1>7, KDone, KRebuild DEF ReloadDone, RebuildRoute
<1>8. CASE UNCHANGED vars \/ \E a \in Addresses : TakePort(a) \/ FreePort(a)
  BY <1>8, KOther
<1> QED
  BY <1>1, <1>2, <1>3, <1>4, <1>5, <1>6, <1>7, <1>8 DEF Next

LEMMA InvComplete == Inv /\ KInv => SuccessIsComplete
<1> SUFFICES ASSUME Inv, KInv, pc = "idle", started, ok
             PROVE  /\ DOMAIN tun = Keys(conf)
                    /\ \A i \in DOMAIN Specs(conf) :
                          LET s == Specs(conf)[i] IN
                          \/ tun[Key(s)].spec = s
                          \/ \E j \in DOMAIN Specs(conf) : i < j /\ Key(Specs(conf)[j]) = Key(s)
                    /\ \A k \in DOMAIN tun :
                          tun[k].at # None \/ WholePort(tun[k].spec.service, tun[k].spec.port)
                    /\ \A k \in DOMAIN tun :
                          \/ tun[k].at \in {None, <<conf.host, tun[k].spec.port>>}
                          \/ k \in DOMAIN before /\ before[k] = tun[k]
  BY DEF SuccessIsComplete
<1>1. todo = <<>> /\ host = conf.host
  <2>1. todo \in Seq(RouteSpecs) /\ Len(todo) = 0 /\ host = conf.host
    BY DEF KInv, InOrder, Inv, Types
  <2> QED
    BY <2>1
<1>2. /\ Keys(conf) \subseteq DOMAIN tun /\ Handled = Total
      /\ DOMAIN Specs(conf) = 1 .. Total /\ Total \in Nat
  BY <1>1, AllKeys DEF KInv
<1>3. DOMAIN tun = Keys(conf)
  BY <1>2 DEF KInv, Configured
<1>4. \A i \in DOMAIN Specs(conf) :
         LET s == Specs(conf)[i] IN
         \/ tun[Key(s)].spec = s
         \/ \E j \in DOMAIN Specs(conf) : i < j /\ Key(Specs(conf)[j]) = Key(s)
  BY <1>2 DEF KInv, Complete
<1>5. \A k \in DOMAIN tun :
         tun[k].at # None \/ WholePort(tun[k].spec.service, tun[k].spec.port)
  BY DEF KInv, Served, ServedBut
<1>6. \A k \in DOMAIN tun :
         \/ tun[k].at \in {None, <<conf.host, tun[k].spec.port>>}
         \/ k \in DOMAIN before /\ before[k] = tun[k]
  BY <1>1 DEF KInv, Placed, Addr
<1> QED
  BY <1>3, <1>4, <1>5, <1>6

LEMMA InvKeeps == Inv /\ KInv => KeepsListeners
<1> SUFFICES ASSUME Inv, KInv, pc = "idle", started, calm, NEW k \in DOMAIN before \cap Keys(conf),
                    before[k].at = <<conf.host, before[k].spec.port>>
             PROVE  k \in DOMAIN tun /\ tun[k].at = before[k].at
  BY DEF KeepsListeners
<1>1. host = conf.host
  BY DEF KInv, InOrder
<1> QED
  BY <1>1 DEF KInv, Kept

\* A Start or Reload that reports success has done all of it
\* (SuccessIsComplete).
THEOREM CompleteCorrect == Spec => []SuccessIsComplete
<1>1. Init => Inv /\ KInv
  BY InvInit, KInit
<1>2. (Inv /\ KInv) /\ [Next]_vars => (Inv /\ KInv)'
  BY InvNext, KNext
<1>3. Inv /\ KInv => SuccessIsComplete
  BY InvComplete
<1> QED
  BY <1>1, <1>2, <1>3, PTL DEF Spec

\* A reload keeps the listeners of configured routes (KeepsListeners).
THEOREM KeepsCorrect == Spec => []KeepsListeners
<1>1. Init => Inv /\ KInv
  BY InvInit, KInit
<1>2. (Inv /\ KInv) /\ [Next]_vars => (Inv /\ KInv)'
  BY InvNext, KNext
<1>3. Inv /\ KInv => KeepsListeners
  BY InvKeeps
<1> QED
  BY <1>1, <1>2, <1>3, PTL DEF Spec
==============================================================================
