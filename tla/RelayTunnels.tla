----------------------------- MODULE RelayTunnels -----------------------------
(***************************************************************************)
(* The tunnels of mtls-relay: Start, Reload and Stop of internal/relay     *)
(* (core.go) over listening sockets (startTunnel and stop of tunnel.go).   *)
(*                                                                         *)
(* The relay's mutex keeps these operations apart.  Other programs are not *)
(* kept out: they may take and free a port between any two steps, so an    *)
(* operation is one step per attempt to listen.                            *)
(*                                                                         *)
(* A route listens on a port of listen_host.  With a local path it is an   *)
(* HTTP proxy, without one it takes the whole port (TCP).  A path route    *)
(* whose port is held by a whole-port route of the same service has no     *)
(* listener of its own: the whole-port route serves it.                    *)
(***************************************************************************)
EXTENDS Integers, Sequences, FiniteSets, SequencesExt

CONSTANTS
    Setups,   \* configurations: host, ca (server_ca is readable) and tunnels
    Hosts,    \* values of listen_host
    AnyHost,  \* the wildcard address
    Ports,
    None

Addresses == Hosts \X Ports

VARIABLES
    started, \* Start has succeeded and no Stop has followed
    host,    \* relay.listenHost
    tun,     \* tun[k]: the runtime of route key k, its spec and its listener
    sock,    \* addresses on which the relay has a listening socket
    foreign, \* addresses that other programs hold
    pc,      \* where the operation that holds the mutex is
    conf,    \* its configuration
    todo,    \* routes still to be handled
    rest,    \* keys still to be looked at by the rebuild loop
    ok,      \* no tunnel of this operation has failed
    before,  \* tun when the operation began
    calm     \* since then no other program took a port and listen_host is as it was

run  == <<started, host>>
work == <<conf, todo, rest, ok, before>>
vars == <<run, tun, sock, foreign, pc, work, calm>>

-----------------------------------------------------------------------------
Key(s) == <<s.service, s.channel, s.port, s.path>>

\* tunnelRoutes: the routes of a tunnel, whole-port routes first.
TunnelRoutes(t) ==
    LET spec(r) == [service |-> t.service, cert |-> t.cert, channel |-> r.channel,
                    port |-> r.port, path |-> r.path]
        whole(r) == r.path = ""
        path(r)  == r.path # ""
        sorted == SelectSeq(t.routes, whole) \o SelectSeq(t.routes, path)
    IN [i \in DOMAIN sorted |-> spec(sorted[i])]

Specs(c) ==
    LET routes(t) == IF t.enabled THEN TunnelRoutes(t) ELSE <<>>
    IN FlattenSeq([i \in DOMAIN c.tunnels |-> routes(c.tunnels[i])])

Keys(c) == {Key(s) : s \in ToSet(Specs(c))}

RouteSpecs == [service : STRING, cert : STRING, channel : STRING, port : Ports, path : STRING]

ASSUME NoneAssumption   == None \notin Addresses
ASSUME SetupsAssumption == \A c \in Setups : c.host \in Hosts /\ Specs(c) \in Seq(RouteSpecs)

Clash(a, b) == a[2] = b[2] /\ (a[1] = b[1] \/ AnyHost \in {a[1], b[1]})

Addr(s) == <<host, s.port>>
Free(a) == \A b \in sock \cup foreign : ~Clash(a, b)

\* hasLocalPort and hasWholePortRuntime: the service has a whole-port route on
\* that port with a listener.
WholePort(service, port) ==
    \E k \in DOMAIN tun : /\ tun[k].at # None
                          /\ tun[k].spec.service = service
                          /\ tun[k].spec.port = port
                          /\ tun[k].spec.path = ""

\* startTunnel succeeds with a listener or, if the address is in use
\* (isAddrInUse), as a guest of a whole-port route. (An error of net.Listen that
\* has nothing to do with the address, such as too many open files, looks like a
\* port that another program takes just before and frees just after, TakePort and
\* FreePort; that it refuses guests, too, which have no socket, is left out.)
Guest(s)  == ~Free(Addr(s)) /\ s.path # "" /\ WholePort(s.service, s.port)
Starts(s) == Free(Addr(s)) \/ Guest(s)

Runtime(s) == [spec |-> s, at |-> IF Free(Addr(s)) THEN Addr(s) ELSE None]

Listening(t) == {t[k].at : k \in DOMAIN t} \ {None}

Without(t, ks) == [k \in DOMAIN t \ ks |-> t[k]]

\* The runtime becomes the one of its key, with its socket.
StartTunnel(s) ==
    /\ Starts(s)
    /\ tun' = [k \in DOMAIN tun \cup {Key(s)} |-> IF k = Key(s) THEN Runtime(s) ELSE tun[k]]
    /\ sock' = IF Free(Addr(s)) THEN sock \cup {Addr(s)} ELSE sock

\* stop, for the runtimes of these keys.
StopTunnels(ks) ==
    /\ tun' = Without(tun, ks)
    /\ sock' = sock \ Listening([k \in ks |-> tun[k]])

Init ==
    /\ started = FALSE /\ host \in Hosts
    /\ tun = <<>> /\ sock = {}
    /\ foreign \in SUBSET Addresses
    /\ pc = "idle" /\ conf \in Setups /\ todo = <<>> /\ rest = {}
    /\ ok = TRUE /\ before = <<>> /\ calm = FALSE

-----------------------------------------------------------------------------
\* Start and Reload set host and server address first; a server_ca that cannot
\* be read ends them there.
Begin(c, to) ==
    /\ pc = "idle"
    /\ host' = c.host
    /\ conf' = c
    /\ before' = tun /\ calm' = (c.host = host)
    /\ \/ c.ca /\ pc' = to /\ todo' = Specs(c) /\ ok' = TRUE
       \/ ~c.ca /\ pc' = pc /\ todo' = <<>> /\ ok' = FALSE
    /\ UNCHANGED <<started, tun, sock, foreign, rest>>

Start(c) == ~started /\ Begin(c, "start")

\* One route after another; the first failure takes back all of them.
StartRoute ==
    /\ pc = "start" /\ todo # <<>>
    /\ \/ /\ StartTunnel(Head(todo))
          /\ todo' = Tail(todo)
          /\ UNCHANGED <<pc, ok>>
       \/ /\ ~Starts(Head(todo))
          /\ StopTunnels(DOMAIN tun)
          /\ pc' = "idle" /\ todo' = <<>> /\ ok' = FALSE
    /\ UNCHANGED <<run, foreign, conf, rest, before, calm>>

StartDone ==
    /\ pc = "start" /\ todo = <<>>
    /\ pc' = "idle"
    /\ started' = TRUE
    /\ UNCHANGED <<host, tun, sock, foreign, work, calm>>

Stop ==
    /\ pc = "idle"
    /\ StopTunnels(DOMAIN tun)
    /\ started' = FALSE
    /\ UNCHANGED <<host, foreign, pc, work, calm>>

-----------------------------------------------------------------------------
Reload(c) == started /\ Begin(c, "routes")

\* A reload that looks for missing keys only, and one that starts the new
\* runtime before it has stopped the old one, for comparison.
ReloadMissing ==
    LET s == Head(todo) IN
    /\ pc = "routes" /\ todo # <<>>
    /\ \/ Key(s) \notin DOMAIN tun /\ StartTunnel(s) /\ UNCHANGED ok
       \/ Key(s) \notin DOMAIN tun /\ ~Starts(s) /\ ok' = FALSE /\ UNCHANGED <<tun, sock>>
       \/ Key(s) \in DOMAIN tun /\ UNCHANGED <<ok, tun, sock>>
    /\ todo' = Tail(todo)
    /\ UNCHANGED <<run, foreign, pc, conf, rest, before, calm>>

ReloadNoStop ==
    LET s == Head(todo) IN
    /\ pc = "routes" /\ todo # <<>>
    /\ \/ /\ Key(s) \notin DOMAIN tun
          /\ \/ StartTunnel(s) /\ UNCHANGED ok
             \/ ~Starts(s) /\ ok' = FALSE /\ UNCHANGED <<tun, sock>>
          /\ todo' = Tail(todo) /\ UNCHANGED pc
       \/ /\ Key(s) \in DOMAIN tun
          /\ \/ tun[Key(s)].spec = s /\ todo' = Tail(todo) /\ UNCHANGED pc
             \/ tun[Key(s)].spec # s /\ pc' = "switch" /\ UNCHANGED todo
          /\ UNCHANGED <<ok, tun, sock>>
    /\ UNCHANGED <<run, foreign, conf, rest, before, calm>>

\* A route that is new is started (a failure does not stop the others), one
\* with another certificate is stopped first, any other is left alone.
ReloadRoute ==
    LET s == Head(todo) IN
    /\ pc = "routes" /\ todo # <<>>
    /\ \/ /\ Key(s) \notin DOMAIN tun
          /\ StartTunnel(s)
          /\ todo' = Tail(todo) /\ UNCHANGED <<pc, ok>>
       \/ /\ Key(s) \notin DOMAIN tun
          /\ ~Starts(s)
          /\ todo' = Tail(todo) /\ ok' = FALSE /\ UNCHANGED <<pc, tun, sock>>
       \/ /\ Key(s) \in DOMAIN tun /\ tun[Key(s)].spec = s
          /\ todo' = Tail(todo) /\ UNCHANGED <<pc, ok, tun, sock>>
       \/ /\ Key(s) \in DOMAIN tun /\ tun[Key(s)].spec # s
          /\ sock' = sock \ {tun[Key(s)].at}
          /\ pc' = "switch" /\ UNCHANGED <<todo, ok, tun>>
    /\ UNCHANGED <<run, foreign, conf, rest, before, calm>>

\* The hot switch: the new runtime takes the place of the stopped one ...
Switch ==
    LET s == Head(todo) IN
    /\ pc = "switch"
    /\ \/ StartTunnel(s) /\ pc' = "routes" /\ todo' = Tail(todo)
       \/ ~Starts(s) /\ pc' = "restore" /\ UNCHANGED <<todo, tun, sock>>
    /\ UNCHANGED <<run, foreign, conf, rest, ok, before, calm>>

\* ... or the old one is started again, or else forgotten.
Restore ==
    LET k == Key(Head(todo)) IN
    /\ pc = "restore"
    /\ \/ StartTunnel(tun[k].spec)
       \/ /\ ~Starts(tun[k].spec)
          /\ tun' = Without(tun, {k}) /\ UNCHANGED sock
    /\ pc' = "routes" /\ todo' = Tail(todo) /\ ok' = FALSE
    /\ UNCHANGED <<run, foreign, conf, rest, before, calm>>

\* Removed from the map without being stopped, for comparison.
RemoveUnstopped ==
    /\ pc = "routes" /\ todo = <<>>
    /\ tun' = Without(tun, DOMAIN tun \ Keys(conf))
    /\ pc' = "rebuild"
    /\ rest' = DOMAIN tun \cap Keys(conf)
    /\ UNCHANGED <<run, sock, foreign, conf, todo, ok, before, calm>>

\* Routes that are no longer configured stop.
RemoveRoutes ==
    /\ pc = "routes" /\ todo = <<>>
    /\ StopTunnels(DOMAIN tun \ Keys(conf))
    /\ pc' = "rebuild"
    /\ rest' = DOMAIN tun \cap Keys(conf)
    /\ UNCHANGED <<run, foreign, conf, todo, ok, before, calm>>

\* A guest whose whole-port route is gone gets a listener, in the order of the
\* map.
RebuildRoute(k) ==
    /\ pc = "rebuild" /\ k \in rest
    /\ rest' = rest \ {k}
    /\ LET s == tun[k].spec
           stranded == tun[k].at = None /\ ~WholePort(s.service, s.port)
       IN \/ stranded /\ StartTunnel(s) /\ UNCHANGED ok
          \/ stranded /\ ~Starts(s) /\ ok' = FALSE /\ UNCHANGED <<tun, sock>>
          \/ ~stranded /\ UNCHANGED <<ok, tun, sock>>
    /\ UNCHANGED <<run, foreign, pc, conf, todo, before, calm>>

ReloadDone ==
    /\ pc = "rebuild" /\ rest = {}
    /\ pc' = "idle"
    /\ UNCHANGED <<run, tun, sock, foreign, work, calm>>

-----------------------------------------------------------------------------
\* Other programs.
TakePort(a) ==
    /\ Free(a)
    /\ foreign' = foreign \cup {a}
    /\ calm' = FALSE
    /\ UNCHANGED <<run, tun, sock, pc, work>>

FreePort(a) ==
    /\ a \in foreign
    /\ foreign' = foreign \ {a}
    /\ UNCHANGED <<run, tun, sock, pc, work, calm>>

Next ==
    \/ \E c \in Setups : Start(c) \/ Reload(c)
    \/ StartRoute \/ StartDone \/ Stop
    \/ ReloadRoute \/ Switch \/ Restore \/ RemoveRoutes \/ ReloadDone
    \/ \E k \in rest : RebuildRoute(k)
    \/ \E a \in Addresses : TakePort(a) \/ FreePort(a)

Spec == Init /\ [][Next]_vars

-----------------------------------------------------------------------------
\* Every socket belongs to exactly one route that is still known, so Stop and
\* Reload can close it, through failures, hot switches, restores and rebuilds;
\* a relay that is not started has none.
SocketsOwned ==
    pc = "idle" =>
        /\ sock = Listening(tun)
        /\ \A k, l \in DOMAIN tun : tun[k].at = tun[l].at /\ tun[k].at # None => k = l
        /\ ~started => sock = {}

\* A Start or Reload that reports success has done all of it: the configured
\* routes and no others, with the configured certificates (of the last of two
\* routes with one key), and each of them is served by its own listener or by a
\* whole-port route of its own service. A listener is on the configured address
\* unless this very route had it before.
SuccessIsComplete ==
    pc = "idle" /\ started /\ ok =>
        /\ DOMAIN tun = Keys(conf)
        /\ \A i \in DOMAIN Specs(conf) :
              LET s == Specs(conf)[i] IN
              \/ tun[Key(s)].spec = s
              \/ \E j \in DOMAIN Specs(conf) : i < j /\ Key(Specs(conf)[j]) = Key(s)
        /\ \A k \in DOMAIN tun :
              tun[k].at # None \/ WholePort(tun[k].spec.service, tun[k].spec.port)
        /\ \A k \in DOMAIN tun :
              \/ tun[k].at \in {None, <<conf.host, tun[k].spec.port>>}
              \/ k \in DOMAIN before /\ before[k] = tun[k]

\* A reload never costs a configured route the listener it had on the configured
\* address, unless another program interferes or listen_host changes:
\* certificates are switched, ports freed and guests rebuilt around it. (One that
\* is still on an earlier listen_host may be lost in a switch: the new address
\* can clash with a third one that another program has had all along.)
KeepsListeners ==
    pc = "idle" /\ started /\ calm =>
        \A k \in DOMAIN before \cap Keys(conf) :
            before[k].at = <<conf.host, before[k].spec.port>> =>
                k \in DOMAIN tun /\ tun[k].at = before[k].at

\* What UpdateSettings says of a change of listen_host: the reload rebuilds the
\* tunnels, and it takes effect. Unchanged routes stay on the old address.
ListenHostApplied ==
    pc = "idle" /\ started /\ ok => \A a \in sock : a[1] = conf.host

=============================================================================
