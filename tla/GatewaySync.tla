----------------------------- MODULE GatewaySync -----------------------------
(***************************************************************************)
(* The certificate table and the configuration, from the process that      *)
(* writes them (mtls-admin) to the process that serves from copies of them *)
(* (mtls-gw), with the reload that joins the two.                          *)
(*                                                                         *)
(*   cmd/mtls-admin/main.go          administrative operations, Trigger    *)
(*   internal/httpshared/reloadclient.go                                   *)
(*   cmd/mtls-gw/main.go, listeners.go   reload handler, business requests *)
(*   internal/db/db.go, internal/auth/auth.go, internal/configmgr          *)
(*                                                                         *)
(* The authority is kept as a history: log[i] is the i-th committed state  *)
(* of the SQLite table and file[i] the i-th content of config.toml.  What  *)
(* the gateway holds in memory is always a state it once read, so a copy   *)
(* is the index of that state.                                             *)
(***************************************************************************)
EXTENDS Integers, Sequences, FiniteSets

CONSTANTS
    Serials,     \* certificate serial numbers
    ReloadCert,  \* the admin client certificate of mtls-admin
    AdminRole,   \* admin_role
    Purposes,    \* Purposes[s]: the roles recorded for serial s
    ExpiryDay,   \* ExpiryDay[s]: last day on which s is valid
    Ports,       \* business ports (numbers: sorted as the code sorts them)
    Configs,     \* contents of config.toml
    Parses,      \* the contents that config.Parse and NewRouter accept
    Listens,     \* Listens[c]: business ports of c
    RolesAt,     \* RolesAt[c][p]: merged roles of the route on port p
    IPBind,      \* IPBind[c]: the fields a reload may not change
    Admins,      \* concurrent administrative requests
    Handlers,    \* concurrent executions of the gateway's reload handler
    Requests,    \* concurrent business requests
    Nobody,      \* no certificate / no caller
    MaxVer,      \* bound: committed states of the table
    MaxFile,     \* bound: contents of the file
    MaxDay,      \* bound: days
    Faults       \* which of the environment's faults may happen

\* "db" and "file": the gateway's query or its reading of config.toml fails.
FaultKinds == {"crash", "timeout", "edit", "bind", "db", "file"}

ASSUME SyncAssumption ==
    /\ ReloadCert \in Serials
    /\ Nobody \notin Serials \cup Admins
    /\ Ports \subseteq Nat
    /\ Parses \subseteq Configs
    /\ Listens \in [Configs -> SUBSET Ports]
    /\ IPBind \in [Configs -> BOOLEAN]
    /\ ExpiryDay \in [Serials -> Nat]
    /\ MaxVer \in Nat /\ MaxFile \in Nat /\ MaxDay \in Nat
    /\ Faults \subseteq FaultKinds

VARIABLES
    log,      \* committed states of the certificate table
    file,     \* contents the configuration file has had
    today,
    aup,      \* mtls-admin is running
    amem,     \* the fixed security fields in mtls-admin's configuration
    apc,      \* per administrative request: where it is
    atgt,     \* the serial it is issuing
    gpc,      \* where mtls-gw is in main
    tab,      \* version of the table in the gateway's memory
    cfg,      \* version of the configuration (and router) in its memory
    gate,     \* require_ip_bind as fixed by auth.New at startup
    pending,  \* business ports whose startup goroutine has not listened yet
    opening,  \* ports it has listened on and not registered yet
    reg,      \* ports in the listener registry
    bound,    \* ports the gateway process has a listening socket on
    hpc,      \* per reload handler: where it is
    hclient,  \* the administrative request waiting for the answer
    hver,     \* version of the table when the reload arrived
    hfver,    \* version of the file when the reload arrived
    hsolo,    \* no other reload has been under way since it arrived
    hboot,    \* a startup goroutine was still to listen when it arrived
    hold,     \* registered business ports it saw at its start
    hsnap,    \* version of the table it has read
    hcand,    \* version of the file it has parsed
    hadd,     \* ports still to add
    hrem,     \* ports still to remove
    hfail,    \* ports whose listen failed
    rpc,      \* per business request: where it is
    rser,     \* the serial of its client certificate
    rroles,   \* roles of the route it matched
    rfloor,   \* dbFloor when it began
    dbFloor,  \* versions confirmed by reloads that ran alone
    cfgFloor,
    dbAcked,  \* versions confirmed by any reload
    cfgAcked

store    == <<log, file, today>>
admin    == <<aup, amem, apc, atgt>>
view     == <<gpc, tab, cfg, gate>>
sockets  == <<pending, opening, reg, bound>>
handler  == <<hclient, hver, hfver, hsolo, hboot, hold, hsnap, hcand, hadd, hrem, hfail>>
request  == <<rpc, rser, rroles, rfloor>>
promises == <<dbFloor, cfgFloor, dbAcked, cfgAcked>>

vars == <<store, admin, view, sockets, hpc, handler, request, promises>>

-----------------------------------------------------------------------------
Status == {"absent", "enabled", "revoked"}
Table  == [Serials -> Status]

db   == log[Len(log)]
disk == file[Len(file)]

MaxOf(a, b) == IF a >= b THEN a ELSE b

\* diffPorts sorts: the port to be dealt with next.
NextIn(p, S) == p \in S /\ \A q \in S : p <= q

\* A change of the authority becomes its next version.
Commit(t)  == Len(log) < MaxVer /\ log' = Append(log, t)
WriteFile(c) == Len(file) < MaxFile /\ file' = Append(file, c)

\* A lookup that forgets to ask for the status, for comparison.
RegisteredUnchecked(s) == log[tab][s] # "absent" /\ today <= ExpiryDay[s]

\* db.Store.Get on the gateway's table, then the checks of Authorize on the
\* record: registered, enabled, not past its expiry date.
Registered(s) == /\ log[tab][s] = "enabled"
                 /\ today <= ExpiryDay[s]

\* The IP pre-check comes before the table is consulted.
Authorize(s, ipMatches) == (gate => ipMatches) /\ Registered(s)

\* rolesMatch: "any" admits every registered certificate.
Allows(roles, s) == "any" \in roles \/ roles \cap Purposes[s] # {}

AllowsNull(roles) == "null" \in roles

IsAdmin(s) == AdminRole \in Purposes[s]

\* The reload endpoint of mtls-gw is being served.
up == gpc = "up"

Idle(h) == hpc[h] = "idle"
Active  == {h \in Handlers : ~Idle(h)}

Init ==
    /\ log \in {<<t>> : t \in [Serials -> {"absent", "enabled"}]}
    /\ file \in {<<c>> : c \in Parses}
    /\ today = 0
    /\ aup = TRUE /\ amem = IPBind[disk]
    /\ apc = [a \in Admins |-> "idle"]
    /\ atgt = [a \in Admins |-> Nobody]
    /\ gpc = "down" /\ tab = 1 /\ cfg = 1 /\ gate = FALSE
    /\ pending = {} /\ opening = {} /\ reg = {} /\ bound = {}
    /\ hpc = [h \in Handlers |-> "idle"]
    /\ hclient = [h \in Handlers |-> Nobody]
    /\ hver = [h \in Handlers |-> 1]
    /\ hfver = [h \in Handlers |-> 1]
    /\ hsolo = [h \in Handlers |-> FALSE]
    /\ hboot = [h \in Handlers |-> FALSE]
    /\ hold = [h \in Handlers |-> {}]
    /\ hsnap = [h \in Handlers |-> 1]
    /\ hcand = [h \in Handlers |-> 1]
    /\ hadd = [h \in Handlers |-> {}]
    /\ hrem = [h \in Handlers |-> {}]
    /\ hfail = [h \in Handlers |-> {}]
    /\ rpc = [r \in Requests |-> "idle"]
    /\ rser = [r \in Requests |-> Nobody]
    /\ rroles = [r \in Requests |-> {}]
    /\ rfloor = [r \in Requests |-> 0]
    /\ dbFloor = 0 /\ cfgFloor = 0 /\ dbAcked = 0 /\ cfgAcked = 0

-----------------------------------------------------------------------------
(***************************************************************************)
(* mtls-admin                                                              *)
(***************************************************************************)
Idles(a) == aup /\ apc[a] = "idle"

\* Where a request is after this step; the rest of mtls-admin is unchanged.
Moves(a, to) ==
    /\ apc' = [apc EXCEPT ![a] = to]
    /\ UNCHANGED <<aup, amem>>

\* POST /admin/certs/revoke: Store.Revoke, then postChange.
Revoke(a, s) ==
    /\ Idles(a)
    /\ db[s] # "absent"
    /\ Commit([db EXCEPT ![s] = "revoked"])
    /\ Moves(a, "changed")
    /\ UNCHANGED <<file, today, atgt, view, sockets, hpc, handler, request, promises>>

\* IssueCert up to InsertUniqueName; a serial is random and never used twice.
InsertCert(a, s) ==
    /\ Idles(a)
    /\ \A i \in DOMAIN log : log[i][s] = "absent"
    /\ Commit([db EXCEPT ![s] = "enabled"])
    /\ Moves(a, "inserted")
    /\ atgt' = [atgt EXCEPT ![a] = s]
    /\ UNCHANGED <<file, today, view, sockets, hpc, handler, request, promises>>

\* The directory rename succeeded: the certificate is issued.
FinalizeIssue(a) ==
    /\ apc[a] = "inserted"
    /\ Moves(a, "changed")
    /\ UNCHANGED <<store, atgt, view, sockets, hpc, handler, request, promises>>

\* The rename failed: Store.Delete takes the record back (unless that fails
\* too) and the request ends in an error, without a reload.
RollbackIssue(a) ==
    /\ apc[a] = "inserted"
    /\ \/ Commit([db EXCEPT ![atgt[a]] = "absent"])
       \/ "db" \in Faults /\ log' = log
    /\ Moves(a, "idle")
    /\ UNCHANGED <<file, today, atgt, view, sockets, hpc, handler, request, promises>>

\* A configuration request that persisted its change: configmgr saves only
\* what rebuild accepts, over whatever is in the file, and no request touches
\* the fields behind IPBind, which come from mtls-admin's own start.
SaveConfig(a, c) ==
    /\ Idles(a)
    /\ c \in Parses
    /\ IPBind[c] = amem
    /\ WriteFile(c)
    /\ Moves(a, "changed")
    /\ UNCHANGED <<log, today, atgt, view, sockets, hpc, handler, request, promises>>

\* ReloadClient.Trigger reaches the gateway, whose admin handler authorizes
\* the reload certificate and starts the reload.
Trigger(a, h) ==
    /\ apc[a] = "changed"
    /\ up /\ Idle(h)
    /\ Authorize(ReloadCert, TRUE) /\ IsAdmin(ReloadCert)
    /\ Moves(a, "waiting")
    /\ hpc' = [hpc EXCEPT ![h] = "validate"]
    /\ hclient' = [hclient EXCEPT ![h] = a]
    /\ hver' = [hver EXCEPT ![h] = Len(log)]
    /\ hfver' = [hfver EXCEPT ![h] = Len(file)]
    /\ hsolo' = [g \in Handlers |-> IF g = h THEN Active = {}
                                    ELSE hsolo[g] /\ Idle(g)]
    /\ hboot' = [hboot EXCEPT ![h] = pending \cup opening # {}]
    /\ hold' = [hold EXCEPT ![h] = reg]
    /\ UNCHANGED <<store, atgt, view, sockets, hsnap, hcand, hadd, hrem, hfail,
                   request, promises>>

\* Trigger returns false: the gateway is down, or answers 403 because the
\* reload certificate is not enabled in the copy it authorizes against. The
\* change stays; only the log says that the gateway was not told.
TriggerFails(a) ==
    /\ apc[a] = "changed"
    /\ ~up \/ ~(Authorize(ReloadCert, TRUE) /\ IsAdmin(ReloadCert))
    /\ Moves(a, "idle")
    /\ UNCHANGED <<store, atgt, view, sockets, hpc, handler, request, promises>>

\* The 15 s timeout of the reload client; the handler goes on.
TriggerTimesOut(a) ==
    /\ "timeout" \in Faults
    /\ apc[a] = "waiting"
    /\ Moves(a, "idle")
    /\ hclient' = [h \in Handlers |-> IF hclient[h] = a THEN Nobody ELSE hclient[h]]
    /\ UNCHANGED <<store, atgt, view, sockets, hpc, hver, hfver, hsolo, hboot, hold,
                   hsnap, hcand, hadd, hrem, hfail, request, promises>>

\* mtls-admin dies: requests under way are gone, what they committed stays and
\* is not announced.
AdminCrash ==
    /\ "crash" \in Faults /\ aup
    /\ aup' = FALSE
    /\ apc' = [a \in Admins |-> "idle"]
    /\ hclient' = [h \in Handlers |-> Nobody]
    /\ UNCHANGED <<store, amem, atgt, view, sockets, hpc, hver, hfver, hsolo, hboot, hold,
                   hsnap, hcand, hadd, hrem, hfail, request, promises>>

\* It starts again from the file, and not from a broken one.
AdminBoot ==
    /\ ~aup
    /\ disk \in Parses
    /\ aup' = TRUE
    /\ amem' = IPBind[disk]
    /\ UNCHANGED <<store, apc, atgt, view, sockets, hpc, handler, request, promises>>

\* Somebody edits config.toml by hand, possibly into something broken.
EditFile(c) ==
    /\ "edit" \in Faults
    /\ c # disk
    /\ WriteFile(c)
    /\ UNCHANGED <<log, today, admin, view, sockets, hpc, handler, request, promises>>

NextDay ==
    /\ today < MaxDay
    /\ today' = today + 1
    /\ UNCHANGED <<log, file, admin, view, sockets, hpc, handler, request, promises>>

-----------------------------------------------------------------------------
(***************************************************************************)
(* mtls-gw: start, stop and the startup goroutines                         *)
(***************************************************************************)
\* main reads the file first, ...
ReadConfig ==
    /\ gpc = "down"
    /\ disk \in Parses
    /\ gpc' = "opening"
    /\ cfg' = Len(file)
    /\ UNCHANGED <<store, admin, tab, gate, sockets, hpc, handler, request, promises>>

\* ... then the table, fixes the gate from the configuration it has read and
\* starts one goroutine for each business port and for the reload endpoint.
OpenStore ==
    /\ gpc = "opening"
    /\ gpc' = "starting"
    /\ tab' = Len(log)
    /\ gate' = IPBind[file[cfg]]
    /\ pending' = Listens[file[cfg]]
    /\ UNCHANGED <<store, admin, cfg, opening, reg, bound, hpc, handler, request, promises>>

ListenReload ==
    /\ gpc = "starting"
    /\ gpc' = "up"
    /\ UNCHANGED <<store, admin, tab, cfg, gate, sockets, hpc, handler, request, promises>>

\* The process is gone: its memory, its sockets and the requests in it.
Die ==
    /\ gpc' = "down"
    /\ pending' = {} /\ opening' = {} /\ reg' = {} /\ bound' = {}
    /\ hpc' = [h \in Handlers |-> "idle"]
    /\ rpc' = [r \in Requests |-> "idle"]
    /\ apc' = [a \in Admins |-> IF apc[a] = "waiting" THEN "idle" ELSE apc[a]]
    /\ hclient' = [h \in Handlers |-> Nobody]
    /\ UNCHANGED <<store, aup, amem, atgt, tab, cfg, gate, hver, hfver, hsolo, hboot, hold,
                   hsnap, hcand, hadd, hrem, hfail, rser, rroles, rfloor, promises>>

GatewayCrash == "crash" \in Faults /\ gpc # "down" /\ Die

\* A startup goroutine listens on its port ...
StartListen(p) ==
    /\ p \in pending \ bound
    /\ pending' = pending \ {p}
    /\ opening' = opening \cup {p}
    /\ bound' = bound \cup {p}
    /\ UNCHANGED <<store, admin, view, reg, hpc, handler, request, promises>>

\* ... and puts its server into the registry.
StartRegister(p) ==
    /\ p \in opening
    /\ opening' = opening \ {p}
    /\ reg' = reg \cup {p}
    /\ UNCHANGED <<store, admin, view, pending, bound, hpc, handler, request, promises>>

\* Its port is taken (by a reload that was faster, or by another program):
\* log.Fatalf ends the whole process.
StartFatal(p) ==
    /\ p \in pending
    /\ p \in bound \/ "bind" \in Faults
    /\ Die

-----------------------------------------------------------------------------
(***************************************************************************)
(* mtls-gw: POST /admin/reload, one action between two effects that        *)
(* another goroutine or process can see                                    *)
(***************************************************************************)
Step(h, from, to) ==
    /\ hpc[h] = from
    /\ hpc' = [hpc EXCEPT ![h] = to]

\* The answer reaches the request that waits for it, if one still does.
Answer(h, from) ==
    /\ Step(h, from, "idle")
    /\ apc' = [a \in Admins |-> IF a = hclient[h] THEN "idle" ELSE apc[a]]
    /\ hclient' = [hclient EXCEPT ![h] = Nobody]
    /\ UNCHANGED <<store, aup, amem, atgt, view, sockets, hver, hfver, hsolo, hboot, hold,
                   hsnap, hcand, hadd, hrem, hfail, request>>

\* Error answers leave whatever has been done as it is.
AnswerError(h, from) == Answer(h, from) /\ UNCHANGED promises

\* Without checkReloadSecurityFields, for comparison.
ReloadableAny(c) == c \in Parses

\* The file parses and keeps the fields the gateway has fixed at startup.
Reloadable(c) == c \in Parses /\ IPBind[c] = IPBind[file[cfg]]

\* Without the check before the table is touched, for comparison.
ValidateNothing(h) ==
    /\ Step(h, "validate", "readdb")
    /\ UNCHANGED <<store, admin, view, sockets, handler, request, promises>>

\* ValidateReload reads the file, checks it and throws the result away.
ValidateReload(h) ==
    \/ /\ Reloadable(disk)
       /\ Step(h, "validate", "readdb")
       /\ UNCHANGED <<store, admin, view, sockets, handler, request, promises>>
    \/ (~Reloadable(disk) \/ "file" \in Faults) /\ AnswerError(h, "validate")

\* A query that sees what is not committed yet, for comparison.
BuildTableDirty(h) ==
    /\ Step(h, "readdb", "swapdb")
    /\ hsnap' = [hsnap EXCEPT ![h] = Len(log) + 1]
    /\ UNCHANGED <<store, admin, view, sockets, hclient, hver, hfver, hsolo, hboot,
                   hold, hcand, hadd, hrem, hfail, request, promises>>

\* Store.Reload: the query sees the last committed state; no lock is held.
BuildTable(h) ==
    \/ /\ Step(h, "readdb", "swapdb")
       /\ hsnap' = [hsnap EXCEPT ![h] = Len(log)]
       /\ UNCHANGED <<store, admin, view, sockets, hclient, hver, hfver, hsolo, hboot,
                      hold, hcand, hadd, hrem, hfail, request, promises>>
    \/ "db" \in Faults /\ AnswerError(h, "readdb")

\* A reload that builds the table and keeps the old one, for comparison.
SwapTableForgotten(h) ==
    /\ Step(h, "swapdb", "readcfg")
    /\ UNCHANGED <<store, admin, view, sockets, handler, request, promises>>

\* The new table replaces the old one under the store's lock.
SwapTable(h) ==
    /\ Step(h, "swapdb", "readcfg")
    /\ tab' = hsnap[h]
    /\ UNCHANGED <<store, admin, gpc, cfg, gate, sockets, handler, request, promises>>

\* ReloadFromDisk reads and parses the file again, before it takes the lock; the
\* table has been replaced by then, and stays so when either of the two fails.
ParseFile(h) ==
    \/ /\ disk \in Parses
       /\ Step(h, "readcfg", "swapcfg")
       /\ hcand' = [hcand EXCEPT ![h] = Len(file)]
       /\ UNCHANGED <<store, admin, view, sockets, hclient, hver, hfver, hsolo, hboot,
                      hold, hsnap, hadd, hrem, hfail, request, promises>>
    \/ (disk \notin Parses \/ "file" \in Faults) /\ AnswerError(h, "readcfg")

\* A reload that leaves the old configuration in place, for comparison.
SwapConfigForgotten(h) ==
    /\ Step(h, "swapcfg", "diff")
    /\ UNCHANGED <<store, admin, view, sockets, handler, request, promises>>

\* Under the lock: the fixed fields are compared, then cfg, router and mode
\* are replaced together.
SwapConfig(h) ==
    \/ /\ Reloadable(file[hcand[h]])
       /\ Step(h, "swapcfg", "diff")
       /\ cfg' = hcand[h]
       /\ UNCHANGED <<store, admin, gpc, tab, gate, sockets, handler, request, promises>>
    \/ ~Reloadable(file[hcand[h]]) /\ AnswerError(h, "swapcfg")

\* A difference in one direction only, for comparison.
DiffPortsAdding(h) ==
    /\ Step(h, "diff", "add")
    /\ hadd' = [hadd EXCEPT ![h] = Listens[file[cfg]] \ hold[h]]
    /\ hrem' = [hrem EXCEPT ![h] = {}]
    /\ hfail' = [hfail EXCEPT ![h] = {}]
    /\ UNCHANGED <<store, admin, view, sockets, hclient, hver, hfver, hsolo, hboot, hold,
                   hsnap, hcand, request, promises>>

\* diffPorts of the ports seen at the start and those of the router now.
DiffPorts(h) ==
    /\ Step(h, "diff", "add")
    /\ hadd' = [hadd EXCEPT ![h] = Listens[file[cfg]] \ hold[h]]
    /\ hrem' = [hrem EXCEPT ![h] = hold[h] \ Listens[file[cfg]]]
    /\ hfail' = [hfail EXCEPT ![h] = {}]
    /\ UNCHANGED <<store, admin, view, sockets, hclient, hver, hfver, hsolo, hboot, hold,
                   hsnap, hcand, request, promises>>

\* addGatewayPort: net.Listen for the next port; a failure is only logged.
BindPort(h, p) ==
    /\ NextIn(p, hadd[h])
    /\ \/ /\ p \notin bound
          /\ Step(h, "add", "register")
          /\ bound' = bound \cup {p}
          /\ UNCHANGED <<hadd, hfail>>
       \/ /\ p \in bound \/ "bind" \in Faults
          /\ Step(h, "add", "add")
          /\ hadd' = [hadd EXCEPT ![h] = @ \ {p}]
          /\ hfail' = [hfail EXCEPT ![h] = @ \cup {p}]
          /\ UNCHANGED bound
    /\ UNCHANGED <<store, admin, view, pending, opening, reg, hclient, hver, hfver, hsolo,
                   hboot, hold, hsnap, hcand, hrem, request, promises>>

\* reg.add puts the new server into the registry.
RegisterPort(h, p) ==
    /\ NextIn(p, hadd[h])
    /\ Step(h, "register", "add")
    /\ reg' = reg \cup {p}
    /\ hadd' = [hadd EXCEPT ![h] = @ \ {p}]
    /\ UNCHANGED <<store, admin, view, pending, opening, bound, hclient, hver, hfver, hsolo,
                   hboot, hold, hsnap, hcand, hrem, hfail, request, promises>>

\* reg.remove takes the next removed port out of the registry ...
UnregisterPort(h, p) ==
    /\ hadd[h] = {} /\ NextIn(p, hrem[h])
    /\ \/ /\ p \in reg
          /\ Step(h, "add", "close")
          /\ reg' = reg \ {p}
          /\ UNCHANGED hrem
       \/ /\ p \notin reg
          /\ Step(h, "add", "add")
          /\ hrem' = [hrem EXCEPT ![h] = @ \ {p}]
          /\ UNCHANGED reg
    /\ UNCHANGED <<store, admin, view, pending, opening, bound, hclient, hver, hfver, hsolo,
                   hboot, hold, hsnap, hcand, hadd, hfail, request, promises>>

\* A server that is dropped without being closed, for comparison.
ClosePortForgotten(h, p) ==
    /\ NextIn(p, hrem[h])
    /\ Step(h, "close", "add")
    /\ hrem' = [hrem EXCEPT ![h] = @ \ {p}]
    /\ UNCHANGED <<store, admin, view, sockets, hclient, hver, hfver, hsolo, hboot, hold,
                   hsnap, hcand, hadd, hfail, request, promises>>

\* ... and closes its server after it has let go of the lock.
ClosePort(h, p) ==
    /\ NextIn(p, hrem[h])
    /\ Step(h, "close", "add")
    /\ bound' = bound \ {p}
    /\ hrem' = [hrem EXCEPT ![h] = @ \ {p}]
    /\ UNCHANGED <<store, admin, view, pending, opening, reg, hclient, hver, hfver, hsolo,
                   hboot, hold, hsnap, hcand, hadd, hfail, request, promises>>

\* 200: the versions that existed when the reload arrived are confirmed.
AnswerOK(h) ==
    /\ hadd[h] = {} /\ hrem[h] = {}
    /\ Answer(h, "add")
    /\ dbAcked' = MaxOf(dbAcked, hver[h])
    /\ cfgAcked' = MaxOf(cfgAcked, hfver[h])
    /\ dbFloor' = IF hsolo[h] THEN MaxOf(dbFloor, hver[h]) ELSE dbFloor
    /\ cfgFloor' = IF hsolo[h] THEN MaxOf(cfgFloor, hfver[h]) ELSE cfgFloor

-----------------------------------------------------------------------------
(***************************************************************************)
(* mtls-gw: business requests                                              *)
(***************************************************************************)
\* gatewayHandler up to the decision that needs no certificate: the router
\* is fetched once and serves the whole request.
Arrive(r, p, s) ==
    /\ p \in reg
    /\ rpc[r] # "lookup"
    /\ LET c == file[cfg]
           roles == RolesAt[c][p] IN
       /\ rpc' = [rpc EXCEPT ![r] = IF p \notin Listens[c] THEN "noroute"
                                    ELSE IF AllowsNull(roles) THEN "anonymous"
                                    ELSE IF s = Nobody THEN "denied"
                                    ELSE "lookup"]
       /\ rroles' = [rroles EXCEPT ![r] = roles]
    /\ rser' = [rser EXCEPT ![r] = s]
    /\ rfloor' = [rfloor EXCEPT ![r] = dbFloor]
    /\ UNCHANGED <<store, admin, view, sockets, hpc, handler, promises>>

\* Authorize against the table of this moment, Allows against the route
\* matched before.
Decide(r, ipMatches) ==
    /\ rpc[r] = "lookup"
    /\ rpc' = [rpc EXCEPT ![r] =
                  IF Authorize(rser[r], ipMatches) /\ Allows(rroles[r], rser[r])
                  THEN "allowed" ELSE "denied"]
    /\ UNCHANGED <<store, admin, view, sockets, hpc, handler, rser, rroles, rfloor, promises>>

-----------------------------------------------------------------------------
AdminNext ==
    \/ \E a \in Admins :
          \/ \E s \in Serials : Revoke(a, s) \/ InsertCert(a, s)
          \/ FinalizeIssue(a) \/ RollbackIssue(a)
          \/ \E c \in Configs : SaveConfig(a, c)
          \/ \E h \in Handlers : Trigger(a, h)
          \/ TriggerFails(a) \/ TriggerTimesOut(a)
    \/ AdminCrash \/ AdminBoot
    \/ \E c \in Configs : EditFile(c)
    \/ NextDay

ReloadStep(h) ==
    \/ ValidateReload(h) \/ BuildTable(h) \/ SwapTable(h)
    \/ ParseFile(h) \/ SwapConfig(h)
    \/ DiffPorts(h)
    \/ \E p \in Ports : BindPort(h, p) \/ RegisterPort(h, p)
                       \/ UnregisterPort(h, p) \/ ClosePort(h, p)
    \/ AnswerOK(h)

GatewayNext ==
    \/ ReadConfig \/ OpenStore \/ ListenReload \/ GatewayCrash
    \/ \E p \in Ports : StartListen(p) \/ StartRegister(p) \/ StartFatal(p)
    \/ \E h \in Handlers : ReloadStep(h)
    \/ \E r \in Requests :
          \/ \E p \in Ports, s \in Serials \cup {Nobody} : Arrive(r, p, s)
          \/ \E b \in BOOLEAN : Decide(r, b)

Next == AdminNext \/ GatewayNext

Spec == Init /\ [][Next]_vars

\* Go runs every started handler on, and mtls-admin's request goes on to its
\* reload once it has committed.  Nobody promises that mtls-gw is restarted,
\* nor that an administrator acts.
Fairness ==
    /\ \A a \in Admins :
          /\ WF_vars(FinalizeIssue(a) \/ RollbackIssue(a))
          /\ WF_vars(\E h \in Handlers : Trigger(a, h))
          /\ WF_vars(TriggerFails(a))
    /\ \A h \in Handlers : WF_vars(ReloadStep(h))

FairSpec == Spec /\ Fairness

-----------------------------------------------------------------------------
(***************************************************************************)
(* Properties                                                              *)
(***************************************************************************)
AdminPC   == {"idle", "inserted", "changed", "waiting"}
GatewayPC == {"down", "opening", "starting", "up"}
ReloadPC  == {"idle", "validate", "readdb", "swapdb", "readcfg", "swapcfg", "diff",
              "add", "register", "close"}
RequestPC == {"idle", "noroute", "anonymous", "denied", "lookup", "allowed"}

StoreOK ==
    /\ log \in Seq(Table) /\ Len(log) >= 1
    /\ file \in Seq(Configs) /\ Len(file) >= 1
    /\ today \in Nat

AdminOK ==
    /\ aup \in BOOLEAN /\ amem \in BOOLEAN
    /\ apc \in [Admins -> AdminPC]
    /\ atgt \in [Admins -> Serials \cup {Nobody}]

ViewOK ==
    /\ gpc \in GatewayPC /\ gate \in BOOLEAN
    /\ tab \in 1 .. Len(log)
    /\ cfg \in 1 .. Len(file)

SocketsOK ==
    /\ pending \subseteq Ports /\ opening \subseteq Ports
    /\ reg \subseteq Ports /\ bound \subseteq Ports

HandlerOK ==
    /\ hpc \in [Handlers -> ReloadPC]
    /\ hclient \in [Handlers -> Admins \cup {Nobody}]
    /\ hver \in [Handlers -> 1 .. Len(log)]
    /\ hfver \in [Handlers -> 1 .. Len(file)]
    /\ hsolo \in [Handlers -> BOOLEAN]
    /\ hboot \in [Handlers -> BOOLEAN]
    /\ hsnap \in [Handlers -> 1 .. Len(log)]
    /\ hcand \in [Handlers -> 1 .. Len(file)]

PortWorkOK ==
    /\ hold \in [Handlers -> SUBSET Ports]
    /\ hadd \in [Handlers -> SUBSET Ports]
    /\ hrem \in [Handlers -> SUBSET Ports]
    /\ hfail \in [Handlers -> SUBSET Ports]

RequestOK ==
    /\ rpc \in [Requests -> RequestPC]
    /\ rser \in [Requests -> Serials \cup {Nobody}]
    /\ rfloor \in [Requests -> 0 .. Len(log)]

PromisesOK ==
    /\ dbFloor \in 0 .. Len(log) /\ dbAcked \in 0 .. Len(log)
    /\ cfgFloor \in 0 .. Len(file) /\ cfgAcked \in 0 .. Len(file)

\* The shape of the state; every version held in memory has existed.
TypeOK ==
    StoreOK /\ AdminOK /\ ViewOK /\ SocketsOK /\ HandlerOK /\ PortWorkOK
    /\ RequestOK /\ PromisesOK

\* The gate that auth.New fixed at startup is the one the configuration in
\* memory asks for, through every reload (checkReloadSecurityFields): IP binding
\* is never switched on in the configuration and off in the gateway.
GateAgrees == gpc \in {"starting", "up"} => gate = IPBind[file[cfg]]

\* Once a reload that ran alone has answered 200, the gateway never again
\* serves from a table or a configuration older than the one it confirmed,
\* whatever other reloads, timeouts, crashes and restarts follow.
FloorHolds == dbFloor <= tab /\ cfgFloor <= cfg

\* A certificate whose revocation such a reload had confirmed before a business
\* request arrived is not what lets that request through, although the table
\* is consulted after the route was matched and may be replaced in between.
NoStaleAllow ==
    \A r \in Requests :
        rpc[r] = "allowed" => \A i \in 1 .. rfloor[r] : log[i][rser[r]] # "revoked"

\* Sockets a reload handler is about to register or to close.
InTheHandsOf(h) ==
    {p \in Ports : \/ hpc[h] = "register" /\ NextIn(p, hadd[h])
                   \/ hpc[h] = "close" /\ NextIn(p, hrem[h])}

\* A listening socket of the gateway is in the registry, or in the hands of the
\* goroutine that is about to register or to close it: none is forgotten, so
\* a later reload can still close every port.
NoLeakedListener ==
    bound = reg \cup opening \cup UNION {InTheHandsOf(h) : h \in Handlers}

\* When a reload that ran alone on a started gateway answers 200, the ports
\* being served are exactly those of the router it installed, less those whose
\* listen failed.
PortsFollowRouter ==
    \A h \in Handlers :
        /\ hpc[h] = "add" /\ hadd[h] = {} /\ hrem[h] = {}
        /\ hsolo[h] /\ ~hboot[h]
        => /\ reg \subseteq Listens[file[cfg]]
           /\ Listens[file[cfg]] \ reg \subseteq hfail[h]

\* The mixed state "new table, old configuration" that ValidateReload is there
\* to avoid, and that a repeated reload is to end: a reload that has replaced
\* the table gives up on the configuration only if the file was written after
\* the reload had begun, or if it could not be read a second time; in that case
\* what it contains is acceptable, and the next reload that can read it installs it.
MixedCanRetry ==
    [][\A h \in Handlers :
          hpc[h] \in {"readcfg", "swapcfg"} /\ hpc'[h] = "idle" /\ gpc' = "up"
          => \/ Len(file) > hfver[h]
             \/ "file" \in Faults /\ hpc[h] = "readcfg" /\ Reloadable(disk)]_vars

\* A request that has committed while the gateway is up, with the certificate s
\* revoked, is followed by a gateway that has s revoked, if it keeps running and
\* keeps accepting the reload certificate.  (A commit in the window between the
\* gateway's own read of the table and its reload endpoint is never announced.)
RevocationReaches ==
    \A a \in Admins, s \in Serials :
        apc[a] = "changed" /\ db[s] = "revoked" /\ up
        ~> log[tab][s] = "revoked" \/ ~up \/ ~Registered(ReloadCert)

\* So is a saved configuration followed by a gateway that serves it.
ConfigReaches ==
    \A a \in Admins, v \in 1 .. MaxFile :
        apc[a] = "changed" /\ Len(file) >= v /\ up
        ~> cfg >= v \/ ~up \/ ~Registered(ReloadCert)

\* The copies as replicas in the sense of ReadReplica, promised to by reloads
\* that run alone.
DbReplica  == INSTANCE ReadReplica WITH ver <- Len(log), view <- tab, floor <- dbFloor
CfgReplica == INSTANCE ReadReplica WITH ver <- Len(file), view <- cfg, floor <- cfgFloor

\* The gateway's certificate table keeps the promise of a read-only replica of
\* the SQLite table mtls-admin writes (Store.Reload, Open).
DbRefines == DbReplica!Spec

\* So does its configuration, of config.toml (ReloadFromDisk, config.Load).
CfgRefines == CfgReplica!Spec

\* What reloadclient.go and the comments of mtls-admin say of every reload:
\* after 200 the gateway serves at least the state the administrator committed.
\* Two overlapping reloads break it.
AckedVisible == dbAcked <= tab

\* What main.go says of the ports: a removed port is closed.
RemovedPortClosed ==
    up /\ Active = {} /\ pending \cup opening = {} => reg \subseteq Listens[file[cfg]]

=============================================================================
