----------------------------- MODULE RelayManager -----------------------------
(***************************************************************************)
(* The manager of mtls-relay (internal/relay/api.go, cmd/mtls-relay):      *)
(* concurrent requests of the local management API change the              *)
(* configuration in memory, save it and hand it to the relay.  The         *)
(* manager's mutex covers the change only: applying, saving and reloading  *)
(* work on copies, after it has been released.                             *)
(*                                                                         *)
(* RelaySource says what the relay does with a CA and a source of          *)
(* certificates, RelayTunnels what it does with tunnels; here it is the    *)
(* tunnels that it was last given.                                         *)
(*                                                                         *)
(* The tunnels of a configuration are a Go slice: a copy of the struct     *)
(* shares its array, and what is changed in place is changed in both.  A   *)
(* configuration is therefore kept as what it shows, with the number of    *)
(* the array (arr) it shows it from.                                       *)
(***************************************************************************)
EXTENDS RelaySource, Sequences, SequencesExt

CONSTANTS
    Ops,      \* concurrent requests
    Ids,      \* tunnel IDs (service names)
    Certs,    \* certificates of tunnels
    Patches,  \* bodies of PUT /api/settings: functions from the fields they change
    Files,    \* configurations that the first process finds
    Flags,    \* command lines: -no-write, and the address of -server
    MaxLen,   \* bound: tunnels in a configuration
    MaxRequests, \* bound: requests that are made
    Faults    \* which of "save" (SaveConfig fails), "tunnels" (Start fails to
              \* listen) and "crash" may happen

Tunnels == [id : Ids, cert : Certs]
Arrays  == 0 .. Cardinality(Ops)

ASSUME ManagerAssumption ==
    /\ \A p \in Patches :
          /\ DOMAIN p # {} /\ DOMAIN p \subseteq {"server", "ca", "dir"}
          /\ "server" \in DOMAIN p => p.server \in Servers
          /\ "ca" \in DOMAIN p => p.ca \in CAs
          /\ "dir" \in DOMAIN p => p.dir \in Dirs
    /\ Files \subseteq [server : Servers, ca : GoodCAs, dir : Dirs, tunnels : Seq(Tunnels)]
    /\ Flags \subseteq [noPersist : BOOLEAN, server : Servers] /\ Flags # {}
    /\ MaxLen \in Nat /\ MaxRequests \in Nat
    /\ Faults \subseteq {"save", "tunnels", "crash"}

VARIABLES
    cfg,     \* Manager.cfg: server, ca, dir, tunnels, and their array
    disk,    \* the configuration file
    flags,   \* Manager.noPersist and serverOverride
    started, \* the relay is running
    given,   \* the tunnels the relay was given
    todo,    \* per request: the steps it has before it
    old,     \* UpdateSettings: oldCfg
    snap,    \* the copy that is applied, saved or handed over
    subject, \* SetSource: the filter it is about to set on its source
    alone,   \* no other request has been under way since it began
    asked,   \* requests made
    settled  \* the last change ran alone and failed nowhere

local == <<todo, old, snap, subject, alone>>
vars  == <<sourceVars, cfg, disk, flags, started, given, local, asked, settled>>

-----------------------------------------------------------------------------
\* What a configuration in memory says; copies and files are of this kind.
Value(c) == [server |-> c.server, ca |-> c.ca, dir |-> c.dir, tunnels |-> c.tunnels]

InArray(d, a) ==
    [arr |-> a, server |-> d.server, ca |-> d.ca, dir |-> d.dir, tunnels |-> d.tunnels]

Memory == Value(cfg)

\* Manager.Config: with the address of -server.
Effective ==
    IF flags.server = NoServer THEN Memory ELSE [Memory EXCEPT !.server = flags.server]

IdleOps(o) == \A q \in Ops \ {o} : todo[q] = <<>>

At(o, step) == todo[o] # <<>> /\ Head(todo[o]) = step

\* Requests that hold an oldCfg they may roll back to, and those whose oldCfg
\* has its tunnels in the array of cfg.
Holding == {o \in Ops : At(o, "setca") \/ At(o, "rollback")}
Sharing == {o \in Holding : old[o].arr = cfg.arr}

\* A number that no live slice has.
Fresh == CHOOSE a \in Arrays : a # cfg.arr /\ \A o \in Holding : a # old[o].arr

First == [server |-> NoServer, ca |-> NoCA, dir |-> SystemStore, tunnels |-> <<>>]

\* Values of a request that is not under way.
NoCopy == [o \in Ops |-> First]
NoOld  == [o \in Ops |-> InArray(First, 0)]

\* main: the source by cert_dir, the flags, the address, the CA, Start.
Init ==
    /\ flags \in Flags
    /\ disk \in Files /\ cfg = InArray(disk, 0)
    /\ addr = Effective.server /\ ca = disk.ca
    /\ source = Filtered(NewSource(disk.dir), disk.ca)
    /\ waiting = MaxWaiting /\ fetches = {}
    /\ started = TRUE /\ given = disk.tunnels
    /\ todo = [o \in Ops |-> <<>>] /\ old = NoOld /\ snap = NoCopy
    /\ subject = [o \in Ops |-> NoCA] /\ alone = [o \in Ops |-> FALSE]
    /\ asked = 0
    /\ settled = TRUE

\* A request begins; another one under way overlaps with it.
Begins(o, steps) ==
    /\ todo[o] = <<>>
    /\ asked < MaxRequests /\ asked' = asked + 1
    /\ todo' = [todo EXCEPT ![o] = steps]
    /\ alone' = [q \in Ops |-> q = o /\ IdleOps(o)]
    /\ settled' = (settled /\ IdleOps(o))

Done(o, step) ==
    /\ At(o, step)
    /\ todo' = [todo EXCEPT ![o] = Tail(@)]
    /\ UNCHANGED asked

\* The request is answered; its slices are garbage.
Ends(o, step) ==
    /\ Done(o, step)
    /\ old' = [old EXCEPT ![o] = InArray(First, 0)]
    /\ snap' = [snap EXCEPT ![o] = First]
    /\ alone' = [alone EXCEPT ![o] = FALSE]
    /\ UNCHANGED subject

-----------------------------------------------------------------------------
\* The array of cfg gets elements at these positions: so do the slices that
\* share it and reach that far.
WriteArray(elems) ==
    old' = [o \in Ops |->
              IF o \notin Sharing THEN old[o]
              ELSE [old[o] EXCEPT !.tunnels =
                      [j \in DOMAIN @ |-> IF j \in DOMAIN elems THEN elems[j] ELSE @[j]]]]

\* UpsertTunnel: in place, or append, which finds room in the array that others
\* share, or moves to a new one.
Upsert(t) ==
    LET ts == cfg.tunnels
        at == {i \in DOMAIN ts : ts[i].id = t.id}
        grown == Append(ts, t)
    IN \/ \E i \in at : /\ \A j \in at : i <= j
                        /\ cfg' = [cfg EXCEPT !.tunnels[i] = t]
                        /\ WriteArray([j \in {i} |-> t])
       \/ /\ at = {} /\ Len(ts) < MaxLen
          /\ cfg' = [cfg EXCEPT !.tunnels = grown]
          /\ WriteArray([j \in {Len(grown)} |-> t])
       \/ /\ at = {} /\ Len(ts) < MaxLen /\ Sharing # {}
          /\ cfg' = [cfg EXCEPT !.tunnels = grown, !.arr = Fresh]
          /\ UNCHANGED old

\* RelayConfig.DelTunnel: append(Tunnels[:i], Tunnels[i+1:]...) moves the later
\* elements down in the same array and leaves the last one where it was.
Cut(i) ==
    LET ts == cfg.tunnels IN
    /\ cfg' = [cfg EXCEPT !.tunnels = RemoveAt(ts, i)]
    /\ WriteArray([j \in i .. Len(ts) - 1 |-> ts[j + 1]])

\* np, which is read under the lock: with -no-write nothing is saved.
Saves == IF flags.noPersist THEN <<>> ELSE <<"save">>

\* The change is made under the lock, with a copy for the steps that follow.
Changes(o, steps) ==
    /\ Begins(o, steps \o Saves \o <<"read", "reload">>)
    /\ snap' = [snap EXCEPT ![o] = Memory']
    /\ UNCHANGED <<sourceVars, disk, flags, started, given, subject>>

AddTunnel(o, t) ==
    /\ Upsert(t)
    /\ Changes(o, <<>>)

DelTunnel(o, id) ==
    /\ \E i \in DOMAIN cfg.tunnels :
          /\ cfg.tunnels[i].id = id
          /\ \A j \in 1 .. i - 1 : cfg.tunnels[j].id # id
          /\ Cut(i)
    /\ Changes(o, <<>>)

\* UpdateSettings: the source for a new cert_dir has been built before; when
\* that fails, nothing at all changes.
UpdateSettings(o, p) ==
    /\ cfg' = [f \in DOMAIN cfg |-> IF f \in DOMAIN p THEN p[f] ELSE cfg[f]]
    /\ old' = IF "ca" \in DOMAIN p THEN [old EXCEPT ![o] = cfg] ELSE old
    /\ Changes(o, (IF "ca" \in DOMAIN p THEN <<"setca">> ELSE <<>>)
                  \o (IF "dir" \in DOMAIN p THEN <<"setsource", "filter">> ELSE <<>>))

-----------------------------------------------------------------------------
\* relay.SetServerCA, running or not.
SetServerCA(o) ==
    /\ \/ /\ ApplyServerCA(snap[o].ca)
          /\ Done(o, "setca")
          /\ old' = [old EXCEPT ![o] = InArray(First, 0)]
       \/ /\ RefuseServerCA(snap[o].ca)
          /\ At(o, "setca")
          /\ todo' = [todo EXCEPT ![o] = <<"rollback">>]
          /\ UNCHANGED <<old, asked>>
    /\ UNCHANGED <<addr, fetches, cfg, disk, flags, started, given, snap, subject, alone, settled>>

\* A rollback that only reports the error, for comparison.
RollbackForgotten(o) ==
    /\ cfg' = cfg
    /\ Ends(o, "rollback")
    /\ UNCHANGED <<sourceVars, disk, flags, started, given, settled>>

\* The old struct comes back, with the slice it had.
Rollback(o) ==
    /\ cfg' = IF Holding = {o} THEN [old[o] EXCEPT !.arr = 0] ELSE old[o]
    /\ Ends(o, "rollback")
    /\ UNCHANGED <<sourceVars, disk, flags, started, given, settled>>

\* SetSource under the lock: the new source, an empty cache (CertCache), and
\* the subject to filter by. Fetches and SetSources under way are about a
\* source that is no longer used.
SetSource(o) ==
    /\ Done(o, "setsource")
    /\ source' = NewSource(snap[o].dir)
    /\ fetches' = {}
    /\ subject' = [q \in Ops |-> IF q = o THEN ca ELSE NoCA]
    /\ UNCHANGED <<addr, ca, waiting, cfg, disk, flags, started, given, old, snap, alone, settled>>

\* A SetSource that leaves the filter to the fetch it starts, for comparison.
FilterForgotten(o) ==
    /\ Done(o, "filter")
    /\ subject' = [subject EXCEPT ![o] = NoCA]
    /\ waiting' = Spawned
    /\ UNCHANGED <<addr, ca, source, fetches, cfg, disk, flags, started, given,
                   old, snap, alone, settled>>

\* SetSource after the lock: by the subject read under it.
FilterSource(o) ==
    /\ Done(o, "filter")
    /\ source' = Filtered(source, subject[o])
    /\ subject' = [subject EXCEPT ![o] = NoCA]
    /\ waiting' = Spawned
    /\ UNCHANGED <<addr, ca, fetches, cfg, disk, flags, started, given, old, snap, alone, settled>>

\* SaveConfig writes a temporary file of its own and renames it; a failure is
\* only logged.
Save(o) ==
    /\ Done(o, "save")
    /\ \/ disk' = snap[o] /\ UNCHANGED settled
       \/ "save" \in Faults /\ settled' = FALSE /\ UNCHANGED disk
    /\ snap' = [snap EXCEPT ![o] = First]
    /\ UNCHANGED <<sourceVars, cfg, flags, started, given, old, subject, alone>>

-----------------------------------------------------------------------------
\* POST /api/reload and /api/start.
Reload(o) ==
    /\ Begins(o, <<"read", "reload">>)
    /\ UNCHANGED <<sourceVars, cfg, disk, flags, started, given, old, snap, subject>>

Start(o) ==
    /\ Begins(o, <<"read", "start">>)
    /\ UNCHANGED <<sourceVars, cfg, disk, flags, started, given, old, snap, subject>>

\* Config() copies; the relay takes the copy afterwards.
ReadConfig(o) ==
    /\ Done(o, "read")
    /\ snap' = [snap EXCEPT ![o] = Effective]
    /\ UNCHANGED <<sourceVars, cfg, disk, flags, started, given, old, subject, alone, settled>>

\* Relay.Reload. A relay that is not started takes nothing; one that cannot
\* load the CA takes the address only. An answer still under way from another
\* address may come after this change.
RelayReload(o) ==
    /\ cfg' = cfg
    /\ Ends(o, "reload")
    /\ \/ /\ ~started
          /\ UNCHANGED <<addr, ca, source, waiting, given, settled>>
       \/ /\ started
          /\ addr' = snap[o].server
          /\ ApplyServerCA(snap[o].ca)
          /\ given' = snap[o].tunnels
          /\ settled' = /\ fetches \subseteq {addr'}
                        /\ settled \/ /\ alone[o]
                                      /\ flags.noPersist \/ disk = Memory
                                      /\ source.dir = snap[o].dir
       \/ /\ started
          /\ addr' = snap[o].server
          /\ RefuseServerCA(snap[o].ca)
          /\ settled' = FALSE
          /\ UNCHANGED given
    /\ UNCHANGED <<fetches, disk, flags, started>>

\* Relay.Start refuses when it runs already; it sets address and CA before it
\* finds that it cannot load the CA or cannot listen.
RelayStart(o) ==
    /\ cfg' = cfg
    /\ Ends(o, "start")
    /\ \/ /\ started
          /\ UNCHANGED <<addr, ca, source, waiting, started, given, settled>>
       \/ /\ ~started
          /\ addr' = snap[o].server
          /\ ApplyServerCA(snap[o].ca)
          /\ settled' = (settled /\ fetches \subseteq {addr'})
          /\ \/ started' = TRUE /\ given' = snap[o].tunnels
             \/ "tunnels" \in Faults /\ snap[o].tunnels # <<>> /\ UNCHANGED <<started, given>>
       \/ /\ ~started
          /\ addr' = snap[o].server
          /\ RefuseServerCA(snap[o].ca)
          /\ UNCHANGED <<started, given, settled>>
    /\ UNCHANGED <<fetches, disk, flags>>

Stop ==
    /\ started
    /\ started' = FALSE /\ given' = <<>>
    /\ UNCHANGED <<sourceVars, cfg, disk, flags, local, asked, settled>>

\* main: the source by cert_dir, the flags, the address, the CA, Start. A file
\* whose CA cannot be loaded, or whose directory is gone, keeps the process
\* from starting until somebody has repaired the file.
Restart ==
    /\ "crash" \in Faults
    /\ IF disk.ca \in GoodCAs THEN disk' = disk
       ELSE \E c \in GoodCAs : disk' = [disk EXCEPT !.ca = c]
    /\ cfg' = InArray(disk', 0)
    /\ flags' \in Flags
    /\ addr' = Effective'.server /\ ca' = disk'.ca
    /\ source' = Filtered(NewSource(disk'.dir), disk'.ca)
    /\ waiting' = MaxWaiting /\ fetches' = {}
    /\ \/ started' = TRUE /\ given' = disk'.tunnels
       \/ "tunnels" \in Faults /\ disk'.tunnels # <<>> /\ started' = FALSE /\ given' = <<>>
    /\ todo' = [o \in Ops |-> <<>>] /\ old' = NoOld /\ snap' = NoCopy
    /\ subject' = [o \in Ops |-> NoCA] /\ alone' = [o \in Ops |-> FALSE]
    /\ UNCHANGED asked
    /\ settled' = TRUE

Fetch ==
    /\ FetchAsks \/ FetchEnds
    /\ UNCHANGED <<cfg, disk, flags, started, given, local, asked, settled>>

Next ==
    \/ \E o \in Ops :
          \/ \E t \in Tunnels : AddTunnel(o, t)
          \/ \E id \in Ids : DelTunnel(o, id)
          \/ \E p \in Patches : UpdateSettings(o, p)
          \/ SetServerCA(o) \/ Rollback(o) \/ SetSource(o) \/ FilterSource(o) \/ Save(o)
          \/ Reload(o) \/ Start(o) \/ ReadConfig(o) \/ RelayReload(o) \/ RelayStart(o)
    \/ Stop \/ Restart \/ Fetch

Spec == Init /\ [][Next]_vars

-----------------------------------------------------------------------------
Quiet == \A o \in Ops : todo[o] = <<>>

\* The filters that fit what the relay has been told.
CurrentFilters == {ca} \cup {Serves[a] : a \in {addr} \ {NoServer}}

\* After changes that did not overlap and were saved, rollbacks included, the
\* file and the memory have the same configuration, and the running relay works
\* with it: its address (or the one of -server), its CA, its tunnels, its
\* source; and the filter of the store is that of the CA, or of the gateway at
\* the address, and not of a CA or a gateway it had before.
Agreement ==
    Quiet /\ settled =>
        /\ flags.noPersist \/ disk = Memory
        /\ source.dir = Memory.dir
        /\ started => /\ addr = Effective.server
                      /\ ca = Effective.ca
                      /\ given = Effective.tunnels
                      /\ source.dir = SystemStore /\ ca # NoCA => source.filter \in CurrentFilters

\* With a CA configured the store never lists everybody's certificates once the
\* requests are answered, however they overlapped and whether or not a gateway
\* has ever answered a fetch (SetSource and applyServerCA filter on their own).
SourceFiltered ==
    Quiet /\ ca # NoCA /\ source.dir = SystemStore => source.filter # NoCA

\* No id twice.
Ids1(ts) == \A i, j \in DOMAIN ts : ts[i].id = ts[j].id => i = j

\* While one request changes settings and rolls back, the configuration of the
\* other requests has each tunnel once (UpsertTunnel goes by ID). Removing in
\* place, in an array that oldCfg shares, breaks it.
UniqueIds == Ids1(Memory.tunnels)

\* What UpdateSettings says of its order, first apply and then save: the file
\* has no CA that could not be applied. A request that saves before the
\* rollback breaks it.
NoHalfCommit == disk.ca \in GoodCAs

\* What reloadTunnels says: the current configuration is brought to the relay.
\* Two reloads that overlap may do it in the wrong order.
ReloadCurrent == Quiet /\ started => given = Memory.tunnels

\* What SetSource says of replacing a source: it holds at once. Two changes of
\* cert_dir that overlap may be applied in the other order.
SourceCurrent == Quiet => source.dir = Memory.dir

\* What SetSource says of the filter, that of the current server_ca. A fetch
\* that was asked at an earlier address, or no CA at all, leaves another one.
FilterIsCurrent ==
    Quiet /\ fetches = {} /\ source.dir = SystemStore => source.filter \in CurrentFilters
=============================================================================
