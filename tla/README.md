# mtls-gateway: specifications, model checking and proofs

TLA+ modules for the parts of `mtls-gateway` whose correctness depends on the
order of steps: two processes that share a database and a configuration file, a
gateway that serves from copies of both, a client-side relay with tunnels, a
certificate cache and a management API, and the rolling logs all of them write.
Sources are quoted relative to `src/`.

## 1. The system

| process | code | role |
| --- | --- | --- |
| `mtls-gw` | `cmd/mtls-gw`, `internal/{auth,db,proxy,configmgr}` | business traffic over mTLS; reads the certificate table and `config.toml`, never writes them; `POST /admin/reload` replaces both copies |
| `mtls-admin` | `cmd/mtls-admin`, `internal/{api,db,configmgr,atomicfile}` | the only writer of the table (SQLite) and of `config.toml`; after each change it triggers a reload |
| `mtls-relay` | `cmd/mtls-relay`, `internal/relay`, `internal/certsource` | on the client: listens locally, dials the gateway with the client's certificate |
| command line tools | `cmd/mtls-gw-cli`, `cmd/mtls-relay-cli` | HTTP clients without state |

### Components, state, operations

| component | state | operations | what makes it correct |
| --- | --- | --- | --- |
| data sync | SQLite table, file; the gateway's table, configuration, router; listeners by port | revoke, issue, save; trigger; reload (validate, read and swap the table, read and swap the file, diff ports, listen, close); start, crash | a confirmed change is served and stays served; revoked means refused; ports follow the router; a refused file changes nothing |
| authorization | the table, `require_ip_bind` | `Authorize`, `IsAdmin` | only a registered, unrevoked, unexpired certificate from the right address |
| routing | router (routes with listen, target, roles) | `NewRouter`, `Match`, `Allows`, `ServicesAllowed`, `substitute`, `CleanDotSegments` | a request reaches only what lies under the matched target, with the roles of the services that name the mapping |
| configuration manager | configuration and router in memory, file, backups | CRUD of roles, mappings, services; replace; save with backup and rename; rollback | memory, router and file agree; what is saved loads |
| issuing | table, certificate directories | `IssueCert` (check, lookup, directory, record, rename), undo, revoke; declared roles | one record per name; what was handed out stays; no record without files |
| relay tunnels | started, tunnels by route key, sockets | `Start`, `Reload`, `Stop` | a reload that reports success did everything; no socket leaks; no listener is lost needlessly |
| relay connections | `conns`, copies, idle timer, context | accept, dial, copy, half-close, idle timeout, stop | nothing left behind; idle connections and stopped tunnels end |
| certificate cache | entries with age, source; key handles; transports | `loadCertLang`, `SetSource`, delayed release, dials | one owner per handle; none used after its release; no certificate of a replaced source |
| relay manager | configuration, file, what the relay was given | settings with rollback, add and delete a tunnel, start, reload, stop, restart | all three agree; what is refused is not kept |
| gateway address, CA and source | address, CA, source with its issuer filter, fetches under way | `applyServerCA`, `SetSource`, `fetchCAAndFilter` | the filter is that of the CA in use; with a CA the store is never listed unfiltered |
| rolling logs | files, size, handle, two mutexes | write, rotate, reopen | latest lines kept, sizes bounded, a call that logs returns |

They interact by calls inside a process (one mutex per component, with work done
before and after it), by the file system and SQLite between `mtls-admin` and
`mtls-gw`, and by one HTTP request, the reload, in the same direction. The hard
behaviours are overlapping reloads, lost or timed-out triggers, crashes between
two writes, copies used after the mutex they were taken under was released, and
timers that race the thing they guard. `PROJECT.json` lists every hazard at its
line, with the properties that would notice.

## 2. Modules

Each component has one module; `MC_<Module>` and the `.cfg` files give the
constants their values. Actions carry the names of the functions they translate,
or of the step of the function; `map` in `PROJECT.json` gives the lines. A name
that ends a comment with "for comparison" is a wrong variant of the next
definition: replacing the one by the other must break the property it belongs to,
which shows that the property depends on that line of the code.

| module | models | composed with |
| --- | --- | --- |
| `ReadReplica` | abstract: versions committed by a writer, a view that is installed, promises about it | |
| `GatewaySync` | table and file from `mtls-admin` to `mtls-gw`, reload handler step by step, ports, admitted requests | refines `ReadReplica` twice |
| `GatewaySync_proofs` | proofs about `GatewaySync`: versions and promises; requests, sockets, ports | |
| `Routing` | parsing checks, `NewRouter`, matching and roles as operators over records | |
| `GatewayRequest` | a request through `gatewayHandler` | extends `Routing` |
| `ConfigManager` | `internal/configmgr` in `mtls-admin`, `internal/atomicfile` | extends `Routing` |
| `Routing_proofs` | proofs about the modules over `Routing`: `ConfigManager` and `GatewayRequest` | |
| `AdminIssue` | concurrent `IssueCert`, declared roles | refines `ReadReplica` (roles) |
| `AdminIssue_proofs` | proofs about `AdminIssue` | |
| `RelayTunnels` | `Start`, `Reload`, `Stop` of `internal/relay/core.go` | |
| `RelayTunnels_proofs` | proofs about `RelayTunnels` | |
| `TunnelConn` | the connections of a TCP tunnel | |
| `TunnelConn_proofs` | proofs about `TunnelConn` | |
| `CertCache` | certificates and key handles of the relay | |
| `CertCache_proofs` | proofs about `CertCache` | |
| `RelaySource` | what the relay knows of the gateway: address, CA, source of certificates and its issuer filter, with the asynchronous fetches of the gateway's CA | |
| `RelayManager` | `internal/relay/api.go` and `config.go`, start-up in `cmd/mtls-relay/main.go` | extends `RelaySource` |
| `RelayManager_proofs` | proofs about `RelayManager` | |
| `RollingLog` | abstract: lines written, lines that can be read back; one file lost at a time | |
| `EventLog` | `internal/eventlog` under package `log` | refines `RollingLog` |
| `EventLog_proofs` | proofs about `EventLog`, the refinement among them | |

How state corresponds to code, where it is not by name:

* `GatewaySync` keeps the history of committed tables (`log`) and of file contents
  (`file`); a copy in memory is the index of the version it was read from (`tab`,
  `cfg`, and `hsnap`, `hcand` for what a reload handler has read and not installed).
  Handlers (`Handlers`) are concurrent executions of the HTTP handler. `dbFloor`,
  `cfgFloor` (promises of reloads that ran alone), `dbAcked`, `cfgAcked` and `hsolo`
  are history variables: no guard reads them.
* `Routing` writes paths as sequences of segments and a listen string as its parsed
  value (`EntryOf`); numeric references are `IndexOf`. Taking the dots out of a path
  is a recursive function (`Undotted`) over the steps of the loop in the code (`Push`).
* `GatewayRequest` is a request whose path grows a segment at a time; its constants are
  typed by `RequestAssumption`, and its specification is `RequestSpec`.
* `RelayManager` gives every configuration the number of the Go array its tunnels
  live in, because a copy of the struct shares that array and `DelTunnel` writes to it.
  A request is the list of steps it still has before it (`todo`), each of them one
  critical section or one file operation; the change itself is made when it begins.
  `alone` and `settled` are history variables. A configuration file with a CA that
  cannot be loaded keeps the process from starting (`main.go:107`); `Restart` then
  stands for the start after somebody has repaired the file.
* `RelaySource` lets a CA stand for the subject of its first certificate. A fetch is
  first one of `waiting` goroutines, then an address in `fetches`; its answer is an
  error or the CA that `Serves` gives for the address. `SetSource` empties `fetches`:
  answers for a source that was replaced set a filter nobody reads any more.
* `TunnelConn` has a copy between `src.Read` and the end of `dst.Write` in `writing`: it
  reads nothing meanwhile, and how long that takes is the peer's affair.
* `AdminIssue` is weaker than the database in one place: `certs(name)` has a unique index
  (`db.go:76`) behind the check in `InsertUniqueName`, and the model does without it.
  `Start` removes the temporary directories, as `NewManager` does. The history of
  declared role sets is in `confRoles`; what `IssueCert` checks and what a request has
  read are indices into it. `solo` and `floor` are history variables, as in `GatewaySync`.
* `RelayTunnels` takes one step per attempt to listen; the mutex keeps the relay's
  operations apart, not other programs that take or free a port in between. A failure of
  `net.Listen` for another reason than a used address stands for a port that is taken just
  before the attempt and freed just after. That it also refuses a guest of a whole-port
  route, which opens no socket (`isAddrInUse`), is left out.
* `CertCache` counts ages and waits in units of 5 s: TTL 12, release delay 6, use 5
  (10 s to connect and 10 s for the handshake, `dialer.go`; 8 s for `/info` and then
  15 s for the probe of `mtls-admin` in `Verify`; a transport has no handshake limit
  of its own, but the gateway drops a handshake after its `ReadHeaderTimeout`,
  `cmd/mtls-gw/listeners.go:40`). Only the Windows store has key handles, and its
  `LoadCertWithPassword` is `loadCert`.
* `EventLog` keeps a file as the sequence of its entries, `<<n, k>>`: the line with the
  number `n` (up to `MaxCount`, a bound no run reaches), or what a short write has left
  of it, `k` bytes long. A torn line has no end, so that the next entry continues it.
  `at[l]` is
  the place of whoever holds the logger's mutex, `out` the holder of package
  `log`'s; both are held while the standard logger writes.

## 3. Runs

Passing runs:

| run | shows | bounds |
| --- | --- | --- |
| `GatewaySync_table` | `FloorHolds`, `NoStaleAllow`: what a reload that ran alone confirmed is never undone, and a request is admitted only for a certificate the loaded table allowed while it was being decided; `DbRefines`: the table implements `ReadReplica` | 2 handlers, 1 request, 3 table versions, 2 days, crashes, timeouts, failing reads |
| `GatewaySync_config` | `GateAgrees`, `NoLeakedListener`, `PortsFollowRouter`; `MixedCanRetry`: a reload keeps the new table with the old configuration only for a file written meanwhile, or after a second read that failed although the file can be installed; `CfgRefines`: the configuration implements `ReadReplica` | 2 handlers, 2 ports, 4 contents (other port, forbidden change, unparsable), 3 file versions, crashes, timeouts, hand edits, failing binds, failing reads of the file |
| `GatewaySync_live` | `RevocationReaches`, `ConfigReaches` | 2 versions of each, timeouts |
| `GatewayRequest` | `InsideTarget`, `CleanIsCanonical` (against a reference definition), `AccessIsByService`, `InfoUsable` | paths of up to 4 of 5 segments, nested entries, a target with dots, numeric references, all pairs of role sets of two services |
| `ConfigManager` | `ConfigLoads`, `MemoryIsDisk`, `RouterIsConfig`, `BackedUp`; `RolesFollowId`: while services name mappings by id, nothing moves their roles to another id | all three modes, 3 saves (any number of changes without a file), 2 backups kept |
| `AdminIssue` | `UniqueName`, `AnsweredKept`, `NoGhost`; `RolesRefine`: the roles that issuing checks implement `ReadReplica` | 3 requests, 3 serials, 2 names, 2 changes of the roles, crashes |
| `RelayTunnels` | `SocketsOwned`, `SuccessIsComplete`, `KeepsListeners` | 3 hosts of which one is all addresses and one only other programs', 2 ports, 15 configurations with whole-port, path and guest routes, two services, two routes with one key |
| `RelayManager` | `Agreement`: after changes that did not overlap, and after their rollbacks, file, memory and relay have the same configuration, and the source the filter of the CA or of the present gateway; `SourceFiltered`: with a CA the store is filtered however requests overlapped and whether or not a fetch was answered | 2 concurrent requests, 3 in all, 2 tunnels, 2 gateways, a CA that loads and one that does not, store and directory, `-no-write` and `-server`, 1 waiting fetch, failing saves, failing listeners, restarts |
| `EventLog` | `LogRefines`: the files implement `RollingLog`; `HistoryFull`, `SizeBound`, `WriteEnds` | 6 lines of two sizes, 3 files of history, 1 crash, failing opens and failing or short writes, or failing removals and renames |
| `CertCache` | `SourceCurrent`, `OneOwner`, `DialSafe` | 2 connections or local requests, 1 HTTP tunnel, 3 handles, 2 sources, unlimited time |
| `TunnelConn` | `IdleBound`, `NothingLeft`, `EndPassedOn`, `ConnEnds` | 1 connection, idle time 3, peers that end, reset, say nothing or take nothing |

The bounds follow one rule: two of everything that can overlap, and one version,
file or handle more than a single operation needs, so that an older value, a newer
one and one in between exist at once. Three file versions let one reload read the
first, another the second while the third is written; three files of history let a
rotation be cut off at the removal, at each rename and before the reopening, and
six lines fill a fifth file, so that the oldest goes. One crash is enough for the rolling
logs: it leaves one hole, and the rotation after it meets the hole; the proofs are for any
number of crashes, and for any number of files, one and none included. Three requests to the relay's
manager let one that has been settled be followed by two that overlap, or by a change
and a reload; one waiting fetch is enough for an answer from an address that was left
behind. The connections of a tunnel
share nothing but `conns`, in which each has entries of its own: one is enough.
`GatewaySync_live` has smaller bounds because liveness costs more; the safety part
is in the larger runs. Symmetry is used only in runs without liveness, for sets
whose members no other constant distinguishes. Deadlock is not checked where the
system may stop: bounded counters, or a process that is down for good. It is
checked for `RelayTunnels` and `RelayManager`.

One run refutes a statement of the repository (the finding in `PROJECT.json`, with
quotes): `GatewaySync_acked`, `AckedVisible`. Of two overlapping reloads the one
with the older table swaps last, and an acknowledged revocation is undone until the
next reload.

Further statements that the code does not keep are definitions of their modules
and not part of a run. Each is refuted by adding it to the named configuration,
with the values given:

| statement, configuration | what happens |
| --- | --- |
| `RemovedPortClosed`, `GatewaySync_config` with `Faults = {}`, two administrators and `MaxFile = 3` | overlapping reloads, or a reload during start-up, leave a removed port open, against `cmd/mtls-gw/main.go:406` |
| `RolesStayPut` (a `PROPERTY`), `ConfigManager` | deleting a mapping moves a service's reference by number, with its roles, to another mapping, against `proxy.go:300` |
| `DeclaredCurrent`, `AdminIssue` | two configuration requests set the declared roles in the wrong order, against `cmd/mtls-admin/main.go:253` |
| `ListenHostApplied`, `RelayTunnels` | a change of `listen_host` leaves running tunnels on the old address, against `relay/api.go:180` |
| `NoHalfCommit`, `RelayManager` | a `server_ca` that is refused is saved by an overlapping request, and the relay does not start again from that file (`main.go:107`), against `relay/api.go:152` |
| `UniqueIds`, same | a rollback after a deletion in the shared array doubles a tunnel, against `relay/config.go:172` |
| `ReloadCurrent`, same | an older copy of the tunnels reaches the relay last, against `relay/api.go:206` |
| `SourceCurrent`, same | the relay uses one `cert_dir` and the configuration names another: two changes are applied in the other order, or a rollback puts back the whole old configuration and with it what another request has changed meanwhile, against `relay/core.go:206` |
| `FilterIsCurrent`, same | a fetch from a gateway the relay has left sets the filter last, or a CA that was taken away leaves its filter, against `relay/core.go:206` |
| `WriteEnds`, `EventLog` with `FaultSets = {{<<"std", "open">>}}` (in the MC module) and 6 lines of the standard log | the standard logger reports its own failure to itself and waits for its own lock; all logging stops, against `eventlog.go:98` |
| `KeepsMaxFile`, `EventLog` with `MaxFile = 0` | `log_max_files = 0` still keeps one file of history, against `eventlog.go:80` |
| `TransportSafe`, `CertCache` | an HTTP tunnel's transport signs with a key handle that was freed, against `relay/core.go:147` |
| `StopCloses`, `TunnelConn` | an upstream registered after `stop` has closed the set stays open, until its peer ends or for the idle time (12 h), against `tunnel.go:297` |

Met while modelling, and neither a finding nor a property: `-filter-org` applies to
the source made at start-up only (`cmd/mtls-relay/main.go:57`), one made for a new
`cert_dir` has no such filter (`relay/api.go:91`); on a first start the manager reads
its configuration before the template is written (`main.go:61`, `main.go:66`), so the
first save leaves out the log paths of the template.

### Fairness

* `GatewaySync`: weak fairness of an administrative request that has committed (its
  handler goes on to `Trigger` or to the failure of it) and of a reload handler:
  goroutines of a running process. None for the restart of a gateway that died
  (the repository has no supervisor), for administrators, nor for business
  requests; so the liveness properties have the escape "or the gateway is down"
  and "or the reload certificate is not accepted". Reads of the table and of the file do
  not fail in `GatewaySync_live`: a reload that fails is repeated only by the next change.
* `EventLog`: weak fairness of the goroutine inside `appendLine`. Nothing forces
  another line to be written.
* `TunnelConn`: weak fairness of the handler, of the ends of both copies (`CopyEnds`,
  `WriteFails`), of the second half of `stop`, and of time. None for clients and
  gateways: they may stay silent for ever, and a write need never be taken. Therefore
  `EndPassedOn` has the premise that the copy comes out of its writes again and again:
  without it a gateway that takes nothing, and sends often enough to keep the idle timer
  from closing, keeps the client's end unread.

## 4. Proofs

For all values of the constants that satisfy the `ASSUME`s of the modules
(`SyncAssumption`, `ConfigAssumption`, `RequestAssumption`, `IssueAssumption`,
`CacheAssumption`, `SourceAssumption`, `ManagerAssumption`, `LogAssumption`, and
`NoneAssumption` and `SetupsAssumption` of `RelayTunnels`): typing of the constants,
nothing about sizes. Four conditions say more. The idle time is not 0
(`IdleAssumption`). At least one backup is kept (`ConfigAssumption`; the code keeps 5). A
dial is shorter than `keyReleaseDelay`, and that not longer than the TTL
(`TimesAssumption`). No single line is longer than `log_max_size` (`LogAssumption`): the
longest text in a line is the path of a request, which a Go server bounds by 1 MB and
JSON may lengthen sixfold, against a default of 10 MB. With a limit below that the code
does not enforce it, and a longer line would exceed the size of its file.

| theorem | states |
| --- | --- |
| `TypeCorrect` | `Spec => []TypeOK` of `GatewaySync`: no copy holds a version that was never committed |
| `FloorCorrect` | `Spec => []FloorHolds` |
| `DbRefinement`, `CfgRefinement` | `Spec => DbRefines`, `Spec => CfgRefines`: initial states and every step map to `ReadReplica` |
| `GateCorrect` | `Spec => []GateAgrees` |
| `StaleCorrect` | `Spec => []NoStaleAllow` |
| `ListenerCorrect`, `PortsCorrect` | `Spec => []NoLeakedListener`, `Spec => []PortsFollowRouter` |
| `MixedCorrect` | `Spec => MixedCanRetry` of `GatewaySync`, with reads of the file that fail |
| `InsideCorrect`, `CanonicalCorrect` | `GatewayRequest`: `InsideTarget` and `CleanIsCanonical`, for paths, entries and targets of any length |
| `AccessCorrect`, `InfoCorrect` | `GatewayRequest`: `AccessIsByService` and `InfoUsable`, for any configurations that load and any certificates |
| `LoadsCorrect`, `AgreementCorrect`, `RouterCorrect` | `ConfigManager`: file and memory load after any request, failure and crash, both agree between requests, and the router is that of the memory |
| `BackupCorrect` | `Spec => BackedUp` of `ConfigManager`, for any number of backups kept |
| `RolesCorrect` | `Spec => RolesFollowId` of `ConfigManager` |
| `UniqueNameCorrect`, `AnsweredCorrect`, `GhostCorrect` | `AdminIssue`: one record for a name, what was handed out keeps record and files, nothing halfway is left but by a crash or a failing `DELETE` |
| `RolesRefinement` | `Spec => RolesRefine` of `AdminIssue` |
| `SourceCorrect`, `OwnerCorrect`, `DialCorrect` | `CertCache`: `SourceCurrent`, `OneOwner` and `DialSafe` for any numbers of tunnels, handles and sources |
| `OwnedCorrect` | `Spec => []SocketsOwned` of `RelayTunnels`, for any configurations, two routes with one key included |
| `CompleteCorrect`, `KeepsCorrect` | `Spec => []SuccessIsComplete` and `Spec => []KeepsListeners` of `RelayTunnels`, whatever other programs do with the ports |
| `IdleCorrect`, `NothingLeftCorrect` | `TunnelConn`: `IdleBound` and `NothingLeft` for any number of connections and any idle time |
| `FilteredCorrect` | `Spec => []SourceFiltered` of `RelayManager`, for any number of overlapping requests |
| `AgreementCorrect` (`RelayManager_proofs`) | `Spec => []Agreement` of `RelayManager`, whatever overlapped or failed before |
| `HistoryCorrect`, `SizeCorrect` | `EventLog`: `HistoryFull` and `SizeBound`, for any number of files, lines and crashes |
| `LogRefinement` | `Spec => LogRefines` of `EventLog`: each logger implements `RollingLog`, in which a step loses exactly one file, never the latest |

**`FloorHolds` is not inductive.** A promise is made by a reload that ran alone,
but a later reload must not break it by installing something it read earlier. The
invariant `FloorInv` adds: a reload marked `hsolo` is alone (`SoloIsAlone`); what
any handler has read and not yet installed already covers every promise made
(`ReadCoversFloor`); a solo reload past a swap has installed at least what the
store held when it arrived (`SoloInstalled`). At the answer of a solo reload no
other handler holds anything unread, so raising the floor is safe. The refinements
use `TypeOK` and `FloorHolds` in both states of a step: commits map to `Commit`,
swaps and start-up reads to `Install`, answers to `Promise`, everything else to
stuttering.

**Requests, sockets and ports.** `NoStaleAllow` follows from `FloorHolds` and a fact
about the history: no version after a revocation has the serial enabled again
(`RevokedGone`), although a failed issue may delete the record of a serial that was
revoked meanwhile. `NoLeakedListener` is not inductive: closing a port must not close
one that the registry or somebody else has, so `Owned` says that each socket is in one
place only. `PortsFollowRouter` rests on that, on `SoloIsAlone`, and on what the
handler has still to add and remove leading from the registry it saw to the router's
ports (`Served`). `MixedCanRetry` rests on `Checked`: as long as the file has not
been written since the reload arrived, it is the one that was validated, and by
`GateAgrees` no other reload can have made it unacceptable. So if the file was not written,
only the second read can have failed, and what it would have read can be installed.

**`ConfigManager`.** The inductive invariant `IInv` is the conjunction of the
checked invariants with `Shape` (configurations are records of four fields) and
`Saving`: while a request is being saved, `old` loads and is what the file still
has, and the temporary file is the new configuration before the rename. That is
what makes rollback and crash harmless at every step. Of the router only one fact
is used (a lemma): what `Rebuilds` accepts, with the fixed fields of a
configuration that loads, loads. `BackedUp` adds that between the copy and the rename
the file is among the backups (`Copy`): pruning never takes the newest (`PruneKeeps`).
`RolesFollowId` is a fact about any two configurations that load and have the same
services: where these name mappings by id, `Resolve` finds the only mapping with that id
(`RolesById`), wherever it stands now.

**`GatewayRequest`.** Its state is a request, so the invariants are facts about functions
of it. `CleanDotSegments` is a recursive function, followed along its values by
induction over their number (see the end of this section). `Undotted` of two paths, one
after the other, is that of the first and then the second if the second has no dots
(`UndottedConcat`): the cleaned path has none, so what `substitute` joins to the target
stays behind what is left of the target, and `InsideTarget` follows. For
`CleanIsCanonical` the stack after `m` segments is compared with the reference: it holds
the segments `k` that no later `..` climbed above until then (`Alive`), in their order, and
its height is `Height` (`Matched`); a `..` takes away the last of them only. `InfoUsable`
rests on `Match`: the entry of a mapping, sent as it is written, is cleaned to itself, and
of the entries on its port that begin it the longest is the only one with its length,
because `NewRouter` refuses two mappings with one entry (`EntryMatches`).

**`AdminIssue`.** The checked invariants say what is true of the store; that they are
kept depends on what each request under way may call its own. The inductive invariant
adds to them: a serial that is drawn belongs to one request and was not handed out
(`Own`, `OwnSerial`), a directory with a device's name belongs to the record of that
name (`FilesOwned`), and each record or temporary directory that is there halfway
belongs to a request at a certain place, or was cut off (`RecordsOwned`, `DirsOwned`).
The undo of one request can then not touch what another one has, or has answered. For
the roles, `RInv` is the argument of `FloorInv` again, with one version told after
another: what a request has read and not yet told covers the floor, and a request
that ran alone has told what is in force.

**`CertCache`.** `DialSafe` compares two clocks that started at different steps. The
invariant says for each use of a handle that its age and the wait of the handle's timer
add up to the delay at least, once there is a timer (`Timed`): a timer starts with the
whole delay, and time moves both. For that a handle must have no more than one timer, so
`Places` (one of: with its owner, one timer, freed once), `LoadersOwn` and `CacheOwns`
are proved along with it; `OneOwner` follows from them. `TimesAssumption` is used twice:
`DialTime < Delay` at the end, and `Delay <= CertTTL` because ages stop at the TTL.

**`RelayTunnels`.** While a route is switched, its runtime has no socket although it is
still filed, so the invariant lets the sockets be those of the other runtimes (`Running`),
and a restore takes back the same key because a runtime is filed under the key of its
own route (`Filed`). A start that meets a key for the second time must not lose the first
listener: the address of both is the same (`Phases`), so that the second is not free.
`SuccessIsComplete` and `KeepsListeners` speak of the end of an operation; `KInv` says how
far it has come. The routes it has been through have the runtime of the last of them with
their key (`Complete`, for the operations that have not failed); what the last loop has
looked at is served, and what takes the place of a whole-port route has the whole port,
too (`Served`, `WholePortStays`); and while no other program interferes, a configured
route has the listener it had, or is being switched and its address is free (`Kept`). That
needs `Apart`: sockets do not clash with one another or with those of other programs, so
that the address which a stopped runtime leaves is free for its successor.

**`TunnelConn`.** `IdleBound` bounds one clock, the invariant `Timed` the sum of two: what
the timer still has to run and the time without data. Only data and a firing change the
sum, and a firing that finds less than the idle time adds no more than that. `Kept`
adds to `NothingLeft` that copies run only between `StartCopies` and `CopiesDone`, and that
only a copy that runs is writing.

**`RelayManager`.** A store without a filter must be about to get one: whoever replaces the
source sets the filter next (`FilterFollows`, from the order of the steps in `SetSource`) and
holds the CA it read under the lock until then (`SubjectHeld`). A CA that arrives in
between filters the source itself, so `StoreFiltered` holds at each step.

`Agreement` is about the moments at which nothing is under way; between them file, source,
filter and relay follow the memory one after another. The invariant (`AInv`) says for each
of the four that it agrees with the memory or that the request under way still has the step
before it which brings it there (`FileSettled`, `SourceSettled`, `RelaySettled`,
`FilterSettled`, together `Harmony`). What a request has before it is always the rest of one
plan, in which no step comes twice and the order is fixed (`Courses`, with the ranks of the
steps); a rollback gives back what was found, which the file and the relay still have; and
a request that was alone hands over what is in memory (`Solitude`). One lemma for each step
shows that it makes true what the next one relies on.

**`EventLog`.** `LogRefines` needs to know what the files say as one sequence: of files
(`Kept`, which is what `RollingLog` speaks of), and of entries (`Text`, for `HistoryFull`).
Both are `Joined` from the directory, so that lemmas about it (`JoinedTail`, `JoinedSplit`,
`JoinedKept`) serve both; the `Flatten` lemmas say what becomes of the concatenation when the
last block grows, when a block is dropped and its successor takes its place, and when an empty
one moves. Entries come in the order of their lines, and the line about to be written is later
than all of them (`Ordered`). A step of a rotation
renames a file onto one that is not there (`Vacant`) or onto the oldest; a rotation is for a
file that has entries (`Latest`), so the file that goes is not the last one. Outside the
renames the size in memory is that of the file (`Known`), and what is about to be written fits
(`Fits`), which gives `SizeBound`; a failed rename leaves the file over the limit, therefore
`Renames`. `HistoryFull` says of the end of a rotation what `Chain` and `Filled` say in
between: the files of history are the youngest numbers without a gap, but for the hole that
the rotation moves downwards, and none is missing once lines have been lost.

**Data.** The library's rules of induction cannot be used, because they take an operator as
a parameter; a set takes its place. A set of numbers that is not empty has a least one
(`Least`), and so a set that has 0 and with every number the next has them all (`Induct`). What a recursive
function computes is shown in two steps: some function follows the recursion up to `n`
(`FollowExists`, `FlatExists`, `SumExists`, by `Induct`), and the definition is that function.
The provers do not know that `""` is a string, so lemmas about paths are stated for `Word`.

Only model-checked: liveness (`RevocationReaches`, `ConfigReaches`, `WriteEnds`,
`ConnEnds`, `EndPassedOn`), which with fairness and `ENABLED` is out of the prover's
reach. Every invariant and action property of the passing runs has a theorem. No module
uses `RECURSIVE`.

## 5. Not modelled

* X.509, TLS and PKCS#12: authorization begins with the verified serial number.
* Relaying of request and response bodies (`net/http`, `httputil.ReverseProxy`).
* `certsource` parsing and the Windows store, except loading and freeing a handle;
  `permissioncheck`, `i18n`, `errs`, `logging`, the web pages and command line tools:
  no state that steps could put into the wrong order.
* In the relay's settings: the language and `admin_addr`, which are stored and read and
  change nothing else; sources other than a directory and the Windows store
  (`-source`). `listen_host` is in `RelayTunnels`, not in `RelayManager`, and what a
  failing listener leaves of the other tunnels is there, too.
* Discovery and the management bridge beyond the certificate they use (`CertCache`):
  one HTTP request whose answer is passed on.
* The order in which two connections of one tunnel are served: they share nothing but
  `conns`. A run with two has more states than its time allows; the invariants of
  `TunnelConn` are proved for any number.
* A current log file that can never be renamed: each further line then shifts the
  history out (hazard at `eventlog.go:94`). `LogRefines` says for such loggers, too, that
  a step loses one file at the most and never the latest; `HistoryFull`,
  `SizeBound` and that only the oldest lines go are stated for loggers whose renames
  work.

## 6. Plan

Done, in this order: `ReadReplica` and `GatewaySync` with its runs and proofs;
`Routing` with `GatewayRequest` and `ConfigManager` and its proofs; `AdminIssue` and its
proofs; `RelayTunnels`, `EventLog`, `CertCache`, `TunnelConn`; then `RelaySource` and the full
`RelayManager` with start-up, rollback, sources and fetches, `RollingLog` and the
refinement of `EventLog`, the refinement of `ReadReplica` by the declared roles, and the
proofs about the relay; the proofs of what was left: requests through the router, backups,
complete and careful reloads, agreement of the relay's parts, and the rolling logs.

Next, extending the model: a finer relay, in which `RelayManager` hands its tunnels to
`RelayTunnels` step by step (the product of both is beyond a run of minutes as they
are), and a second certificate id in `CertCache`.

Next, proving: what liveness needs short of fairness, as invariants (while a request is
unanswered, some step of it is possible), and with a finer relay that its tunnels, handed
over one by one, keep `Agreement`.
