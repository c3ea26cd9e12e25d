---------------------------- MODULE ConfigManager ----------------------------
(***************************************************************************)
(* internal/configmgr as mtls-admin uses it: every configuration request   *)
(* is checked, applied in memory, turned into a router and written to      *)
(* config.toml, with a backup of the file it replaces                      *)
(* (internal/atomicfile writes a temporary file and renames it).           *)
(*                                                                         *)
(* One mutex covers a whole request, so what can come in between is not    *)
(* another request but a failure of the file system or the end of the      *)
(* process; both can strike at every step of persist.                      *)
(***************************************************************************)
EXTENDS Routing

CONSTANTS
    First,       \* configurations mtls-admin may be started with
    Modes,       \* values of config_mode it may be started with
    RoleNames,   \* names in role requests
    NewMappings, \* mappings in requests
    NewServices, \* services in requests
    MaxKeep,     \* backups that pruneBackups keeps
    MaxSaves,    \* bound: requests that reach persist
    None

\* Configurations have four fields.
IsConfig(c) == c = [admin |-> c.admin, roles |-> c.roles, mappings |-> c.mappings,
                    services |-> c.services]

ASSUME ConfigAssumption ==
    /\ Modes \subseteq {"mutable", "ephemeral", "immutable"}
    /\ \A c \in First : IsConfig(c)
    /\ MaxKeep \in Nat \ {0} /\ MaxSaves \in Nat

VARIABLES
    mode,    \* config_mode, which no request changes
    up,      \* mtls-admin is running
    cfg,     \* the configuration in memory
    router,  \* the configuration its router was built from
    old,     \* what rollback restores
    pc,      \* where the request in progress is: idle, backup, write, rename
    tmp,     \* the temporary file
    disk,    \* config.toml
    bak,     \* the backups, oldest first
    copied,  \* the last copyFile succeeded
    saves    \* requests that have reached persist

vars == <<mode, up, cfg, router, old, pc, tmp, disk, bak, copied, saves>>

\* main: the file is parsed and the router built, or mtls-admin does not start.
Init ==
    /\ mode \in Modes
    /\ disk \in {c \in First : Loads(c)}
    /\ up = TRUE /\ cfg = disk /\ router = disk /\ old = disk
    /\ pc = "idle" /\ tmp = None /\ bak = <<>> /\ copied = TRUE /\ saves = 0

-----------------------------------------------------------------------------
\* mutate: checkWritable (nothing is writable in mode "immutable"), apply,
\* rebuild, and on to persist unless the mode is ephemeral.  What rebuild
\* rejects is rolled back before anybody can see it.
Mutate(new) ==
    /\ up /\ pc = "idle"
    /\ Rebuilds(new)
    /\ cfg' = new /\ router' = new /\ old' = cfg
    /\ \/ /\ mode = "ephemeral"
          /\ UNCHANGED <<pc, saves>>
       \/ /\ mode = "mutable" /\ saves < MaxSaves
          /\ pc' = "backup" /\ saves' = saves + 1
    /\ UNCHANGED <<up, tmp, disk, bak, copied>>

\* The bulk save: everything but admin_role is replaced.
ReplaceConfig(c) == Mutate([c EXCEPT !.admin = cfg.admin])

AddRole(n) ==
    /\ n \notin {"any", "null", cfg.admin} /\ n \in GoodRoles
    /\ n \notin ToSet(cfg.roles)
    /\ Mutate([cfg EXCEPT !.roles = Append(@, n)])

DeleteRole(n) ==
    /\ n # "any"
    /\ \A s \in ToSet(cfg.services) : n \notin s.roles
    /\ n \in ToSet(cfg.roles)
    /\ Mutate([cfg EXCEPT !.roles = SelectSeq(@, LAMBDA r : r # n)])

AddMapping(m) == Mutate([cfg EXCEPT !.mappings = Append(@, m)])

UpdateMapping(id, m) ==
    \E i \in DOMAIN cfg.mappings :
        /\ cfg.mappings[i].id = id
        /\ \A j \in 1 .. i - 1 : cfg.mappings[j].id # id
        /\ Mutate([cfg EXCEPT !.mappings = [@ EXCEPT ![i] = m]])

DeleteMapping(id) ==
    /\ \E m \in ToSet(cfg.mappings) : m.id = id
    /\ Mutate([cfg EXCEPT !.mappings = SelectSeq(@, LAMBDA m : m.id # id)])

AddService(s) == Mutate([cfg EXCEPT !.services = Append(@, s)])

UpdateService(name, s) ==
    \E i \in DOMAIN cfg.services :
        /\ cfg.services[i].name = name
        /\ \A j \in 1 .. i - 1 : cfg.services[j].name # name
        /\ Mutate([cfg EXCEPT !.services = [@ EXCEPT ![i] = s]])

DeleteService(name) ==
    /\ \E s \in ToSet(cfg.services) : s.name = name
    /\ Mutate([cfg EXCEPT !.services = SelectSeq(@, LAMBDA s : s.name # name)])

-----------------------------------------------------------------------------
\* Keeping the oldest ones, for comparison.
PruneNewest(b) == IF Len(b) <= MaxKeep THEN b ELSE SubSeq(b, 1, MaxKeep)

\* pruneBackups keeps the newest; the names sort by time.
Prune(b) == IF Len(b) <= MaxKeep THEN b ELSE SubSeq(b, Len(b) - MaxKeep + 1, Len(b))

\* copyFile may fail, which is logged and does not stop the save.
Backup ==
    /\ pc = "backup"
    /\ pc' = "write"
    /\ \/ bak' = Prune(Append(bak, disk)) /\ copied' = TRUE
       \/ bak' = Prune(bak) /\ copied' = FALSE
    /\ UNCHANGED <<up, cfg, router, old, tmp, disk, saves>>

\* What persist did before a failure was rolled back, for comparison; and a
\* rollback without a rebuild.
RollbackForgotten ==
    /\ pc' = "idle"
    /\ tmp' = None
    /\ UNCHANGED <<up, cfg, router, old, disk, bak, copied, saves>>

RollbackNoRebuild ==
    /\ pc' = "idle"
    /\ cfg' = old
    /\ tmp' = None
    /\ UNCHANGED <<up, router, old, disk, bak, copied, saves>>

\* The request fails: memory goes back to what is on disk.
Rollback ==
    /\ pc' = "idle"
    /\ cfg' = old /\ router' = old
    /\ tmp' = None
    /\ UNCHANGED <<up, old, disk, bak, copied, saves>>

WriteTemp ==
    /\ pc = "write"
    /\ \/ /\ pc' = "rename"
          /\ tmp' = cfg
          /\ UNCHANGED <<up, cfg, router, old, disk, bak, copied, saves>>
       \/ Rollback

Rename ==
    /\ pc = "rename"
    /\ \/ /\ pc' = "idle"
          /\ disk' = tmp
          /\ tmp' = None
          /\ UNCHANGED <<up, cfg, router, old, bak, copied, saves>>
       \/ Rollback

\* The process ends; the temporary file stays behind and is never read.
Crash ==
    /\ up
    /\ up' = FALSE /\ pc' = "idle"
    /\ UNCHANGED <<cfg, router, old, tmp, disk, bak, copied, saves>>

Start ==
    /\ ~up
    /\ Loads(disk)
    /\ up' = TRUE /\ cfg' = disk /\ router' = disk
    /\ UNCHANGED <<old, pc, tmp, disk, bak, copied, saves>>

Request ==
    \/ \E c \in First : ReplaceConfig(c)
    \/ \E n \in RoleNames : AddRole(n) \/ DeleteRole(n)
    \/ \E m \in NewMappings :
          AddMapping(m) \/ (\E n \in NewMappings : UpdateMapping(n.id, m)) \/ DeleteMapping(m.id)
    \/ \E s \in NewServices :
          AddService(s) \/ UpdateService(s.name, s) \/ DeleteService(s.name)

Next ==
    /\ Request \/ Backup \/ WriteTemp \/ Rename \/ Crash \/ Start
    /\ UNCHANGED mode

Spec == Init /\ [][Next]_vars

-----------------------------------------------------------------------------
\* Whatever request is accepted and whatever fails while it is saved, the file
\* is one that both processes start from and the gateway reloads: rebuild lets
\* nothing through that config.Parse or NewRouter would refuse.  So is the
\* configuration in memory in every mode, after any sequence of requests:
\* accepting a change never depends on a restart putting it right.
ConfigLoads == Loads(disk) /\ (up => Loads(cfg))

\* Between requests a running mtls-admin and its file agree, after every
\* failure (the production event that mutate's comment recalls).
MemoryIsDisk == up /\ pc = "idle" /\ mode = "mutable" => cfg = disk

\* The router in use is the one of the configuration in memory.
RouterIsConfig == up => router = cfg

\* The file that a save replaces is among the backups, unless copying it failed.
BackedUp == [][disk' # disk => ~copied \/ disk \in Range(bak)]_vars

\* The reference is to an id.
NamesMapping(c, ch) == \E m \in ToSet(c.mappings) : m.id = ch

\* All references of services are to ids.
AllById(c) == \A s \in ToSet(c.services) : \A ch \in s.channels : NamesMapping(c, ch)

\* As long as services refer to mappings by id, no change, rollback or restart
\* that leaves the services alone moves their roles to another id, though ids
\* may be made of digits and positions shift under them.
RolesFollowId ==
    [][ cfg'.services = cfg.services /\ AllById(cfg) /\ AllById(cfg')
        => \A i \in DOMAIN cfg.mappings, j \in DOMAIN cfg'.mappings :
              cfg.mappings[i].id = cfg'.mappings[j].id
              => RouteRoles(cfg', j) = RouteRoles(cfg, i) ]_vars

\* What the comment of resolveChannelIndex promises for ids made of digits: the
\* roles of a service are never attached to a route it does not name.  Deleting
\* the mapping breaks it, because its id is then taken for a position.
RolesStayPut ==
    [][ cfg'.services = cfg.services /\ AllById(cfg)
        => \A i \in DOMAIN cfg.mappings, j \in DOMAIN cfg'.mappings :
              cfg.mappings[i] = cfg'.mappings[j]
              => RouteRoles(cfg', j) \subseteq RouteRoles(cfg, i) ]_vars

=============================================================================
