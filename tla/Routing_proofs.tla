--------------------------- MODULE Routing_proofs ---------------------------
(***************************************************************************)
(* Over the operators of Routing: what ConfigManager keeps for every set   *)
(* of configurations, requests and names, and for every sequence of        *)
(* requests, failures and crashes (the file can be loaded, memory and file *)
(* agree between requests, a save does not lose the file it replaces, and  *)
(* roles stay with the ids they were given to); and what becomes of a      *)
(* request to the gateway, for every configuration, path and certificate.  *)
(***************************************************************************)
EXTENDS ConfigManager, GatewayRequest, SequenceTheorems, FiniteSetTheorems,
        FunctionTheorems, WellFoundedInduction, TLAPS

\* Configurations have their four fields, the rest its type.
Shape ==
    /\ up \in BOOLEAN /\ copied \in BOOLEAN
    /\ pc \in {"idle", "backup", "write", "rename"}
    /\ IsConfig(cfg) /\ IsConfig(old) /\ IsConfig(disk)
    /\ saves \in Nat

\* A request in progress belongs to a running process and can be taken back:
\* old is loadable and is what the file still holds.
Saving ==
    /\ pc # "idle" => up /\ mode = "mutable" /\ Loads(old) /\ old = disk
    /\ pc = "rename" => tmp = cfg

IInv ==
    /\ Shape
    /\ Saving
    /\ ConfigLoads
    /\ MemoryIsDisk
    /\ RouterIsConfig

-----------------------------------------------------------------------------
\* rebuild and the unchanged admin_role give all that config.Parse and
\* NewRouter ask for.
LEMMA RebuildsLoads ==
    ASSUME NEW c, NEW d, Loads(c), Rebuilds(d), d.admin = c.admin
    PROVE  Loads(d)
  BY DEF Loads, Rebuilds, RouterBuilds

\* A changed configuration is one, with the admin_role it had.
LEMMA ChangeRoles ==
    ASSUME NEW c, IsConfig(c), NEW r
    PROVE  IsConfig([c EXCEPT !.roles = r]) /\ [c EXCEPT !.roles = r].admin = c.admin
  <1> DEFINE d == [admin |-> c.admin, roles |-> c.roles, mappings |-> c.mappings,
                   services |-> c.services]
  <1>1. [d EXCEPT !.roles = r] = [admin |-> c.admin, roles |-> r, mappings |-> c.mappings,
                                  services |-> c.services]
    OBVIOUS
  <1>2. c = d
    BY DEF IsConfig
  <1> QED BY <1>1, <1>2 DEF IsConfig

LEMMA ChangeMappings ==
    ASSUME NEW c, IsConfig(c), NEW m
    PROVE  IsConfig([c EXCEPT !.mappings = m]) /\ [c EXCEPT !.mappings = m].admin = c.admin
  <1> DEFINE d == [admin |-> c.admin, roles |-> c.roles, mappings |-> c.mappings,
                   services |-> c.services]
  <1>1. [d EXCEPT !.mappings = m] = [admin |-> c.admin, roles |-> c.roles, mappings |-> m,
                                     services |-> c.services]
    OBVIOUS
  <1>2. c = d
    BY DEF IsConfig
  <1> QED BY <1>1, <1>2 DEF IsConfig

LEMMA ChangeServices ==
    ASSUME NEW c, IsConfig(c), NEW s
    PROVE  IsConfig([c EXCEPT !.services = s]) /\ [c EXCEPT !.services = s].admin = c.admin
  <1> DEFINE d == [admin |-> c.admin, roles |-> c.roles, mappings |-> c.mappings,
                   services |-> c.services]
  <1>1. [d EXCEPT !.services = s] = [admin |-> c.admin, roles |-> c.roles,
                                     mappings |-> c.mappings, services |-> s]
    OBVIOUS
  <1>2. c = d
    BY DEF IsConfig
  <1> QED BY <1>1, <1>2 DEF IsConfig

LEMMA ChangeAll ==
    ASSUME NEW c, IsConfig(c), NEW x
    PROVE  IsConfig([c EXCEPT !.admin = x]) /\ [c EXCEPT !.admin = x].admin = x
  <1> DEFINE d == [admin |-> c.admin, roles |-> c.roles, mappings |-> c.mappings,
                   services |-> c.services]
  <1>1. [d EXCEPT !.admin = x] = [admin |-> x, roles |-> c.roles, mappings |-> c.mappings,
                                  services |-> c.services]
    OBVIOUS
  <1>2. c = d
    BY DEF IsConfig
  <1> QED BY <1>1, <1>2 DEF IsConfig

-----------------------------------------------------------------------------
\* The invariant through a change that keeps admin_role.
LEMMA MutateKeeps ==
    ASSUME IInv, NEW new, IsConfig(new), new.admin = cfg.admin, Mutate(new), mode' = mode
    PROVE  IInv'
  <1>1. up /\ pc = "idle" /\ up' = up /\ cfg' = new /\ router' = new /\ old' = cfg
        /\ disk' = disk /\ tmp' = tmp /\ copied' = copied /\ mode' = mode
    BY DEF Mutate
  <1>2. Loads(cfg) /\ Loads(disk)
    BY <1>1 DEF IInv, ConfigLoads
  <1>3. Loads(new)
    BY <1>2, RebuildsLoads DEF Mutate
  <1>4. \/ mode = "ephemeral" /\ pc' = "idle" /\ saves' = saves
        \/ mode = "mutable" /\ pc' = "backup" /\ saves' = saves + 1
    BY <1>1 DEF Mutate
  <1>5. Shape'
    BY <1>1, <1>4 DEF IInv, Shape
  <1>6. Saving'
    BY <1>1, <1>2, <1>4 DEF IInv, Saving, MemoryIsDisk
  <1>7. ConfigLoads' /\ MemoryIsDisk' /\ RouterIsConfig'
    BY <1>1, <1>2, <1>3, <1>4 DEF ConfigLoads, MemoryIsDisk, RouterIsConfig
  <1> QED BY <1>5, <1>6, <1>7 DEF IInv

\* Every request is such a change.
LEMMA RequestKeeps == IInv /\ Request /\ mode' = mode => IInv'
  <1> SUFFICES ASSUME IInv, Request, mode' = mode PROVE IInv'
    OBVIOUS
  <1>0. IsConfig(cfg)
    BY DEF IInv, Shape
  <1>1. ASSUME NEW c \in First, ReplaceConfig(c) PROVE IInv'
    BY <1>1, ConfigAssumption, ChangeAll, MutateKeeps DEF ReplaceConfig
  <1>2. ASSUME NEW n \in RoleNames, AddRole(n) \/ DeleteRole(n) PROVE IInv'
    BY <1>0, <1>2, ChangeRoles, MutateKeeps DEF AddRole, DeleteRole
  <1>3. ASSUME NEW m \in NewMappings, AddMapping(m) PROVE IInv'
    BY <1>0, <1>3, ChangeMappings, MutateKeeps DEF AddMapping
  <1>4. ASSUME NEW m \in NewMappings, NEW id, UpdateMapping(id, m) PROVE IInv'
    BY <1>0, <1>4, ChangeMappings, MutateKeeps DEF UpdateMapping
  <1>5. ASSUME NEW id, DeleteMapping(id) PROVE IInv'
    BY <1>0, <1>5, ChangeMappings, MutateKeeps DEF DeleteMapping
  <1>6. ASSUME NEW s \in NewServices, AddService(s) PROVE IInv'
    BY <1>0, <1>6, ChangeServices, MutateKeeps DEF AddService
  <1>7. ASSUME NEW s \in NewServices, NEW name, UpdateService(name, s) PROVE IInv'
    BY <1>0, <1>7, ChangeServices, MutateKeeps DEF UpdateService
  <1>8. ASSUME NEW name, DeleteService(name) PROVE IInv'
    BY <1>0, <1>8, ChangeServices, MutateKeeps DEF DeleteService
  <1> QED BY <1>1, <1>2, <1>3, <1>4, <1>5, <1>6, <1>7, <1>8 DEF Request

\* Whatever fails while a change is being saved, taking it back is sound.
LEMMA RollbackKeeps == ASSUME IInv, pc # "idle", Rollback, mode' = mode PROVE IInv'
  <1>1. up /\ Loads(old) /\ old = disk
    BY DEF IInv, Saving
  <1>2. pc' = "idle" /\ cfg' = old /\ router' = old /\ up' = up /\ old' = old /\ disk' = disk
        /\ copied' = copied /\ saves' = saves /\ mode' = mode
    BY DEF Rollback
  <1>3. Shape'
    BY <1>2 DEF IInv, Shape
  <1>4. Saving' /\ ConfigLoads' /\ MemoryIsDisk' /\ RouterIsConfig'
    BY <1>1, <1>2 DEF Saving, ConfigLoads, MemoryIsDisk, RouterIsConfig
  <1> QED BY <1>3, <1>4 DEF IInv

LEMMA InitKeeps == Init => IInv
  <1> SUFFICES ASSUME Init PROVE IInv
    OBVIOUS
  <1>1. disk \in First /\ Loads(disk) /\ cfg = disk /\ router = disk /\ old = disk
        /\ up = TRUE /\ pc = "idle" /\ copied = TRUE /\ saves = 0
    BY DEF Init
  <1>2. Shape
    BY <1>1, ConfigAssumption DEF Shape
  <1> QED BY <1>1, <1>2 DEF IInv, Saving, ConfigLoads, MemoryIsDisk, RouterIsConfig

LEMMA StepKeeps == IInv /\ [Next]_vars => IInv'
  <1> SUFFICES ASSUME IInv, [Next]_vars PROVE IInv'
    OBVIOUS
  <1> USE DEF IInv
  <1>0. mode' = mode
    BY DEF Next, vars
  <1>1. CASE Request
    BY <1>0, <1>1, RequestKeeps
  <1>2. CASE Backup
    <2>1. pc = "backup" /\ pc' = "write" /\ copied' \in BOOLEAN
          /\ UNCHANGED <<up, cfg, router, old, tmp, disk, saves>>
      BY <1>2 DEF Backup
    <2>2. Shape'
      BY <2>1 DEF Shape
    <2> QED BY <1>0, <2>1, <2>2 DEF Saving, ConfigLoads, MemoryIsDisk, RouterIsConfig
  <1>3. CASE WriteTemp
    <2>1. CASE Rollback
      BY <1>0, <1>3, <2>1, RollbackKeeps DEF WriteTemp
    <2>2. CASE ~Rollback
      <3>1. pc = "write" /\ pc' = "rename" /\ tmp' = cfg
            /\ UNCHANGED <<up, cfg, router, old, disk, copied, saves>>
        BY <1>3, <2>2 DEF WriteTemp
      <3>2. Shape'
        BY <3>1 DEF Shape
      <3> QED BY <1>0, <3>1, <3>2 DEF Saving, ConfigLoads, MemoryIsDisk, RouterIsConfig
    <2> QED BY <2>1, <2>2
  <1>4. CASE Rename
    <2>1. CASE Rollback
      BY <1>0, <1>4, <2>1, RollbackKeeps DEF Rename
    <2>2. CASE ~Rollback
      <3>1. pc = "rename" /\ pc' = "idle" /\ disk' = tmp
            /\ UNCHANGED <<up, cfg, router, old, copied, saves>>
        BY <1>4, <2>2 DEF Rename
      <3>2. up /\ tmp = cfg
        BY <3>1 DEF Saving
      <3>3. Shape'
        BY <3>1, <3>2 DEF Shape
      <3> QED BY <1>0, <3>1, <3>2, <3>3
              DEF Saving, ConfigLoads, MemoryIsDisk, RouterIsConfig
    <2> QED BY <2>1, <2>2
  <1>5. CASE Crash
    BY <1>0, <1>5 DEF Crash, Shape, Saving, ConfigLoads, MemoryIsDisk, RouterIsConfig
  <1>6. CASE Start
    <2>1. pc = "idle"
      BY <1>6 DEF Start, Saving
    <2> QED BY <1>0, <1>6, <2>1
            DEF Start, Shape, Saving, ConfigLoads, MemoryIsDisk, RouterIsConfig
  <1>7. CASE UNCHANGED vars
    BY <1>7 DEF vars, Shape, Saving, ConfigLoads, MemoryIsDisk, RouterIsConfig
  <1> QED BY <1>1, <1>2, <1>3, <1>4, <1>5, <1>6, <1>7 DEF Next

LEMMA Inductive == Spec => []IInv
  BY InitKeeps, StepKeeps, PTL DEF Spec

-----------------------------------------------------------------------------
\* Whatever requests are accepted and whatever fails while they are saved,
\* config.toml stays loadable, by a restart and by the gateway's reload, and in
\* every mode so does the configuration in memory.
THEOREM LoadsCorrect == Spec => []ConfigLoads
  <1>1. IInv => ConfigLoads
    BY DEF IInv
  <1> QED BY <1>1, Inductive, PTL

\* After every success, failure, crash and restart, memory and file agree
\* whenever no request is in progress.
THEOREM AgreementCorrect == Spec => []MemoryIsDisk
  <1>1. IInv => MemoryIsDisk
    BY DEF IInv
  <1> QED BY <1>1, Inductive, PTL

\* Through failures and crashes mtls-admin answers from a router built from the
\* configuration it would save next.
THEOREM RouterCorrect == Spec => []RouterIsConfig
  <1>1. IInv => RouterIsConfig
    BY DEF IInv
  <1> QED BY <1>1, Inductive, PTL

-----------------------------------------------------------------------------
\* Backups are a sequence, and while a save goes on the file it is about to
\* replace is among them, if it could be copied.
Copy ==
    /\ bak \in Seq(Range(bak))
    /\ pc \in {"write", "rename"} /\ copied => disk \in Range(bak)

\* Of a sequence that is not empty the last element stays.
LEMMA PruneKeeps ==
    ASSUME NEW S, NEW b \in Seq(S)
    PROVE  /\ Prune(b) \in Seq(S)
           /\ b # <<>> => Prune(b) # <<>> /\ Prune(b)[Len(Prune(b))] = b[Len(b)]
  <1> DEFINE p == SubSeq(b, Len(b) - MaxKeep + 1, Len(b))
  <1>1. CASE Len(b) <= MaxKeep
    BY <1>1 DEF Prune
  <1>2. CASE ~(Len(b) <= MaxKeep)
    <2>1. MaxKeep \in Nat \ {0} /\ Len(b) \in Nat
      BY ConfigAssumption
    <2>2. Prune(b) = p /\ Len(b) - MaxKeep + 1 \in 1 .. Len(b)
      BY <1>2, <2>1 DEF Prune
    <2>3. p \in Seq(S) /\ Len(p) = MaxKeep /\ p[MaxKeep] = b[Len(b)]
      <3> DEFINE m == Len(b) - MaxKeep + 1
                 n == Len(b)
      <3>1. m \in Int /\ n \in Int /\ m <= n /\ n - m + 1 = MaxKeep /\ m + MaxKeep - 1 = n
            /\ MaxKeep \in 1 .. MaxKeep
        BY <1>2, <2>1
      <3>2. \A i \in m .. n : b[i] \in S
        BY <1>2, <2>1
      <3> HIDE DEF m, n
      <3>3. /\ SubSeq(b, m, n) \in Seq(S)
            /\ Len(SubSeq(b, m, n)) = IF m <= n THEN n - m + 1 ELSE 0
            /\ \A i \in 1 .. n - m + 1 : SubSeq(b, m, n)[i] = b[m + i - 1]
        BY <3>1, <3>2, SubSeqProperties
      <3>4. SubSeq(b, m, n) \in Seq(S) /\ Len(SubSeq(b, m, n)) = MaxKeep
            /\ SubSeq(b, m, n)[MaxKeep] = b[n]
        BY <3>1, <3>3
      <3> QED BY ONLY <3>4, Zenon DEF m, n
    <2> HIDE DEF p
    <2>4. p # <<>>
      BY <2>1, <2>3
    <2> QED BY <2>2, <2>3, <2>4
  <1> QED BY <1>1, <1>2

LEMMA SeqRange ==
    ASSUME NEW S, NEW b \in Seq(S)
    PROVE  b \in Seq(Range(b)) /\ (b # <<>> => b[Len(b)] \in Range(b))
  BY DEF Range

LEMMA CopyInit == Init => Copy
  BY SeqRange DEF Init, Copy

LEMMA CopyNext == IInv /\ Copy /\ [Next]_vars => Copy'
  <1> SUFFICES ASSUME IInv, Copy, [Next]_vars PROVE Copy'
    OBVIOUS
  <1>1. CASE Backup
    <2>1. disk' = disk
      BY <1>1 DEF Backup
    <2>2. CASE bak' = Prune(Append(bak, disk))
      <3> DEFINE b == Append(bak, disk)
                 S == Range(bak) \cup {disk}
      <3>1. b \in Seq(S) /\ b # <<>> /\ b[Len(b)] = disk
        BY DEF Copy
      <3> HIDE DEF b, S
      <3>2. bak' \in Seq(S) /\ bak' # <<>> /\ bak'[Len(bak')] = disk
        BY <2>2, <3>1, PruneKeeps DEF b
      <3> QED BY <2>1, <3>2, SeqRange DEF Copy
    <2>3. CASE bak' = Prune(bak) /\ copied' = FALSE
      <3>1. bak' \in Seq(Range(bak))
        BY <2>3, PruneKeeps DEF Copy
      <3> QED BY <2>3, <3>1, SeqRange DEF Copy
    <2> QED BY <1>1, <2>2, <2>3 DEF Backup
  <1>2. CASE ~Backup
    <2>1. bak' = bak
      BY <1>2 DEF Next, Request, ReplaceConfig, AddRole, DeleteRole, AddMapping, UpdateMapping,
                  DeleteMapping, AddService, UpdateService, DeleteService, Mutate,
                  WriteTemp, Rename, Rollback, Crash, Start, vars
    <2>2. pc' \in {"write", "rename"} => pc \in {"write", "rename"} /\ UNCHANGED <<disk, copied>>
      BY <1>2 DEF Next, Request, ReplaceConfig, AddRole, DeleteRole, AddMapping, UpdateMapping,
                  DeleteMapping, AddService, UpdateService, DeleteService, Mutate,
                  WriteTemp, Rename, Rollback, Crash, Start, vars
    <2> QED BY <2>1, <2>2 DEF Copy, Range
  <1> QED BY <1>1, <1>2

\* The file that a save replaces is among the backups, unless copying it has
\* failed, and so it stays when the backups are pruned (BackedUp).
THEOREM BackupCorrect == Spec => BackedUp
  <1>1. IInv /\ Copy /\ [Next]_vars => [disk' # disk => ~copied \/ disk \in Range(bak)]_vars
    <2> SUFFICES ASSUME Copy, Next, disk' # disk PROVE ~copied \/ disk \in Range(bak)
      BY DEF vars
    <2>1. pc = "rename"
      BY DEF Next, Request, ReplaceConfig, AddRole, DeleteRole, AddMapping, UpdateMapping,
             DeleteMapping, AddService, UpdateService, DeleteService, Mutate,
             Backup, WriteTemp, Rename, Rollback, Crash, Start
    <2> QED BY <2>1 DEF Copy
  <1> QED BY <1>1, Inductive, CopyInit, CopyNext, PTL DEF Spec, BackedUp

-----------------------------------------------------------------------------
\* The configuration in memory loads, be it that of a process that has ended.
LEMMA MemoryLoads == Spec => []Loads(cfg)
  <1>1. Init => Loads(cfg)
    BY DEF Init
  <1>2. IInv /\ Loads(cfg) /\ [Next]_vars => Loads(cfg)'
    <2> SUFFICES ASSUME IInv, Loads(cfg), [Next]_vars PROVE Loads(cfg)'
      OBVIOUS
    <2>1. IInv'
      BY StepKeeps
    <2>2. up' \/ cfg' = cfg
      BY DEF Next, Request, ReplaceConfig, AddRole, DeleteRole, AddMapping, UpdateMapping,
             DeleteMapping, AddService, UpdateService, DeleteService, Mutate,
             Backup, WriteTemp, Rename, Rollback, Crash, Start, vars, IInv, Saving
    <2>3. CASE up'
      BY <2>1, <2>3 DEF IInv, ConfigLoads
    <2>4. CASE cfg' = cfg
      BY <2>4
    <2> QED BY <2>2, <2>3, <2>4
  <1> QED BY <1>1, <1>2, Inductive, PTL DEF Spec

\* The reference by id is to the one mapping that has it.
LEMMA ResolveId ==
    ASSUME NEW ms, MappingsOK(ms), NEW i \in DOMAIN ms,
           NEW ch, \E m \in ToSet(ms) : m.id = ch
    PROVE  Resolve(ms, ch) = i <=> ms[i].id = ch
  <1> DEFINE byId == {k \in DOMAIN ms : ms[k].id = ch}
  <1>1. PICK k \in DOMAIN ms : ms[k].id = ch
    BY DEF ToSet
  <1>2. \A j \in DOMAIN ms : ms[j].id = ch => j = k
    BY <1>1 DEF MappingsOK, Distinct
  <1>3. byId = {k}
    BY <1>1, <1>2
  <1>4. Resolve(ms, ch) = CHOOSE j \in byId : \A l \in byId \ {j} : j < l
    BY <1>3 DEF Resolve
  <1> HIDE DEF byId
  <1>5. Resolve(ms, ch) = k
    BY <1>3, <1>4
  <1> QED BY <1>1, <1>2, <1>5

\* Mappings with one id have the roles of one set of services.
LEMMA RolesById ==
    ASSUME NEW c, NEW d, Loads(c), Loads(d), c.services = d.services, AllById(c), AllById(d),
           NEW i \in DOMAIN c.mappings, NEW j \in DOMAIN d.mappings,
           c.mappings[i].id = d.mappings[j].id
    PROVE  RouteRoles(d, j) = RouteRoles(c, i)
  <1>1. MappingsOK(c.mappings) /\ MappingsOK(d.mappings)
    BY DEF Loads, RouterBuilds
  <1>2. ASSUME NEW t \in ToSet(c.services), NEW ch \in t.channels
        PROVE  Resolve(c.mappings, ch) = i <=> Resolve(d.mappings, ch) = j
    <2>1. (\E m \in ToSet(c.mappings) : m.id = ch) /\ (\E m \in ToSet(d.mappings) : m.id = ch)
      BY DEF AllById, NamesMapping
    <2>2. Resolve(c.mappings, ch) = i <=> c.mappings[i].id = ch
      BY <1>1, <2>1, ResolveId
    <2>3. Resolve(d.mappings, ch) = j <=> d.mappings[j].id = ch
      BY <1>1, <2>1, ResolveId
    <2> QED BY <2>2, <2>3
  <1>3. {t \in ToSet(c.services) : \E ch \in t.channels : Resolve(c.mappings, ch) = i}
        = {t \in ToSet(d.services) : \E ch \in t.channels : Resolve(d.mappings, ch) = j}
    BY <1>2
  <1> QED BY <1>3 DEF RouteRoles

\* As long as services refer to mappings by id, no change, rollback or restart
\* that leaves the services alone moves their roles to another id
\* (RolesFollowId).
THEOREM RolesCorrect == Spec => RolesFollowId
  <1>1. Loads(cfg) /\ Loads(cfg)' =>
          [ cfg'.services = cfg.services /\ AllById(cfg) /\ AllById(cfg')
            => \A i \in DOMAIN cfg.mappings, j \in DOMAIN cfg'.mappings :
                  cfg.mappings[i].id = cfg'.mappings[j].id
                  => RouteRoles(cfg', j) = RouteRoles(cfg, i) ]_vars
    <2>1. ASSUME NEW c, NEW d, Loads(c), Loads(d)
          PROVE  d.services = c.services /\ AllById(c) /\ AllById(d)
                 => \A i \in DOMAIN c.mappings, j \in DOMAIN d.mappings :
                       c.mappings[i].id = d.mappings[j].id
                       => RouteRoles(d, j) = RouteRoles(c, i)
      BY <2>1, RolesById
    <2> QED BY <2>1
  <1> QED BY <1>1, MemoryLoads, PTL DEF RolesFollowId

-----------------------------------------------------------------------------
(* Requests to the gateway (GatewayRequest), over the same Routing.         *)

\* NewRouter merges roles into routes without letting more or fewer requests
\* pass than the services that name the mapping do (AccessIsByService).
THEOREM AccessCorrect == RequestSpec => []AccessIsByService
  <1>1. AccessIsByService
    <2> DEFINE o == Outcome
               i == o.route
               anonymous == AllowsNull(conf, i)
               allowed == certified /\ Allows(conf, i, have)
    <2>1. i # 0 => (o.status = "forwarded" <=> anonymous \/ allowed)
      BY DEF Outcome, Handle
    <2>2. anonymous \/ allowed <=>
            \E s \in ToSet(conf.services) :
               /\ \E ch \in s.channels : Resolve(conf.mappings, ch) = i
               /\ "null" \in s.roles \/ (certified /\ RolesMatch(s.roles, have))
      BY DEF AllowsNull, Allows, RouteRoles, RolesMatch
    <2> QED
      BY <2>1, <2>2 DEF AccessIsByService
  <1> QED
    BY <1>1, PTL

-----------------------------------------------------------------------------
(* Paths.  A recursive function is followed along its values; induction is  *)
(* by the smallest number that fails.                                       *)

\* The segments of paths. (The empty string is one; the provers do not know.)
Word == STRING \cup {""}

LEMMA SeqMonotone ==
  ASSUME NEW S, NEW T, S \subseteq T
  PROVE  Seq(S) \subseteq Seq(T)
  <1>1. ASSUME NEW s \in Seq(S) PROVE s \in Seq(T)
    <2>1. Len(s) \in Nat /\ \A i \in 1 .. Len(s) : s[i] \in T
      OBVIOUS
    <2>2. SubSeq(s, 1, Len(s)) = s
      BY SubSeqFull
    <2>3. SubSeq(s, 1, Len(s)) \in Seq(T)
      BY <2>1, SubSeqProperties
    <2> QED BY <2>2, <2>3
  <1> QED BY <1>1

LEMMA Single ==
  ASSUME NEW T, NEW x \in T
  PROVE  <<x>> \in Seq(T)
  OBVIOUS

LEMMA WordSeq == Seq(STRING) \subseteq Seq(Word) /\ <<"">> \in Seq(Word)
  <1>1. STRING \subseteq Word /\ "" \in Word
    BY DEF Word
  <1> QED BY <1>1, SeqMonotone, Single

LEMMA Least ==
  ASSUME NEW T, T \subseteq Nat, T # {}
  PROVE  \E n \in T : \A m \in T : n <= m
  <1> DEFINE R == OpToRel(<, Nat)
  <1>1. \E n \in T : \A m \in T : ~(<<m, n>> \in R)
    BY NatLessThanWellFounded, WFMin
  <1>2. \A m, n \in Nat : <<m, n>> \in R <=> m < n
    BY DEF OpToRel
  <1> HIDE DEF R
  <1>3. PICK n \in T : \A m \in T : ~(<<m, n>> \in R)
    BY <1>1
  <1>4. \A m \in T : ~(m < n)
    BY <1>2, <1>3
  <1> QED BY <1>3, <1>4

LEMMA Induct ==
  ASSUME NEW P, 0 \in P, \A n \in Nat : n \in P => n + 1 \in P
  PROVE  Nat \subseteq P
  <1> SUFFICES ASSUME Nat \ P # {} PROVE FALSE
    OBVIOUS
  <1>1. PICK n \in Nat \ P : \A m \in Nat \ P : n <= m
    BY Least
  <1>2. n - 1 \in Nat /\ n - 1 \in P /\ n = (n - 1) + 1
    BY <1>1
  <1> QED BY <1>1, <1>2

\* g starts at b and goes from g[i - 1] to g[i] by F[i].
Follows(g, b, F, n) == g[0] = b /\ \A i \in 1 .. n : g[i] = F[i][g[i - 1]]

\* There is such a g.
LEMMA FollowExists ==
  ASSUME NEW S, NEW b \in S, NEW N \in Nat, NEW F \in [1 .. N -> [S -> S]]
  PROVE  \E g \in [0 .. N -> S] : Follows(g, b, F, N)
  <1> DEFINE I(n) == n <= N => \E g \in [0 .. n -> S] : Follows(g, b, F, n)
             P == {n \in Nat : I(n)}
  <1>1. I(0)
    <2>1. [i \in 0 .. 0 |-> b] \in [0 .. 0 -> S] /\ Follows([i \in 0 .. 0 |-> b], b, F, 0)
      BY DEF Follows
    <2> QED BY <2>1
  <1>2. ASSUME NEW n \in Nat, I(n) PROVE I(n + 1)
    <2> SUFFICES ASSUME n + 1 <= N PROVE \E g \in [0 .. n + 1 -> S] : Follows(g, b, F, n + 1)
      OBVIOUS
    <2>1. PICK g \in [0 .. n -> S] : Follows(g, b, F, n)
      BY <1>2
    <2>2. n + 1 \in 1 .. N /\ g[n] \in S /\ F[n + 1][g[n]] \in S
      <3>1. n + 1 \in 1 .. N /\ g[n] \in S
        BY <2>1
      <3>2. F[n + 1] \in [S -> S]
        BY <3>1
      <3> QED BY <3>1, <3>2
    <2> DEFINE h == [i \in 0 .. n + 1 |-> IF i <= n THEN g[i] ELSE F[n + 1][g[n]]]
    <2>3. h \in [0 .. n + 1 -> S]
      <3>1. \A i \in 0 .. n + 1 : h[i] \in S
        BY <2>1, <2>2
      <3> QED BY <3>1
    <2>4. /\ \A i \in 0 .. n : h[i] = g[i]
          /\ h[n + 1] = F[n + 1][g[n]]
      OBVIOUS
    <2> HIDE DEF h
    <2>5. h[0] = b
      BY <2>1, <2>4 DEF Follows
    <2>6. ASSUME NEW i \in 1 .. n + 1 PROVE h[i] = F[i][h[i - 1]]
      <3>1. CASE i <= n
        <4>1. i \in 1 .. n /\ i \in 0 .. n /\ i - 1 \in 0 .. n
          BY <3>1
        <4>2. g[i] = F[i][g[i - 1]]
          BY <2>1, <4>1 DEF Follows
        <4> QED BY <2>4, <4>1, <4>2
      <3>2. CASE ~(i <= n)
        <4>1. i = n + 1 /\ i - 1 = n /\ n \in 0 .. n
          BY <3>2
        <4> QED BY <2>4, <4>1
      <3> QED BY <3>1, <3>2
    <2> QED BY <2>3, <2>5, <2>6 DEF Follows
  <1> HIDE DEF I
  <1>3. Nat \subseteq P
    <2>1. 0 \in P /\ \A n \in Nat : n \in P => n + 1 \in P
      BY <1>1, <1>2
    <2> HIDE DEF P
    <2> QED BY <2>1, Induct
  <1>4. I(N)
    BY <1>3
  <1> QED BY <1>4 DEF I

\* Along p, g has what the loop of CleanDotSegments has in out.
Loop(g, p, n) == g[0] = <<>> /\ \A i \in 1 .. n : g[i] = Push(g[i - 1], p[i])

\* No dots.
Dotless(p) == \A k \in 1 .. Len(p) : p[k] \notin {".", ".."}

LEMMA PushIs ==
  ASSUME NEW out \in Seq(Word), NEW seg \in Word
  PROVE  /\ Push(out, seg) \in Seq(Word)
         /\ Dotless(out) => Dotless(Push(out, seg))
         /\ seg \notin {".", ".."} => Push(out, seg) = Append(out, seg)
         /\ seg = "." => Push(out, seg) = out
         /\ seg = ".." /\ out = <<>> => Push(out, seg) = <<>>
         /\ seg = ".." /\ out # <<>> => Push(out, seg) = Front(out)
         /\ out # <<>> => /\ Front(out) \in Seq(Word) /\ Len(Front(out)) = Len(out) - 1
                         /\ Len(out) > 0 /\ \A i \in 1 .. Len(out) - 1 : Front(out)[i] = out[i]
  <1>1. /\ seg \notin {".", ".."} => Push(out, seg) = Append(out, seg)
        /\ seg = "." => Push(out, seg) = out
        /\ seg = ".." /\ out = <<>> => Push(out, seg) = <<>>
        /\ seg = ".." /\ out # <<>> => Push(out, seg) = Front(out)
    BY DEF Push
  <1>2. out # <<>> => /\ Front(out) \in Seq(Word) /\ Len(Front(out)) = Len(out) - 1
                     /\ Len(out) > 0 /\ \A i \in 1 .. Len(out) - 1 : Front(out)[i] = out[i]
    <2> SUFFICES ASSUME out # <<>>
                 PROVE  /\ Front(out) \in Seq(Word) /\ Len(Front(out)) = Len(out) - 1
                        /\ Len(out) > 0 /\ \A i \in 1 .. Len(out) - 1 : Front(out)[i] = out[i]
      OBVIOUS
    <2>1. Len(out) \in Nat /\ Len(out) > 0
      OBVIOUS
    <2>2. \A i \in 1 .. Len(out) - 1 : out[i] \in Word
      OBVIOUS
    <2>3. /\ SubSeq(out, 1, Len(out) - 1) \in Seq(Word)
          /\ Len(SubSeq(out, 1, Len(out) - 1)) = Len(out) - 1
          /\ \A i \in 1 .. Len(out) - 1 : SubSeq(out, 1, Len(out) - 1)[i] = out[i]
      <3> DEFINE n == Len(out) - 1
                 f == SubSeq(out, 1, n)
      <3>1. n \in Nat
        BY <2>1
      <3>2. \A i \in 1 .. n : out[i] \in Word
        BY <2>2
      <3> HIDE DEF n
      <3>3. /\ f \in Seq(Word) /\ Len(f) = (IF 1 <= n THEN n - 1 + 1 ELSE 0)
            /\ \A i \in 1 .. n - 1 + 1 : f[i] = out[1 + i - 1]
        BY <3>1, <3>2, SubSeqProperties
      <3> HIDE DEF f
      <3>4. f \in Seq(Word) /\ Len(f) = n /\ \A i \in 1 .. n : f[i] = out[i]
        BY <3>1, <3>3
      <3> QED BY <3>4 DEF f, n
    <2> QED BY <2>1, <2>3 DEF Front
  <1>3. /\ Append(out, seg) \in Seq(Word) /\ Len(Append(out, seg)) = Len(out) + 1
        /\ \A i \in 1 .. Len(out) : Append(out, seg)[i] = out[i]
        /\ Append(out, seg)[Len(out) + 1] = seg
        /\ Len(out) \in Nat
    OBVIOUS
  <1>4. CASE seg \notin {".", ".."}
    <2>1. Dotless(out) => Dotless(Append(out, seg))
      BY <1>3, <1>4 DEF Dotless
    <2> QED BY <1>1, <1>2, <1>3, <1>4, <2>1
  <1>5. CASE seg = "."
    BY <1>1, <1>2, <1>5
  <1>6. CASE seg = ".." /\ out = <<>>
    BY <1>1, <1>2, <1>6
  <1>7. CASE seg = ".." /\ out # <<>>
    <2>1. Dotless(out) => Dotless(Front(out))
      BY <1>2, <1>3, <1>7 DEF Dotless
    <2> QED BY <1>1, <1>2, <1>7, <2>1
  <1> QED BY <1>4, <1>5, <1>6, <1>7

\* What CleanDotSegments keeps is the last value of the loop, and it has no dots.
LEMMA UndottedIs ==
  ASSUME NEW p \in Seq(Word)
  PROVE  \E g : /\ Loop(g, p, Len(p)) /\ Undotted(p) = g[Len(p)]
                /\ \A i \in 0 .. Len(p) : g[i] \in Seq(Word) /\ Dotless(g[i])
  <1> DEFINE n == Len(p)
             S == {s \in Seq(Word) : Dotless(s)}
             F == [i \in 1 .. n |-> [s \in S |-> Push(s, p[i])]]
             Q(g) == g = [i \in 0 .. n |-> IF i = 0 THEN <<>> ELSE Push(g[i - 1], p[i])]
             c == CHOOSE g : Q(g)
  <1>1. n \in Nat /\ \A i \in 1 .. n : p[i] \in Word
    OBVIOUS
  <1>2. Undotted(p) = c[n]
    BY DEF Undotted
  <1>3. <<>> \in S
    BY DEF Dotless
  <1> HIDE DEF n
  <1>4. F \in [1 .. n -> [S -> S]]
    <2>1. \A i \in 1 .. n, s \in S : Push(s, p[i]) \in S
      BY <1>1, PushIs
    <2> HIDE DEF S
    <2> QED BY <2>1
  <1>5. PICK g \in [0 .. n -> S] : Follows(g, <<>>, F, n)
    <2> HIDE DEF F, S
    <2> QED BY <1>1, <1>3, <1>4, FollowExists
  <1>6. g[0] = <<>> /\ \A i \in 1 .. n : g[i] = Push(g[i - 1], p[i])
    <2>1. \A i \in 1 .. n : g[i - 1] \in S
      <3>1. \A i \in 1 .. n : i - 1 \in 0 .. n
        BY <1>1
      <3> HIDE DEF S
      <3> QED BY <1>5, <3>1
    <2> HIDE DEF S
    <2>2. \A i \in 1 .. n : F[i][g[i - 1]] = Push(g[i - 1], p[i])
      BY <2>1
    <2> HIDE DEF F
    <2> QED BY <1>5, <2>2 DEF Follows
  <1>7. Q(g)
    <2>1. g = [i \in 0 .. n |-> g[i]]
      BY <1>5
    <2>2. \A i \in 0 .. n : g[i] = IF i = 0 THEN <<>> ELSE Push(g[i - 1], p[i])
      BY <1>1, <1>6
    <2> QED BY <2>1, <2>2
  <1>8. Q(c)
    <2> HIDE DEF Q
    <2> QED BY <1>7
  <1>9. Loop(c, p, n)
    <2> HIDE DEF c
    <2>1. \A i \in 0 .. n : c[i] = IF i = 0 THEN <<>> ELSE Push(c[i - 1], p[i])
      BY <1>8
    <2>2. 0 \in 0 .. n /\ \A i \in 1 .. n : i \in 0 .. n /\ i # 0
      BY <1>1
    <2> HIDE DEF Q
    <2>3. c[0] = <<>>
      BY <2>1, <2>2
    <2>4. \A i \in 1 .. n : c[i] = Push(c[i - 1], p[i])
      BY <2>1, <2>2
    <2> QED BY <2>3, <2>4 DEF Loop
  <1> HIDE DEF c, Q
  <1> DEFINE I(i) == i \in 0 .. n => c[i] \in S
             P == {i \in Nat : I(i)}
  <1>10. I(0)
    BY <1>3, <1>9 DEF Loop
  <1>11. ASSUME NEW i \in Nat, I(i) PROVE I(i + 1)
    <2> SUFFICES ASSUME i + 1 \in 0 .. n PROVE c[i + 1] \in S
      OBVIOUS
    <2>1. i \in 0 .. n /\ i + 1 \in 1 .. n /\ (i + 1) - 1 = i
      BY <1>1
    <2>2. c[i] \in S /\ p[i + 1] \in Word
      BY <1>1, <1>11, <2>1
    <2>3. c[i + 1] = Push(c[i], p[i + 1])
      BY <1>9, <2>1 DEF Loop
    <2> QED BY <2>2, <2>3, PushIs
  <1> HIDE DEF I
  <1>12. Nat \subseteq P
    <2>1. 0 \in P /\ \A i \in Nat : i \in P => i + 1 \in P
      BY <1>10, <1>11
    <2> HIDE DEF P
    <2> QED BY <2>1, Induct
  <1>13. \A i \in 0 .. n : c[i] \in S
    BY <1>1, <1>12 DEF I
  <1> QED BY <1>2, <1>9, <1>13 DEF n


LEMMA UndottedSeq ==
  ASSUME NEW p \in Seq(Word)
  PROVE  Undotted(p) \in Seq(Word) /\ Dotless(Undotted(p))
  <1>1. Len(p) \in 0 .. Len(p)
    OBVIOUS
  <1> QED BY <1>1, UndottedIs

\* The loop has one run over the same segments.
LEMMA LoopsAgree ==
  ASSUME NEW m \in Nat, NEW g, NEW h, NEW p, NEW q,
         Loop(g, p, m), Loop(h, q, m), \A i \in 1 .. m : p[i] = q[i]
  PROVE  g[m] = h[m]
  <1> DEFINE I(n) == n <= m => g[n] = h[n]
             P == {n \in Nat : I(n)}
  <1>1. I(0)
    BY DEF Loop
  <1>2. ASSUME NEW n \in Nat, I(n) PROVE I(n + 1)
    <2> SUFFICES ASSUME n + 1 <= m PROVE g[n + 1] = h[n + 1]
      OBVIOUS
    <2>1. n + 1 \in 1 .. m /\ (n + 1) - 1 = n /\ g[n] = h[n]
      BY <1>2
    <2>2. g[n + 1] = Push(g[n], p[n + 1]) /\ h[n + 1] = Push(h[n], q[n + 1])
      BY <2>1 DEF Loop
    <2> QED BY <2>1, <2>2
  <1> HIDE DEF I
  <1>3. Nat \subseteq P
    <2>1. 0 \in P /\ \A n \in Nat : n \in P => n + 1 \in P
      BY <1>1, <1>2
    <2> HIDE DEF P
    <2> QED BY <2>1, Induct
  <1>4. I(m)
    BY <1>3
  <1> QED BY <1>4 DEF I

\* Segments without dots are kept as they are.
LEMMA UndottedConcat ==
  ASSUME NEW p \in Seq(Word), NEW q \in Seq(Word), Dotless(q)
  PROVE  Undotted(p \o q) = Undotted(p) \o q
  <1> DEFINE u == p \o q
             m == Len(p)
             n == Len(q)
  <1>1. /\ u \in Seq(Word) /\ m \in Nat /\ n \in Nat /\ Len(u) = m + n
        /\ \A i \in 1 .. m : u[i] = p[i]
    OBVIOUS
  <1>2. \A i \in 1 .. n : u[m + i] = q[i] /\ q[i] \in Word /\ q[i] \notin {".", ".."}
    <2>1. \A i \in 1 .. n : u[m + i] = q[i] /\ q[i] \in Word
      OBVIOUS
    <2> QED BY <2>1 DEF Dotless
  <1>3. PICK g : Loop(g, p, m) /\ Undotted(p) = g[m] /\ g[m] \in Seq(Word)
    <2>1. m \in 0 .. m
      BY <1>1
    <2> QED BY <2>1, UndottedIs
  <1> HIDE DEF u
  <1>4. PICK h : Loop(h, u, m + n) /\ Undotted(u) = h[m + n]
    BY <1>1, UndottedIs
  <1> HIDE DEF m, n
  <1>5. h[m] = g[m]
    <2>1. Loop(h, u, m)
      <3>1. \A i \in 1 .. m : i \in 1 .. m + n
        BY <1>1
      <3> QED BY <1>4, <3>1 DEF Loop
    <2> QED BY <1>1, <1>3, <2>1, LoopsAgree
  <1> DEFINE r == g[m]
             I(i) == i <= n => h[m + i] = r \o SubSeq(q, 1, i)
             P == {i \in Nat : I(i)}
  <1>6. r \in Seq(Word) /\ q \in Seq(Word)
    BY <1>3
  <1>7. I(0)
    <2>1. SubSeq(q, 1, 0) = <<>>
      BY SubSeqEmpty
    <2>2. r \o <<>> = r
      BY <1>6
    <2>3. m + 0 = m
      BY <1>1
    <2> HIDE DEF r
    <2> QED BY <1>5, <2>1, <2>2, <2>3 DEF r
  <1>8. ASSUME NEW i \in Nat, I(i) PROVE I(i + 1)
    <2> SUFFICES ASSUME i + 1 <= n PROVE h[m + (i + 1)] = r \o SubSeq(q, 1, i + 1)
      OBVIOUS
    <2>1. i + 1 \in 1 .. n /\ m + (i + 1) \in 1 .. m + n /\ (m + (i + 1)) - 1 = m + i
      BY <1>1
    <2>2. h[m + i] = r \o SubSeq(q, 1, i)
      <3>1. i <= n
        BY <1>1
      <3> HIDE DEF r
      <3> QED BY <1>8, <3>1
    <2>3. u[m + (i + 1)] = q[i + 1] /\ q[i + 1] \in Word /\ q[i + 1] \notin {".", ".."}
      BY <1>2, <2>1
    <2>4. h[m + (i + 1)] = Push(h[m + i], q[i + 1])
      <3> DEFINE k == m + (i + 1)
      <3>1. k \in 1 .. m + n /\ k - 1 = m + i
        BY <2>1
      <3> HIDE DEF k
      <3>2. h[k] = Push(h[k - 1], u[k])
        BY <1>4, <3>1 DEF Loop
      <3> QED BY <2>3, <3>1, <3>2 DEF k
    <2>5. SubSeq(q, 1, i) \in Seq(Word) /\ SubSeq(q, 1, i + 1) = Append(SubSeq(q, 1, i), q[i + 1])
      <3>1. SubSeq(q, 1, i + 1) = SubSeq(q, 1, (i + 1) - 1) \o <<q[i + 1]>>
        <4>1. 1 \in 1 .. Len(q) /\ i + 1 \in 1 .. Len(q)
          BY <1>1, <2>1 DEF n
        <4> QED BY <1>6, <4>1, SubSeqRecursiveSecond
      <3>2. SubSeq(q, 1, i) \in Seq(Word)
        <4>1. \A j \in 1 .. i : q[j] \in Word
          BY <1>1, <1>2, <2>1
        <4> QED BY <4>1, SubSeqProperties
      <3> DEFINE t == SubSeq(q, 1, i)
      <3>3. SubSeq(q, 1, i + 1) = t \o <<q[i + 1]>>
        BY <3>1
      <3>4. t \in Seq(Word)
        BY <3>2
      <3> HIDE DEF t
      <3>5. t \o <<q[i + 1]>> = Append(t, q[i + 1])
        BY <2>3, <3>4
      <3> QED BY <3>3, <3>4, <3>5 DEF t
    <2> DEFINE s == SubSeq(q, 1, i)
               x == q[i + 1]
    <2>6. s \in Seq(Word) /\ x \in Word /\ x \notin {".", ".."}
      BY <2>3, <2>5
    <2>7. h[m + i] = r \o s /\ SubSeq(q, 1, i + 1) = Append(s, x) /\ h[m + (i + 1)] = Push(h[m + i], x)
      BY <2>2, <2>4, <2>5
    <2> HIDE DEF s, x, r
    <2>8. r \o s \in Seq(Word) /\ Append(r \o s, x) = r \o Append(s, x)
      <3>1. r \o s \in Seq(Word) /\ <<x>> \in Seq(Word)
        BY <1>6, <2>6
      <3>2. Append(r \o s, x) = (r \o s) \o <<x>> /\ Append(s, x) = s \o <<x>>
        BY <2>6, <3>1, AppendIsConcat
      <3>3. (r \o s) \o <<x>> = r \o (s \o <<x>>)
        BY <1>6, <2>6, <3>1, ConcatAssociative
      <3> QED BY <3>1, <3>2, <3>3
    <2>9. Push(r \o s, x) = Append(r \o s, x)
      BY <2>6, <2>8, PushIs
    <2> QED BY <2>7, <2>8, <2>9
  <1> HIDE DEF I
  <1>9. Nat \subseteq P
    <2>1. 0 \in P /\ \A i \in Nat : i \in P => i + 1 \in P
      BY <1>7, <1>8
    <2> HIDE DEF P
    <2> QED BY <2>1, Induct
  <1>10. I(n)
    BY <1>1, <1>9
  <1>11. SubSeq(q, 1, n) = q
    BY SubSeqFull DEF n
  <1>12. h[m + n] = r \o SubSeq(q, 1, n)
    <2>1. n <= n
      BY <1>1
    <2> HIDE DEF r
    <2> QED BY <1>10, <2>1 DEF I
  <1> QED BY <1>3, <1>4, <1>11, <1>12 DEF u

\* A path without dots is its own canonical form.
LEMMA UndottedSame ==
  ASSUME NEW p \in Seq(Word), Dotless(p)
  PROVE  Undotted(p) = p
  <1>1. Undotted(<<>>) = <<>>
    <2>1. <<>> \in Seq(Word) /\ Len(<<>>) = 0
      OBVIOUS
    <2>2. PICK g : Loop(g, <<>>, 0) /\ Undotted(<<>>) = g[0]
      BY <2>1, UndottedIs
    <2> QED BY <2>2 DEF Loop
  <1>2. <<>> \in Seq(Word) /\ <<>> \o p = p
    OBVIOUS
  <1>3. Undotted(<<>> \o p) = Undotted(<<>>) \o p
    BY <1>2, UndottedConcat
  <1> QED BY <1>1, <1>2, <1>3


LEMMA RootIs == <<"">> \in Seq(Word) /\ <<"">> # <<>> /\ Dotless(<<"">>)
  <1>1. <<"">> \in Seq(Word) /\ <<"">> # <<>> /\ Len(<<"">>) = 1 /\ <<"">>[1] = ""
    BY WordSeq
  <1>2. \A k \in 1 .. 1 : k = 1
    OBVIOUS
  <1>3. "" # "." /\ "" # ".."
    OBVIOUS
  <1> QED BY <1>1, <1>2, <1>3 DEF Dotless

LEMMA CleanIs ==
  ASSUME NEW p \in Seq(Word)
  PROVE  /\ CleanDotSegments(p) \in Seq(Word) /\ CleanDotSegments(p) # <<>>
         /\ Dotless(CleanDotSegments(p))
         /\ Undotted(p) # <<>> => CleanDotSegments(p) = Undotted(p)
  BY UndottedSeq, RootIs DEF CleanDotSegments

-----------------------------------------------------------------------------
(* Routes *)

EntryAt(c, i) == EntryOf[c.mappings[i].listen]

\* The routes a request matches.
Hits(c, q, p) ==
    {i \in DOMAIN c.mappings : EntryAt(c, i)[1] = q /\ MatchPath(p, EntryAt(c, i)[2])}

LEMMA EntryTyped ==
  ASSUME NEW c \in Setups, Loads(c), NEW i \in DOMAIN c.mappings
  PROVE  /\ i \in Nat \ {0} /\ i <= Len(c.mappings) /\ Len(c.mappings) \in Nat
         /\ EntryAt(c, i) = <<EntryAt(c, i)[1], EntryAt(c, i)[2]>>
         /\ EntryAt(c, i)[2] \in Seq(Word)
         /\ c.mappings[i].target \in Seq(Word)
  <1> DEFINE R == [id : STRING, listen : DOMAIN EntryOf, target : Seq(STRING)]
             ms == c.mappings
  <1>1. ms \in Seq(R)
    BY RequestAssumption DEF Typed
  <1>2. EntryAt(c, i) # NoEntry
    BY DEF Loads, RouterBuilds, MappingsOK, EntryAt
  <1> HIDE DEF ms, R
  <1>3. Len(ms) \in Nat /\ DOMAIN ms = 1 .. Len(ms) /\ i \in DOMAIN ms
    BY <1>1 DEF ms
  <1>4. ms[i] \in R /\ i \in 1 .. Len(ms)
    BY <1>1, <1>3
  <1>5. ms[i].listen \in DOMAIN EntryOf /\ ms[i].target \in Seq(STRING)
    BY <1>4 DEF R
  <1>6. /\ EntryAt(c, i) = <<EntryAt(c, i)[1], EntryAt(c, i)[2]>>
        /\ EntryAt(c, i)[2] \in Seq(STRING)
    BY <1>2, <1>5, RequestAssumption DEF Typed, EntryAt, ms
  <1>7. EntryAt(c, i)[2] \in Seq(Word) /\ ms[i].target \in Seq(Word)
    BY <1>5, <1>6, WordSeq
  <1>8. i \in Nat \ {0} /\ i <= Len(ms)
    BY <1>3, <1>4
  <1> QED BY <1>3, <1>6, <1>7, <1>8 DEF ms

LEMMA NotEmpty ==
  ASSUME NEW S, NEW s \in Seq(S), s # <<>>
  PROVE  Len(s) >= 1 /\ Len(s) \in Nat /\ DOMAIN s = 1 .. Len(s) /\ 1 \in DOMAIN s
  OBVIOUS

LEMMA PrefixSelf ==
  ASSUME NEW S, NEW s \in Seq(S)
  PROVE  IsPrefix(<<>>, s) /\ IsPrefix(s, s)
  <1>1. Len(s) \in Nat /\ Len(<<>>) = 0
    OBVIOUS
  <1>2. SubSeq(<<>>, 1, 0) = <<>> /\ SubSeq(s, 1, 0) = <<>>
    BY SubSeqEmpty
  <1> QED BY <1>1, <1>2 DEF IsPrefix

\* A prefix is not longer, and is the whole path if it is as long.
LEMMA PrefixIs ==
  ASSUME NEW s \in Seq(Word), NEW t \in Seq(Word), IsPrefix(s, t)
  PROVE  /\ Len(s) \in Nat /\ Len(t) \in Nat /\ Len(s) <= Len(t)
         /\ Len(t) <= Len(s) => s = t
  <1>1. /\ Len(s) \in Nat /\ Len(t) \in Nat /\ Len(s) <= Len(t)
        /\ SubSeq(s, 1, Len(s)) = SubSeq(t, 1, Len(s))
    BY DEF IsPrefix
  <1>2. SubSeq(s, 1, Len(s)) = s /\ SubSeq(t, 1, Len(t)) = t
    BY SubSeqFull
  <1> QED BY <1>1, <1>2

\* Match finds the longest of them.
LEMMA MatchIs ==
  ASSUME NEW c \in Setups, Loads(c), NEW q, NEW p \in Seq(Word), Hits(c, q, p) # {}
  PROVE  /\ Match(c, q, p) \in Hits(c, q, p)
         /\ \A j \in Hits(c, q, p) : Len(EntryAt(c, j)[2]) <= Len(EntryAt(c, Match(c, q, p))[2])
  <1> DEFINE H == Hits(c, q, p)
             L(i) == Len(EntryAt(c, i)[2])
             T == {Len(p) - L(i) : i \in H}
  <1>1. \A i \in H : L(i) \in Nat /\ Len(p) \in Nat /\ L(i) <= Len(p)
    <2> TAKE i \in H
    <2>1. i \in DOMAIN c.mappings /\ IsPrefix(EntryAt(c, i)[2], p)
      BY DEF Hits, MatchPath
    <2>2. EntryAt(c, i)[2] \in Seq(Word)
      BY <2>1, EntryTyped
    <2> QED BY <2>1, <2>2, PrefixIs
  <1> HIDE DEF H, L
  <1>2. H # {}
    BY DEF H
  <1>3. T \subseteq Nat /\ T # {}
    BY <1>1, <1>2
  <1>4. PICK n \in T : \A m \in T : n <= m
    BY <1>3, Least
  <1>5. PICK i \in H : n = Len(p) - L(i)
    BY <1>4
  <1>6. \A j \in H : L(j) <= L(i)
    <2> TAKE j \in H
    <2>1. n <= Len(p) - L(j)
      BY <1>4
    <2> QED BY <1>1, <1>5, <2>1
  <1> DEFINE m == CHOOSE k \in H : \A j \in H : L(j) <= L(k)
  <1>7. m \in H /\ \A j \in H : L(j) <= L(m)
    BY <1>5, <1>6
  <1>8. Match(c, q, p) = m
    BY <1>2 DEF Match, Hits, EntryAt, H, L
  <1> HIDE DEF m
  <1> QED BY <1>7, <1>8 DEF H, L

LEMMA NoMatch ==
  ASSUME NEW c, NEW q, NEW p, Hits(c, q, p) = {}
  PROVE  Match(c, q, p) = 0
  BY DEF Match, Hits, EntryAt

\* What a request is forwarded with: the target's path, and what the entry
\* leaves of the request's.
LEMMA SubstituteIs ==
  ASSUME NEW p \in Seq(Word), NEW a \in Seq(Word), NEW b \in Seq(Word), Dotless(p)
  PROVE  IsPrefix(Undotted(b), Substitute(p, a, b))
  <1> DEFINE r == SubSeq(p, Len(a) + 1, Len(p))
             t == IF r = <<>> THEN <<"">> ELSE r
  <1>1. r \in Seq(Word) /\ Dotless(r)
    <2> DEFINE m == Len(a) + 1
               n == Len(p)
    <2>1. m \in Nat \ {0} /\ n \in Nat /\ \A i \in m .. n : p[i] \in Word /\ p[i] \notin {".", ".."}
      BY DEF Dotless
    <2>2. r = SubSeq(p, m, n)
      OBVIOUS
    <2> HIDE DEF m, n, r
    <2>3. /\ r \in Seq(Word) /\ Len(r) = (IF m <= n THEN n - m + 1 ELSE 0)
          /\ \A i \in 1 .. n - m + 1 : r[i] = p[m + i - 1]
      BY <2>1, <2>2, SubSeqProperties
    <2>4. \A i \in 1 .. Len(r) : i \in 1 .. n - m + 1 /\ m + i - 1 \in m .. n
      BY <2>1, <2>3
    <2> QED BY <2>1, <2>3, <2>4 DEF Dotless
  <1>2. t \in Seq(Word) /\ Dotless(t) /\ t # <<>>
    <2> HIDE DEF r
    <2> QED BY <1>1, RootIs
  <1> DEFINE u == Undotted(b)
  <1>3. u \in Seq(Word) /\ Undotted(b \o t) = u \o t /\ b \o t \in Seq(Word)
    <2> HIDE DEF t
    <2>1. Undotted(b) \in Seq(Word)
      BY UndottedSeq
    <2>2. Undotted(b \o t) = Undotted(b) \o t
      BY <1>2, UndottedConcat
    <2>3. b \o t \in Seq(Word)
      BY <1>2
    <2> QED BY <2>1, <2>2, <2>3
  <1>4. Substitute(p, a, b) = CleanDotSegments(b \o t)
    BY DEF Substitute
  <1> HIDE DEF t, u
  <1>5. u \o t # <<>> /\ Len(u) \in Nat /\ Len(t) \in Nat /\ Len(u \o t) = Len(u) + Len(t)
    BY <1>2, <1>3
  <1>6. Substitute(p, a, b) = u \o t
    BY <1>3, <1>4, <1>5, CleanIs
  <1>7. SubSeq(u \o t, 1, Len(u)) = u /\ SubSeq(u, 1, Len(u)) = u
    BY <1>2, <1>3, SubSeqFull
  <1>8. IsPrefix(u, u \o t)
    BY <1>5, <1>7 DEF IsPrefix
  <1> QED BY <1>6, <1>8 DEF u

-----------------------------------------------------------------------------
(* Requests *)

\* The configuration loads and the path is one.
RequestInv == conf \in Setups /\ Loads(conf) /\ path \in Seq(Word)

LEMMA RequestTyped == RequestSpec => []RequestInv
  <1>1. RequestInit => RequestInv
    BY DEF RequestInit, RequestInv
  <1>2. RequestInv /\ [Extend]_request => RequestInv'
    <2>1. Segments \subseteq Word
      BY RequestAssumption DEF Typed, Word
    <2> QED BY <2>1 DEF RequestInv, Extend, request
  <1> QED BY <1>1, <1>2, PTL DEF RequestSpec

\* Whatever dots a client sends, and whatever dots are in targets, a request is
\* forwarded under the path of the target it was matched to (InsideTarget).
THEOREM InsideCorrect == RequestSpec => []InsideTarget
  <1>1. RequestInv => InsideTarget
    <2> SUFFICES ASSUME RequestInv, Outcome.status = "forwarded"
                 PROVE  IsPrefix(Undotted(Target(Outcome.route)), Outcome.path)
      BY DEF InsideTarget
    <2> DEFINE p == CleanDotSegments(path)
               i == Match(conf, port, p)
    <2>1. p \in Seq(Word) /\ Dotless(p)
      BY CleanIs DEF RequestInv
    <2>2. /\ i # 0 /\ Outcome.route = i
          /\ Outcome.path = Substitute(p, EntryAt(conf, i)[2], conf.mappings[i].target)
      BY DEF Outcome, Handle, EntryAt
    <2> HIDE DEF p
    <2>3. i \in DOMAIN conf.mappings
      <3>1. Hits(conf, port, p) # {}
        BY <2>2, NoMatch
      <3>2. i \in Hits(conf, port, p)
        BY <2>1, <3>1, MatchIs DEF RequestInv
      <3> QED BY <3>2 DEF Hits
    <2> HIDE DEF i
    <2>4. EntryAt(conf, i)[2] \in Seq(Word) /\ conf.mappings[i].target \in Seq(Word)
      BY <2>3, EntryTyped DEF RequestInv
    <2>5. IsPrefix(Undotted(conf.mappings[i].target),
                   Substitute(p, EntryAt(conf, i)[2], conf.mappings[i].target))
      BY <2>1, <2>4, SubstituteIs
    <2> QED BY <2>2, <2>5 DEF Target
  <1> QED BY <1>1, RequestTyped, PTL


LEMMA ResolveIn ==
  ASSUME NEW c \in Setups, Loads(c), NEW s \in ToSet(c.services), NEW ch \in s.channels
  PROVE  Resolve(c.mappings, ch) \in DOMAIN c.mappings
  <1> DEFINE ms == c.mappings
             byId == {i \in DOMAIN ms : ms[i].id = ch}
  <1>1. MappingsOK(ms) /\ Resolve(ms, ch) # 0
    BY DEF Loads, RouterBuilds, ServicesOK, ToSet
  <1>2. IndexOf[ch] \in Int
    <2> DEFINE R == [name : STRING, channels : SUBSET DOMAIN IndexOf, roles : SUBSET STRING]
    <2>1. c.services \in Seq(R)
      BY RequestAssumption DEF Typed
    <2> HIDE DEF R
    <2>2. s \in R
      BY <2>1 DEF ToSet
    <2> QED BY <2>2, RequestAssumption DEF R, Typed
  <1>3. Len(ms) \in Nat /\ DOMAIN ms = 1 .. Len(ms)
    BY RequestAssumption DEF Typed
  <1>4. CASE byId # {}
    <2>1. PICK k \in DOMAIN ms : ms[k].id = ch
      BY <1>4
    <2>2. Resolve(ms, ch) = k
      <3>1. \E m \in ToSet(ms) : m.id = ch
        BY <2>1 DEF ToSet
      <3> HIDE DEF ms
      <3> QED BY <1>1, <2>1, <3>1, ResolveId
    <2> QED BY <2>2
  <1>5. CASE byId = {}
    <2>1. IndexOf[ch] >= 0 /\ IndexOf[ch] < Len(ms) /\ Resolve(ms, ch) = IndexOf[ch] + 1
      BY <1>1, <1>5 DEF Resolve
    <2> QED BY <1>2, <1>3, <2>1
  <1> QED BY <1>4, <1>5

\* Among plain entries, the path of an entry is matched to that entry.
LEMMA EntryMatches ==
  ASSUME NEW c \in Setups, Loads(c), NEW i \in DOMAIN c.mappings,
         \A j \in DOMAIN c.mappings : Plain(EntryAt(c, j)),
         NEW p, p = IF EntryAt(c, i)[2] = <<>> THEN <<"">> ELSE EntryAt(c, i)[2]
  PROVE  CleanDotSegments(p) = p /\ Match(c, EntryAt(c, i)[1], p) = i
  <1> DEFINE e == EntryAt(c, i)
             q == e[1]
             H == Hits(c, q, p)
  <1>1. e[2] \in Seq(Word) /\ e = <<e[1], e[2]>> /\ i \in DOMAIN c.mappings
    BY EntryTyped
  <1>2. p \in Seq(Word) /\ p # <<>>
    BY <1>1, WordSeq
  <1>3. Dotless(p)
    <2>1. CASE e[2] = <<>>
      BY <2>1, RootIs
    <2>2. CASE e[2] # <<>>
      <3>1. p = e[2] /\ Plain(e) /\ DOMAIN p = 1 .. Len(p)
        BY <1>2, <2>2
      <3> HIDE DEF e
      <3> QED BY <3>1 DEF Plain, Dotless
    <2> QED BY <2>1, <2>2
  <1>4. Undotted(p) = p /\ CleanDotSegments(p) = p
    <2>1. Undotted(p) = p
      BY <1>2, <1>3, UndottedSame
    <2> QED BY <1>2, <2>1, CleanIs
  <1>5. IsPrefix(e[2], p)
    <2>1. CASE e[2] = <<>>
      <3> HIDE DEF e
      <3> QED BY <1>2, <2>1, PrefixSelf
    <2>2. CASE e[2] # <<>>
      <3>1. p = e[2]
        BY <2>2
      <3> HIDE DEF e
      <3> QED BY <1>1, <3>1, PrefixSelf
    <2> QED BY <2>1, <2>2
  <1>6. i \in H
    BY <1>5 DEF Hits, MatchPath
  <1> DEFINE m == Match(c, q, p)
  <1>7. m \in H /\ Len(e[2]) <= Len(EntryAt(c, m)[2])
    <2>1. H # {}
      BY <1>6
    <2>2. Match(c, q, p) \in Hits(c, q, p)
          /\ \A j \in Hits(c, q, p) : Len(EntryAt(c, j)[2]) <= Len(EntryAt(c, Match(c, q, p))[2])
      <3> HIDE DEF q
      <3> QED BY <1>2, <2>1, MatchIs
    <2> QED BY <1>6, <2>2
  <1> HIDE DEF m
  <1> DEFINE f == EntryAt(c, m)
  <1>8. m \in DOMAIN c.mappings /\ f[1] = q /\ IsPrefix(f[2], p)
    BY <1>7 DEF Hits, MatchPath
  <1>9. f[2] \in Seq(Word) /\ f = <<f[1], f[2]>> /\ Plain(f)
    BY <1>8, EntryTyped
  <1>10. Len(f[2]) \in Nat /\ Len(f[2]) <= Len(p) /\ (Len(p) <= Len(f[2]) => f[2] = p)
    <2> HIDE DEF f
    <2> QED BY <1>2, <1>8, <1>9, PrefixIs
  <1>11. f[2] = e[2]
    <2>1. CASE e[2] = <<>>
      <3>1. p = <<"">> /\ Len(p) = 1 /\ p[1] = ""
        BY <2>1
      <3>2. CASE f[2] = <<>>
        BY <2>1, <3>2
      <3>3. CASE f[2] # <<>>
        <4>1. Len(f[2]) >= 1
          <5> HIDE DEF f
          <5> QED BY <1>9, <3>3, NotEmpty
        <4>2. f[2] = p
          BY <1>10, <3>1, <4>1
        <4>3. 1 \in DOMAIN f[2] /\ f[2][1] = ""
          <5>1. 1 \in DOMAIN p
            BY <1>2, NotEmpty
          <5> QED BY <3>1, <4>2, <5>1
        <4> HIDE DEF f
        <4> QED BY <1>9, <4>3 DEF Plain
      <3> QED BY <3>2, <3>3
    <2>2. CASE e[2] # <<>>
      <3>1. p = e[2]
        BY <2>2
      <3> QED BY <1>7, <1>10, <3>1
    <2> QED BY <2>1, <2>2
  <1>12. f = e
    BY <1>1, <1>8, <1>9, <1>11
  <1>13. Distinct([k \in DOMAIN c.mappings |-> EntryAt(c, k)])
    BY DEF Loads, RouterBuilds, MappingsOK, EntryAt
  <1>14. m = i
    BY <1>8, <1>12, <1>13 DEF Distinct
  <1> QED BY <1>4, <1>14 DEF m

\* What /info lists for a certificate can be used with it (InfoUsable).
THEOREM InfoCorrect == RequestSpec => []InfoUsable
  <1>1. RequestInv => InfoUsable
    <2> SUFFICES ASSUME RequestInv,
                        \A i \in DOMAIN conf.mappings : Plain(Entry(i)),
                        NEW s \in ServicesAllowed(conf, have), NEW ch \in s.channels
                 PROVE  LET i == Resolve(conf.mappings, ch)
                            p == IF Entry(i)[2] = <<>> THEN <<"">> ELSE Entry(i)[2]
                            o == Handle(conf, Entry(i)[1], p, TRUE, have)
                        IN  o.status = "forwarded" /\ o.route = i
      BY DEF InfoUsable
    <2> DEFINE i == Resolve(conf.mappings, ch)
               p == IF Entry(i)[2] = <<>> THEN <<"">> ELSE Entry(i)[2]
               o == Handle(conf, Entry(i)[1], p, TRUE, have)
    <2>1. s \in ToSet(conf.services) /\ RolesMatch(s.roles, have)
      BY DEF ServicesAllowed
    <2>2. i \in DOMAIN conf.mappings /\ i # 0
      <3>1. i \in DOMAIN conf.mappings
        BY <2>1, ResolveIn DEF RequestInv
      <3> HIDE DEF i
      <3>2. i \in Nat \ {0}
        BY <3>1, EntryTyped DEF RequestInv
      <3> QED BY <3>1, <3>2
    <2>3. \A k : Entry(k) = EntryAt(conf, k)
      BY DEF Entry, EntryAt
    <2>4. Allows(conf, i, have)
      <3>1. s.roles \subseteq RouteRoles(conf, i)
        BY <2>1 DEF RouteRoles
      <3> HIDE DEF i
      <3> QED BY <2>1, <3>1 DEF Allows, RolesMatch
    <2> HIDE DEF i
    <2>5. CleanDotSegments(p) = p /\ Match(conf, Entry(i)[1], p) = i
      <3>1. /\ p = IF EntryAt(conf, i)[2] = <<>> THEN <<"">> ELSE EntryAt(conf, i)[2]
            /\ \A j \in DOMAIN conf.mappings : Plain(EntryAt(conf, j))
            /\ conf \in Setups /\ Loads(conf)
        BY <2>3 DEF RequestInv
      <3> HIDE DEF p
      <3>2. CleanDotSegments(p) = p /\ Match(conf, EntryAt(conf, i)[1], p) = i
        BY <2>2, <3>1, EntryMatches
      <3> QED BY <2>3, <3>2
    <2> HIDE DEF p
    <2>6. o.status = "forwarded" /\ o.route = i
      BY <2>2, <2>4, <2>5 DEF Handle
    <2> QED BY <2>6 DEF i, p
  <1> QED BY <1>1, RequestTyped, PTL


-----------------------------------------------------------------------------
(* CleanDotSegments against its reference *)

\* The height after one more segment.
Climb(h, seg) == CASE seg = ".." -> IF h = 0 THEN 0 ELSE h - 1
                   [] seg = "."  -> h
                   [] OTHER      -> h + 1

LEMMA ClimbIs ==
  ASSUME NEW h \in Nat, NEW seg
  PROVE  /\ Climb(h, seg) \in Nat
         /\ seg \notin {".", ".."} => Climb(h, seg) = h + 1
         /\ seg = "." => Climb(h, seg) = h
         /\ seg = ".." /\ h = 0 => Climb(h, seg) = 0
         /\ seg = ".." /\ h # 0 => Climb(h, seg) = h - 1
  <1>1. CASE seg \notin {".", ".."}
    BY <1>1 DEF Climb
  <1>2. CASE seg = "."
    BY <1>2 DEF Climb
  <1>3. CASE seg = ".."
    BY <1>3 DEF Climb
  <1> QED BY <1>1, <1>2, <1>3

LEMMA HeightIs ==
  ASSUME NEW p \in Seq(Word)
  PROVE  /\ \A i \in 0 .. Len(p) : Height(p)[i] \in Nat
         /\ Height(p)[0] = 0
         /\ \A i \in 1 .. Len(p) : Height(p)[i] = Climb(Height(p)[i - 1], p[i])
  <1> DEFINE n == Len(p)
             F == [i \in 1 .. n |-> [h \in Nat |-> Climb(h, p[i])]]
             Q(g) == g = [j \in 0 .. n |-> IF j = 0 THEN 0 ELSE Climb(g[j - 1], p[j])]
             c == CHOOSE g : Q(g)
  <1>1. n \in Nat
    OBVIOUS
  <1>2. Height(p) = c
    BY DEF Height, Climb
  <1> HIDE DEF n
  <1>3. F \in [1 .. n -> [Nat -> Nat]]
    <2>1. \A i \in 1 .. n, h \in Nat : Climb(h, p[i]) \in Nat
      BY ClimbIs
    <2> QED BY <2>1
  <1>4. PICK g \in [0 .. n -> Nat] : Follows(g, 0, F, n)
    <2> HIDE DEF F
    <2> QED BY <1>1, <1>3, FollowExists
  <1>5. g[0] = 0 /\ \A i \in 1 .. n : g[i] = Climb(g[i - 1], p[i])
    <2>1. \A i \in 1 .. n : g[i - 1] \in Nat
      <3>1. \A i \in 1 .. n : i - 1 \in 0 .. n
        BY <1>1
      <3> QED BY <1>4, <3>1
    <2>2. \A i \in 1 .. n : F[i][g[i - 1]] = Climb(g[i - 1], p[i])
      BY <2>1
    <2> HIDE DEF F
    <2> QED BY <1>4, <2>2 DEF Follows
  <1>6. Q(g)
    <2>1. g = [i \in 0 .. n |-> g[i]]
      BY <1>4
    <2>2. \A i \in 0 .. n : g[i] = IF i = 0 THEN 0 ELSE Climb(g[i - 1], p[i])
      BY <1>1, <1>5
    <2> QED BY <2>1, <2>2
  <1>7. Q(c)
    <2> HIDE DEF Q
    <2> QED BY <1>6
  <1>8. c[0] = 0 /\ \A i \in 1 .. n : c[i] = Climb(c[i - 1], p[i])
    <2> HIDE DEF c
    <2>1. \A i \in 0 .. n : c[i] = IF i = 0 THEN 0 ELSE Climb(c[i - 1], p[i])
      BY <1>7
    <2>2. 0 \in 0 .. n /\ \A i \in 1 .. n : i \in 0 .. n /\ i # 0
      BY <1>1
    <2> HIDE DEF Q
    <2>3. c[0] = 0
      BY <2>1, <2>2
    <2>4. \A i \in 1 .. n : c[i] = Climb(c[i - 1], p[i])
      BY <2>1, <2>2
    <2> QED BY <2>3, <2>4
  <1> HIDE DEF c, Q
  <1> DEFINE I(i) == i \in 0 .. n => c[i] \in Nat
             P == {i \in Nat : I(i)}
  <1>9. I(0)
    BY <1>8
  <1>10. ASSUME NEW i \in Nat, I(i) PROVE I(i + 1)
    <2> SUFFICES ASSUME i + 1 \in 0 .. n PROVE c[i + 1] \in Nat
      OBVIOUS
    <2>1. i \in 0 .. n /\ i + 1 \in 1 .. n /\ (i + 1) - 1 = i
      BY <1>1
    <2>2. c[i] \in Nat
      BY <1>10, <2>1
    <2>3. c[i + 1] = Climb(c[i], p[i + 1])
      BY <1>8, <2>1
    <2> QED BY <2>2, <2>3, ClimbIs
  <1> HIDE DEF I
  <1>11. Nat \subseteq P
    <2>1. 0 \in P /\ \A i \in Nat : i \in P => i + 1 \in P
      BY <1>9, <1>10
    <2> HIDE DEF P
    <2> QED BY <2>1, Induct
  <1>12. \A i \in 0 .. n : c[i] \in Nat
    BY <1>1, <1>11 DEF I
  <1> QED BY <1>2, <1>8, <1>12 DEF n

\* The segments of the first m that are still there after them.
Alive(h, p, m) == {k \in 1 .. m : p[k] \notin {".", ".."} /\ \A j \in k .. m : h[j] >= h[k]}

\* After m segments, the loop has one segment at each height, and it is alive.
Matched(h, g, p, m) ==
    /\ Len(g[m]) = h[m]
    /\ \A n \in 1 .. h[m] : \E k \in Alive(h, p, m) : h[k] = n /\ p[k] = g[m][n]

LEMMA MatchedNext ==
  ASSUME NEW p \in Seq(Word), NEW h, NEW g, NEW m \in Nat, m + 1 <= Len(p),
         h[m] \in Nat, h[m + 1] = Climb(h[m], p[m + 1]),
         \A i \in 0 .. m : h[i] \in Nat,
         g[m] \in Seq(Word), g[m + 1] = Push(g[m], p[m + 1]),
         Matched(h, g, p, m)
  PROVE  Matched(h, g, p, m + 1)
  <1> DEFINE x == p[m + 1]
             a == h[m]
             b == h[m + 1]
             s == g[m]
             t == g[m + 1]
  <1>1. x \in Word /\ a \in Nat /\ b \in Nat /\ Len(s) = a /\ s \in Seq(Word)
    <2>1. x \in Word
      OBVIOUS
    <2> QED BY <2>1, ClimbIs DEF Matched
  <1>2. b = Climb(a, x) /\ t = Push(s, x)
    OBVIOUS
  \* Who is alive stays so, unless the height sinks below it.
  <1>3. ASSUME NEW n \in 1 .. a, n <= b
        PROVE  \E k \in Alive(h, p, m + 1) : h[k] = n /\ p[k] = s[n]
    <2>1. PICK k \in Alive(h, p, m) : h[k] = n /\ p[k] = s[n]
      BY DEF Matched
    <2>2. k \in 1 .. m + 1 /\ p[k] \notin {".", ".."} /\ \A j \in k .. m : h[j] >= h[k]
      BY <2>1 DEF Alive
    <2>3. ASSUME NEW j \in k .. m + 1 PROVE h[j] >= h[k]
      <3>1. CASE j = m + 1
        BY <1>1, <1>3, <2>1, <3>1
      <3>2. CASE j # m + 1
        <4>1. j \in k .. m
          BY <2>2, <3>2
        <4> QED BY <2>2, <4>1
      <3> QED BY <3>1, <3>2
    <2>4. k \in Alive(h, p, m + 1)
      BY <2>2, <2>3 DEF Alive
    <2> QED BY <2>1, <2>4
  <1> SUFFICES /\ Len(t) = b
               /\ \A n \in 1 .. b : \E k \in Alive(h, p, m + 1) : h[k] = n /\ p[k] = t[n]
    BY DEF Matched
  <1>4. CASE x = "."
    <2>1. b = a /\ t = s
      BY <1>1, <1>2, <1>4, ClimbIs, PushIs
    <2> HIDE DEF t, s, a, b
    <2> QED BY <1>1, <1>3, <2>1
  <1>5. CASE x = ".." /\ a = 0
    <2>1. s = <<>>
      BY <1>1, <1>5, NotEmpty
    <2>2. b = 0 /\ t = <<>>
      BY <1>1, <1>2, <1>5, <2>1, ClimbIs, PushIs
    <2> HIDE DEF t, s, a, b
    <2> QED BY <2>2
  <1>6. CASE x = ".." /\ a # 0
    <2>1. s # <<>>
      BY <1>1, <1>6
    <2>2. b = a - 1 /\ t = Front(s)
      BY <1>1, <1>2, <1>6, <2>1, ClimbIs, PushIs
    <2>3. Len(t) = b /\ \A n \in 1 .. b : t[n] = s[n] /\ n \in 1 .. a /\ n <= b
      <3>1. Len(Front(s)) = Len(s) - 1 /\ \A i \in 1 .. Len(s) - 1 : Front(s)[i] = s[i]
        BY <1>1, <2>1, PushIs
      <3> HIDE DEF t, s, a, b
      <3> QED BY <1>1, <1>6, <2>2, <3>1
    <2> HIDE DEF t, s, a, b
    <2>4. ASSUME NEW n \in 1 .. b
          PROVE  \E k \in Alive(h, p, m + 1) : h[k] = n /\ p[k] = t[n]
      <3>1. t[n] = s[n] /\ n \in 1 .. a /\ n <= b
        BY <2>3
      <3> QED BY <1>3, <3>1
    <2> QED BY <2>3, <2>4
  <1>7. CASE x \notin {".", ".."}
    <2>1. b = a + 1 /\ t = Append(s, x)
      BY <1>1, <1>2, <1>7, ClimbIs, PushIs
    <2>2. /\ Len(t) = b /\ t[b] = x /\ \A n \in 1 .. a : t[n] = s[n] /\ n <= b
          /\ \A n \in 1 .. b : n \in 1 .. a \/ n = b
      <3>1. /\ Len(Append(s, x)) = Len(s) + 1 /\ Append(s, x)[Len(s) + 1] = x
            /\ \A i \in 1 .. Len(s) : Append(s, x)[i] = s[i]
        BY <1>1, AppendProperties
      <3> HIDE DEF t, s, a, b, x
      <3> QED BY <1>1, <2>1, <3>1
    <2>3. m + 1 \in Alive(h, p, m + 1)
      <3>1. m + 1 \in 1 .. m + 1 /\ p[m + 1] \notin {".", ".."}
        BY <1>7
      <3>2. ASSUME NEW j \in m + 1 .. m + 1 PROVE h[j] >= h[m + 1]
        <4>1. j = m + 1
          OBVIOUS
        <4> QED BY <1>1, <4>1
      <3> QED BY <3>1, <3>2 DEF Alive
    <2>4. ASSUME NEW n \in 1 .. b
          PROVE  \E k \in Alive(h, p, m + 1) : h[k] = n /\ p[k] = t[n]
      <3>1. CASE n \in 1 .. a
        <4>1. t[n] = s[n] /\ n <= b
          BY <2>2, <3>1
        <4> HIDE DEF t, s, a, b, x
        <4> QED BY <1>3, <3>1, <4>1
      <3>2. CASE n = b
        <4>1. h[m + 1] = n /\ p[m + 1] = t[n]
          BY <2>2, <3>2
        <4> QED BY <2>3, <4>1
      <3> QED BY <2>2, <3>1, <3>2
    <2> QED BY <2>2, <2>4
  <1> QED BY <1>4, <1>5, <1>6, <1>7


\* A set whose members have the numbers 1 to n has n members.
LEMMA CountIs ==
  ASSUME NEW n \in Nat, NEW K, NEW f \in [K -> 1 .. n],
         \A j, k \in K : f[j] = f[k] => j = k,
         \A i \in 1 .. n : \E k \in K : f[k] = i
  PROVE  Cardinality(K) = n
  <1>1. f \in Bijection(K, 1 .. n)
    BY DEF Bijection, Injection, Surjection, IsInjective
  <1>2. ExistsBijection(1 .. n, K)
    BY <1>1, Fun_ExistsBij, Fun_ExistsBijSymmetric
  <1>3. IsFiniteSet(1 .. n) /\ Cardinality(1 .. n) = n
    BY FS_Interval
  <1> QED BY <1>2, <1>3, FS_Bijection

LEMMA MatchedAll ==
  ASSUME NEW p \in Seq(Word)
  PROVE  \E g : /\ Undotted(p) = g[Len(p)] /\ g[Len(p)] \in Seq(Word)
                /\ Matched(Height(p), g, p, Len(p))
  <1> DEFINE L == Len(p)
             h == Height(p)
  <1>1. /\ L \in Nat /\ \A i \in 0 .. L : h[i] \in Nat
        /\ h[0] = 0 /\ \A i \in 1 .. L : h[i] = Climb(h[i - 1], p[i])
    BY HeightIs
  <1>2. PICK g : /\ Loop(g, p, L) /\ Undotted(p) = g[L]
                 /\ \A i \in 0 .. L : g[i] \in Seq(Word)
    BY UndottedIs
  <1> DEFINE I(m) == m <= L => Matched(h, g, p, m)
             P == {m \in Nat : I(m)}
  <1>3. I(0)
    <2>1. g[0] = <<>> /\ Len(<<>>) = 0
      BY <1>2 DEF Loop
    <2> QED BY <1>1, <2>1 DEF Matched
  <1>4. ASSUME NEW m \in Nat, I(m) PROVE I(m + 1)
    <2> SUFFICES ASSUME m + 1 <= L PROVE Matched(h, g, p, m + 1)
      OBVIOUS
    <2> HIDE DEF h
    <2>1. m <= L /\ m \in 0 .. L /\ m + 1 \in 1 .. L /\ (m + 1) - 1 = m /\ \A i \in 0 .. m : i \in 0 .. L
      BY <1>1
    <2>2. h[m] \in Nat /\ h[m + 1] = Climb(h[m], p[m + 1]) /\ \A i \in 0 .. m : h[i] \in Nat
      BY <1>1, <2>1
    <2>3. g[m] \in Seq(Word) /\ g[m + 1] = Push(g[m], p[m + 1])
      BY <1>2, <2>1 DEF Loop
    <2>4. Matched(h, g, p, m)
      BY <1>4, <2>1
    <2> QED BY <2>2, <2>3, <2>4, MatchedNext
  <1> HIDE DEF I
  <1>5. Nat \subseteq P
    <2>1. 0 \in P /\ \A m \in Nat : m \in P => m + 1 \in P
      BY <1>3, <1>4
    <2> HIDE DEF P
    <2> QED BY <2>1, Induct
  <1>6. I(L)
    BY <1>1, <1>5
  <1>7. Matched(h, g, p, L)
    BY <1>1, <1>6 DEF I
  <1>8. L \in 0 .. L
    BY <1>1
  <1> QED BY <1>2, <1>7, <1>8

\* Those that survive stand at heights that increase, from 1 to the last.
LEMMA AliveOrder ==
  ASSUME NEW p \in Seq(Word), NEW k \in Alive(Height(p), p, Len(p))
  PROVE  /\ k \in 1 .. Len(p) /\ Height(p)[k] \in 1 .. Height(p)[Len(p)]
         /\ \A j \in Alive(Height(p), p, Len(p)) : k < j => Height(p)[k] < Height(p)[j]
  <1> DEFINE h == Height(p)
             L == Len(p)
  <1>1. /\ L \in Nat /\ \A i \in 0 .. L : h[i] \in Nat
        /\ \A i \in 1 .. L : h[i] = Climb(h[i - 1], p[i])
    BY HeightIs
  <1> HIDE DEF h, L
  <1>2. ASSUME NEW j \in Alive(h, p, L)
        PROVE  /\ j \in 1 .. L /\ h[j] = h[j - 1] + 1 /\ h[j - 1] \in Nat /\ h[j] \in Nat
               /\ \A i \in j .. L : h[i] >= h[j]
    <2>1. j \in 1 .. L /\ p[j] \notin {".", ".."} /\ \A i \in j .. L : h[i] >= h[j]
      BY DEF Alive
    <2>2. j \in 0 .. L /\ j - 1 \in 0 .. L
      BY <1>1, <2>1
    <2>3. h[j - 1] \in Nat /\ h[j] = Climb(h[j - 1], p[j])
      BY <1>1, <2>1, <2>2
    <2>4. h[j] = h[j - 1] + 1
      BY <2>1, <2>3, ClimbIs
    <2> QED BY <2>1, <2>3, <2>4
  <1>3. k \in Alive(h, p, L)
    BY DEF h, L
  <1>4. k \in 1 .. L /\ h[k] \in 1 .. h[L]
    <2>1. k \in 1 .. L /\ L \in k .. L /\ L \in 0 .. L
      BY <1>1, <1>2, <1>3
    <2>2. h[L] >= h[k] /\ h[L] \in Nat /\ h[k] \in Nat /\ h[k] >= 1
      BY <1>1, <1>2, <1>3, <2>1
    <2> QED BY <2>1, <2>2
  <1>5. ASSUME NEW j \in Alive(h, p, L), k < j PROVE h[k] < h[j]
    <2>1. j \in 1 .. L /\ j - 1 \in k .. L
      BY <1>1, <1>2, <1>4, <1>5
    <2>2. h[j - 1] >= h[k]
      BY <1>2, <1>3, <2>1
    <2>3. h[j] = h[j - 1] + 1 /\ h[j - 1] \in Nat /\ h[k] \in Nat
      BY <1>2, <1>3
    <2> QED BY <2>2, <2>3
  <1> QED BY <1>4, <1>5 DEF h, L

\* A segment is kept exactly if no later ".." climbs above it.
LEMMA CleanCanonical ==
  ASSUME NEW p \in Seq(Word)
  PROVE  CleanDotSegments(p) = Canonical(p)
  <1> DEFINE h == Height(p)
             L == Len(p)
             K == Alive(h, p, L)
             N == h[L]
             u == Undotted(p)
             upto(k) == {j \in K : j <= k}
             at(n) == CHOOSE k \in K : Cardinality(upto(k)) = n
  <1>1. L \in Nat /\ N \in Nat
    <2>1. L \in Nat /\ L \in 0 .. L
      OBVIOUS
    <2> QED BY <2>1, HeightIs
  <1>2. /\ u \in Seq(Word) /\ Len(u) = N
        /\ \A n \in 1 .. N : \E k \in K : h[k] = n /\ p[k] = u[n]
    BY MatchedAll DEF Matched
  <1>3. \A k \in K : k \in 1 .. L /\ h[k] \in 1 .. N
    BY AliveOrder
  <1>4. \A j, k \in K : k < j => h[k] < h[j]
    BY AliveOrder
  <1>5. {k \in DOMAIN p : Survives(p, k)} = K
    BY DEF Survives, Alive
  <1> HIDE DEF h, L, K, N, u
  <1>6. \A j, k \in K : h[j] = h[k] => j = k
    <2> TAKE j, k \in K
    <2>1. j < k \/ k < j \/ j = k
      BY <1>1, <1>3
    <2>2. h[j] \in Nat /\ h[k] \in Nat
      BY <1>1, <1>3
    <2> QED BY <1>4, <2>1, <2>2
  <1>7. \A k \in K : Cardinality(upto(k)) = h[k]
    <2> TAKE k \in K
    <2> DEFINE T == upto(k)
               m == h[k]
               f == [j \in T |-> h[j]]
    <2>1. m \in Nat /\ m \in 1 .. N
      BY <1>1, <1>3
    <2>2. \A j \in T : h[j] \in 1 .. m
      <3> TAKE j \in T
      <3>1. j \in K /\ j <= k /\ j \in Nat /\ k \in Nat
        BY <1>1, <1>3
      <3>2. h[j] \in 1 .. N /\ (j < k => h[j] < h[k])
        BY <1>3, <1>4, <3>1
      <3> QED BY <1>1, <2>1, <3>1, <3>2
    <2>3. f \in [T -> 1 .. m]
      BY <2>2
    <2>4. \A i, j \in T : f[i] = f[j] => i = j
      BY <1>6
    <2>5. \A i \in 1 .. m : \E j \in T : f[j] = i
      <3> TAKE i \in 1 .. m
      <3>1. i \in 1 .. N
        BY <1>1, <2>1
      <3>2. PICK j \in K : h[j] = i
        BY <1>2, <3>1
      <3>3. j <= k
        <4>1. j \in Nat /\ k \in Nat /\ (k < j => h[k] < h[j])
          BY <1>1, <1>3, <1>4
        <4> QED BY <2>1, <3>2, <4>1
      <3> QED BY <3>2, <3>3
    <2> HIDE DEF T, m, f
    <2>6. Cardinality(T) = m
      BY <2>1, <2>3, <2>4, <2>5, CountIs
    <2> QED BY <2>6 DEF T, m
  <1>8. \A n \in 1 .. N : p[at(n)] = u[n]
    <2> TAKE n \in 1 .. N
    <2>1. PICK k \in K : h[k] = n /\ p[k] = u[n]
      BY <1>2
    <2>2. \A j \in K : Cardinality(upto(j)) = n <=> j = k
      BY <1>6, <1>7, <2>1
    <2> HIDE DEF upto
    <2>3. at(n) = k
      BY <2>2
    <2> QED BY <2>1, <2>3
  <1>9. Cardinality(K) = N
    <2> DEFINE f == [j \in K |-> h[j]]
    <2>1. f \in [K -> 1 .. N]
      BY <1>3
    <2>2. \A i, j \in K : f[i] = f[j] => i = j
      BY <1>6
    <2>3. \A i \in 1 .. N : \E j \in K : f[j] = i
      BY <1>2
    <2> HIDE DEF f
    <2> QED BY <1>1, <2>1, <2>2, <2>3, CountIs
  <1>10. Canonical(p) = IF K = {} THEN <<"">> ELSE [n \in 1 .. Cardinality(K) |-> p[at(n)]]
    <2> DEFINE kept == {k \in DOMAIN p : Survives(p, k)}
               pick(S) == IF S = {} THEN <<"">>
                          ELSE [n \in 1 .. Cardinality(S) |->
                                  p[CHOOSE k \in S : Cardinality({j \in S : j <= k}) = n]]
    <2>1. Canonical(p) = pick(kept)
      BY DEF Canonical
    <2>2. kept = K
      BY <1>5
    <2> HIDE DEF kept, pick
    <2>3. Canonical(p) = pick(K)
      BY <2>1, <2>2
    <2> QED BY <2>3 DEF pick
  <1> HIDE DEF at
  <1>11. u = [n \in 1 .. N |-> u[n]]
    BY <1>1, <1>2
  <1>12. [n \in 1 .. Cardinality(K) |-> p[at(n)]] = u
    BY <1>8, <1>9, <1>11
  <1>13. K = {} <=> u = <<>>
    <2>1. u = <<>> <=> N = 0
      BY <1>1, <1>2
    <2>2. K = {} <=> N = 0
      <3>1. N # 0 => 1 \in 1 .. N
        BY <1>1
      <3>2. N = 0 => 1 .. N = {}
        BY <1>1
      <3> QED BY <1>2, <1>3, <3>1, <3>2
    <2> QED BY <2>1, <2>2
  <1>14. CleanDotSegments(p) = IF u = <<>> THEN <<"">> ELSE u
    BY DEF CleanDotSegments, u
  <1> QED BY <1>10, <1>12, <1>13, <1>14

\* The loop of CleanDotSegments keeps the segments of its reference, for every
\* path (CleanIsCanonical).
THEOREM CanonicalCorrect == RequestSpec => []CleanIsCanonical
  <1>1. RequestInv => CleanIsCanonical
    BY CleanCanonical DEF RequestInv, CleanIsCanonical
  <1> QED BY <1>1, RequestTyped, PTL
=============================================================================
