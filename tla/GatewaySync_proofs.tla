-------------------------- MODULE GatewaySync_proofs --------------------------
(***************************************************************************)
(* Proofs about GatewaySync, for any number of certificates, ports,        *)
(* configurations, administrators, concurrent reloads and requests.        *)
(***************************************************************************)
EXTENDS GatewaySync, TLAPS

LEMMA MaxOfBound ==
    ASSUME NEW n \in Nat, NEW x \in 0 .. n, NEW y \in 0 .. n
    PROVE  MaxOf(x, y) \in 0 .. n /\ MaxOf(x, y) >= x /\ MaxOf(x, y) >= y
  BY DEF MaxOf

LEMMA SetStatus ==
    ASSUME NEW t \in Table, NEW s, NEW v \in Status
    PROVE  [t EXCEPT ![s] = v] \in Table
  BY DEF Table

\* A commit adds one version and keeps the earlier ones.
LEMMA CommitGrows ==
    ASSUME StoreOK, NEW t \in Table, Commit(t)
    PROVE  /\ log' \in Seq(Table) /\ Len(log') = Len(log) + 1
           /\ \A i \in 1 .. Len(log) : log'[i] = log[i]
           /\ log'[Len(log')] = t
  BY DEF StoreOK, Commit

LEMMA WriteGrows ==
    ASSUME StoreOK, NEW c \in Configs, WriteFile(c)
    PROVE  /\ file' \in Seq(Configs) /\ Len(file') = Len(file) + 1
           /\ \A i \in 1 .. Len(file) : file'[i] = file[i]
           /\ file'[Len(file')] = c
  BY DEF StoreOK, WriteFile

\* Reaching only back, everything but the store stays well formed when the
\* store grows.
LEMMA StoreStep ==
    ASSUME TypeOK, StoreOK', AdminOK', Len(log') >= Len(log), Len(file') >= Len(file),
           UNCHANGED <<view, sockets, hpc, handler, request, promises>>
    PROVE  TypeOK'
  <1>1. Len(log) \in Nat /\ Len(file) \in Nat /\ Len(log') \in Nat /\ Len(file') \in Nat
    BY DEF TypeOK, StoreOK
  <1>2. ViewOK' BY <1>1 DEF TypeOK, ViewOK, view
  <1>3. SocketsOK' BY DEF TypeOK, SocketsOK, sockets
  <1>4. HandlerOK' BY <1>1 DEF TypeOK, HandlerOK, handler
  <1>5. PortWorkOK' BY DEF TypeOK, PortWorkOK, handler
  <1>6. RequestOK' BY <1>1 DEF TypeOK, RequestOK, request
  <1>7. PromisesOK' BY <1>1 DEF TypeOK, PromisesOK, promises
  <1> QED BY <1>2, <1>3, <1>4, <1>5, <1>6, <1>7 DEF TypeOK

LEMMA InitTypes == Init => TypeOK
  <1> SUFFICES ASSUME Init PROVE TypeOK
    OBVIOUS
  <1>1. StoreOK
    <2>1. PICK t \in [Serials -> {"absent", "enabled"}] : log = <<t>>
      BY DEF Init
    <2>2. t \in Table
      BY DEF Table, Status
    <2>3. PICK c \in Parses : file = <<c>>
      BY DEF Init
    <2> QED BY <2>1, <2>2, <2>3, SyncAssumption DEF StoreOK, Init
  <1>2. Len(log) = 1 /\ Len(file) = 1
    BY DEF Init
  <1>3. IPBind[disk] \in BOOLEAN
    BY <1>1, SyncAssumption DEF disk, StoreOK
  <1>4. AdminOK /\ SocketsOK
    BY <1>3 DEF Init, AdminOK, AdminPC, SocketsOK
  <1>5. ViewOK /\ PromisesOK
    <2>1. gpc = "down" /\ gate = FALSE /\ tab = 1 /\ cfg = 1
      BY DEF Init
    <2>2. dbFloor = 0 /\ cfgFloor = 0 /\ dbAcked = 0 /\ cfgAcked = 0
      BY DEF Init
    <2>3. PromisesOK
      BY <1>2, <2>2 DEF PromisesOK
    <2>4. gate \in BOOLEAN
      BY <2>1, Zenon
    <2>5. gpc \in GatewayPC /\ tab \in 1 .. Len(log) /\ cfg \in 1 .. Len(file)
      BY <1>2, <2>1 DEF GatewayPC
    <2> QED BY <2>3, <2>4, <2>5 DEF ViewOK
  <1>7. RequestOK
    BY <1>2 DEF Init, RequestOK, RequestPC
  <1>6. HandlerOK /\ PortWorkOK
    BY <1>2 DEF Init, HandlerOK, ReloadPC, PortWorkOK
  <1> QED BY <1>1, <1>4, <1>5, <1>6, <1>7 DEF TypeOK

-----------------------------------------------------------------------------
(* A step of a reload handler moves it, and changes a few other things. *)

LEMMA StepTypes ==
    ASSUME HandlerOK, NEW h \in Handlers, NEW from, NEW to \in ReloadPC, Step(h, from, to)
    PROVE  hpc' \in [Handlers -> ReloadPC]
  BY DEF HandlerOK, Step

LEMMA LatestVersions ==
    ASSUME TypeOK
    PROVE  Len(log) \in 1 .. Len(log) /\ Len(file) \in 1 .. Len(file)
  BY DEF TypeOK, StoreOK

LEMMA ReloadTypes ==
    ASSUME HandlerOK, UNCHANGED <<store, hver, hfver, hsolo, hboot>>,
           hpc' \in [Handlers -> ReloadPC],
           hclient' \in [Handlers -> Admins \cup {Nobody}],
           hsnap' \in [Handlers -> 1 .. Len(log)],
           hcand' \in [Handlers -> 1 .. Len(file)]
    PROVE  HandlerOK'
  BY DEF HandlerOK, store

LEMMA AnswerTypes ==
    ASSUME TypeOK, NEW h \in Handlers, NEW from, Answer(h, from), PromisesOK'
    PROVE  TypeOK'
  <1>1. StoreOK' /\ ViewOK' /\ SocketsOK' /\ RequestOK' /\ PortWorkOK'
    BY DEF TypeOK, StoreOK, ViewOK, SocketsOK, RequestOK, PortWorkOK,
           Answer, store, view, sockets, request
  <1>2. AdminOK'
    BY DEF TypeOK, AdminOK, AdminPC, Answer
  <1>3. HandlerOK'
    <2>1. hpc' \in [Handlers -> ReloadPC]
      BY StepTypes DEF Answer, TypeOK, ReloadPC
    <2>2. hclient' \in [Handlers -> Admins \cup {Nobody}]
      BY DEF Answer, TypeOK, HandlerOK
    <2>3. UNCHANGED <<store, hver, hfver, hsolo, hboot, hsnap, hcand>>
      BY DEF Answer
    <2> QED BY <2>1, <2>2, <2>3, ReloadTypes DEF TypeOK, HandlerOK
  <1> QED BY <1>1, <1>2, <1>3 DEF TypeOK

LEMMA AnswerErrorTypes ==
    ASSUME TypeOK, NEW h \in Handlers, NEW from, AnswerError(h, from)
    PROVE  TypeOK'
  <1>1. PromisesOK'
    BY DEF TypeOK, PromisesOK, AnswerError, Answer, promises, store
  <1> QED BY <1>1, AnswerTypes DEF AnswerError

LEMMA RestTypes ==
    ASSUME TypeOK, HandlerOK', PortWorkOK', ViewOK', SocketsOK',
           UNCHANGED <<store, admin, request, promises>>
    PROVE  TypeOK'
  BY DEF TypeOK, StoreOK, AdminOK, RequestOK, PromisesOK, store, admin, request, promises

\* A reload step that answers nobody: the handler's own work and what it
\* installs.
LEMMA WorkTypes ==
    ASSUME TypeOK, NEW h \in Handlers, NEW from, NEW to \in ReloadPC, Step(h, from, to),
           UNCHANGED <<store, admin, request, promises, hclient, hver, hfver, hsolo, hboot>>,
           hsnap' \in [Handlers -> 1 .. Len(log)], hcand' \in [Handlers -> 1 .. Len(file)],
           PortWorkOK', ViewOK', SocketsOK'
    PROVE  TypeOK'
  <1>1. HandlerOK'
    BY StepTypes, ReloadTypes DEF TypeOK, HandlerOK
  <1> QED BY <1>1, RestTypes

\* With the store unchanged, the parts of the state that a step leaves alone
\* stay well formed.
LEMMA PartsStay ==
    ASSUME TypeOK, UNCHANGED store
    PROVE  /\ StoreOK'
           /\ UNCHANGED admin => AdminOK'
           /\ UNCHANGED view => ViewOK'
           /\ UNCHANGED sockets => SocketsOK'
           /\ UNCHANGED <<hpc, handler>> => HandlerOK'
           /\ UNCHANGED <<hold, hadd, hrem, hfail>> => PortWorkOK'
           /\ UNCHANGED request => RequestOK'
           /\ UNCHANGED promises => PromisesOK'
  <1>1. StoreOK'
    BY DEF TypeOK, StoreOK, store
  <1>2. UNCHANGED admin => AdminOK'
    BY DEF TypeOK, AdminOK, admin
  <1>3. UNCHANGED view => ViewOK'
    BY DEF TypeOK, ViewOK, view, store
  <1>4. UNCHANGED sockets => SocketsOK'
    BY DEF TypeOK, SocketsOK, sockets
  <1>5. UNCHANGED <<hpc, handler>> => HandlerOK'
    BY DEF TypeOK, HandlerOK, handler, store
  <1>6. UNCHANGED <<hold, hadd, hrem, hfail>> => PortWorkOK'
    BY DEF TypeOK, PortWorkOK
  <1>7. UNCHANGED request => RequestOK'
    BY DEF TypeOK, RequestOK, request, store
  <1>8. UNCHANGED promises => PromisesOK'
    BY DEF TypeOK, PromisesOK, promises, store
  <1> QED BY <1>1, <1>2, <1>3, <1>4, <1>5, <1>6, <1>7, <1>8

\* A process that forgets who waits for its handlers' answers.
LEMMA ClientTypes ==
    ASSUME TypeOK, UNCHANGED store,
           hpc' \in [Handlers -> ReloadPC], hclient' \in [Handlers -> Admins \cup {Nobody}],
           UNCHANGED <<hver, hfver, hsolo, hboot, hsnap, hcand>>
    PROVE  HandlerOK'
  BY ReloadTypes DEF TypeOK, HandlerOK

-----------------------------------------------------------------------------
LEMMA TypeStep ==
    ASSUME TypeOK, [Next]_vars
    PROVE  TypeOK'
  <1> USE SyncAssumption DEF TypeOK
  <1>1. ASSUME NEW a \in Admins, NEW s \in Serials, Revoke(a, s) PROVE TypeOK'
    <2>1. [db EXCEPT ![s] = "revoked"] \in Table
      BY <1>1 DEF Revoke, StoreOK, AdminOK, db, Table, Status
    <2>2. StoreOK' /\ Len(log') >= Len(log) /\ Len(file') >= Len(file)
      BY <1>1, <2>1, CommitGrows DEF StoreOK, Revoke
    <2>3. AdminOK'
      BY <1>1 DEF AdminOK, AdminPC, Revoke, Moves
    <2> QED BY <1>1, <2>2, <2>3, StoreStep DEF Revoke
  <1>2. ASSUME NEW a \in Admins, NEW s \in Serials, InsertCert(a, s) PROVE TypeOK'
    <2>1. [db EXCEPT ![s] = "enabled"] \in Table
      BY <1>2 DEF InsertCert, StoreOK, AdminOK, db, Table, Status
    <2>2. StoreOK' /\ Len(log') >= Len(log) /\ Len(file') >= Len(file)
      BY <1>2, <2>1, CommitGrows DEF StoreOK, InsertCert
    <2>3. AdminOK'
      BY <1>2 DEF AdminOK, AdminPC, InsertCert, Moves
    <2> QED BY <1>2, <2>2, <2>3, StoreStep DEF InsertCert
  <1>3. ASSUME NEW a \in Admins, FinalizeIssue(a) PROVE TypeOK'
    <2>1. AdminOK'
      BY <1>3 DEF FinalizeIssue, Moves, AdminOK, AdminPC
    <2> QED BY <1>3, <2>1, PartsStay DEF FinalizeIssue, handler
  <1>4. ASSUME NEW a \in Admins, RollbackIssue(a) PROVE TypeOK'
    <2>1. [db EXCEPT ![atgt[a]] = "absent"] \in Table
      <3>1. db \in Table
        BY DEF StoreOK, db
      <3> QED BY <3>1, SetStatus DEF Status
    <2>2. StoreOK' /\ Len(log') >= Len(log) /\ Len(file') >= Len(file)
      <3>1. CASE Commit([db EXCEPT ![atgt[a]] = "absent"])
        BY <1>4, <3>1, <2>1, CommitGrows DEF StoreOK, RollbackIssue
      <3>2. CASE log' = log
        BY <1>4, <3>2 DEF StoreOK, RollbackIssue
      <3> QED BY <1>4, <3>1, <3>2 DEF RollbackIssue
    <2>3. AdminOK'
      BY <1>4 DEF AdminOK, AdminPC, RollbackIssue, Moves
    <2> QED BY <1>4, <2>2, <2>3, StoreStep DEF RollbackIssue
  <1>5. ASSUME NEW a \in Admins, NEW c \in Configs, SaveConfig(a, c) PROVE TypeOK'
    <2>1. StoreOK' /\ Len(log') >= Len(log) /\ Len(file') >= Len(file)
      BY <1>5, WriteGrows DEF StoreOK, SaveConfig
    <2>2. AdminOK'
      BY <1>5 DEF AdminOK, AdminPC, SaveConfig, Moves, admin
    <2> QED BY <1>5, <2>1, <2>2, StoreStep DEF SaveConfig
  <1>6. ASSUME NEW c \in Configs, EditFile(c) PROVE TypeOK'
    <2>1. StoreOK' /\ Len(log') >= Len(log) /\ Len(file') >= Len(file)
      BY <1>6, WriteGrows DEF StoreOK, EditFile
    <2>2. AdminOK'
      BY <1>6 DEF AdminOK, AdminPC, EditFile, Moves, admin
    <2> QED BY <1>6, <2>1, <2>2, StoreStep DEF EditFile, admin
  <1>7. ASSUME NEW a \in Admins, NEW h \in Handlers, Trigger(a, h) PROVE TypeOK'
    <2>1. StoreOK' /\ ViewOK' /\ SocketsOK' /\ RequestOK' /\ PromisesOK'
      BY <1>7 DEF StoreOK, ViewOK, SocketsOK, RequestOK, PromisesOK, Trigger,
                  store, view, sockets, request, promises
    <2>2. AdminOK'
      BY <1>7 DEF AdminOK, AdminPC, Trigger, Moves
    <2>3. hsolo' \in [Handlers -> BOOLEAN]
      <3>1. \A g \in Handlers : (IF g = h THEN Active = {} ELSE hsolo[g] /\ Idle(g)) \in BOOLEAN
        BY Zenon
      <3> QED BY <1>7, <3>1 DEF Trigger
    <2>4. hboot' \in [Handlers -> BOOLEAN]
      <3>1. (pending \cup opening # {}) \in BOOLEAN
        BY Zenon
      <3> QED BY <1>7, <3>1 DEF Trigger, HandlerOK
    <2>5. /\ hpc' \in [Handlers -> ReloadPC]
          /\ hclient' \in [Handlers -> Admins \cup {Nobody}]
      BY <1>7 DEF HandlerOK, ReloadPC, Trigger
    <2>6. hver' \in [Handlers -> 1 .. Len(log)] /\ hfver' \in [Handlers -> 1 .. Len(file)]
      BY <1>7, LatestVersions DEF HandlerOK, Trigger
    <2>7. UNCHANGED <<store, hsnap, hcand>>
      BY <1>7 DEF Trigger
    <2>8. HandlerOK'
      BY <2>3, <2>4, <2>5, <2>6, <2>7 DEF HandlerOK, store
    <2>9. PortWorkOK'
      BY <1>7 DEF SocketsOK, PortWorkOK, Trigger
    <2> QED BY <2>1, <2>2, <2>8, <2>9
  <1>8. ASSUME NEW a \in Admins, TriggerFails(a) PROVE TypeOK'
    <2>1. AdminOK'
      BY <1>8 DEF TriggerFails, Moves, AdminOK, AdminPC
    <2> QED BY <1>8, <2>1, PartsStay DEF TriggerFails, handler
  <1>9. ASSUME NEW a \in Admins, TriggerTimesOut(a) PROVE TypeOK'
    <2>1. AdminOK'
      BY <1>9 DEF TriggerTimesOut, Moves, AdminOK, AdminPC
    <2>2. HandlerOK'
      BY <1>9, ClientTypes DEF TriggerTimesOut, HandlerOK
    <2> QED BY <1>9, <2>1, <2>2, PartsStay DEF TriggerTimesOut
  <1>10. ASSUME AdminCrash PROVE TypeOK'
    <2>1. AdminOK'
      BY <1>10 DEF AdminCrash, AdminOK, AdminPC
    <2>2. HandlerOK'
      BY <1>10, ClientTypes DEF AdminCrash, HandlerOK
    <2> QED BY <1>10, <2>1, <2>2, PartsStay DEF AdminCrash
  <1>11. ASSUME AdminBoot PROVE TypeOK'
    <2>1. disk \in Configs
      BY DEF disk, StoreOK
    <2>2. IPBind[disk] \in BOOLEAN
      BY <2>1
    <2>3. aup' = TRUE /\ amem' = IPBind[disk] /\ UNCHANGED <<apc, atgt>>
      BY <1>11 DEF AdminBoot
    <2>4. AdminOK'
      BY <2>2, <2>3 DEF AdminOK
    <2> QED BY <1>11, <2>4, PartsStay DEF AdminBoot, handler
  <1>12. ASSUME NextDay PROVE TypeOK'
    <2>1. StoreOK' /\ Len(log') >= Len(log) /\ Len(file') >= Len(file)
      BY <1>12 DEF NextDay, StoreOK
    <2>2. AdminOK'
      BY <1>12 DEF NextDay, AdminOK, admin
    <2> QED BY <1>12, <2>1, <2>2, StoreStep DEF NextDay
  <1>13. ASSUME ReadConfig PROVE TypeOK'
    <2>1. ViewOK'
      BY <1>13, LatestVersions DEF ReadConfig, ViewOK, GatewayPC, store
    <2> QED BY <1>13, <2>1, PartsStay DEF ReadConfig, handler
  <1>14. ASSUME OpenStore PROVE TypeOK'
    <2>1. IPBind[file[cfg]] \in BOOLEAN /\ Listens[file[cfg]] \subseteq Ports
      BY DEF StoreOK, ViewOK
    <2>2. ViewOK'
      BY <1>14, <2>1, LatestVersions DEF OpenStore, ViewOK, GatewayPC, store
    <2>3. SocketsOK'
      BY <1>14, <2>1 DEF OpenStore, SocketsOK
    <2> QED BY <1>14, <2>2, <2>3, PartsStay DEF OpenStore, handler
  <1>15. ASSUME ListenReload PROVE TypeOK'
    <2>1. ViewOK'
      BY <1>15 DEF ListenReload, ViewOK, GatewayPC, store
    <2> QED BY <1>15, <2>1, PartsStay DEF ListenReload, handler
  <1>16. ASSUME Die PROVE TypeOK'
    <2>1. AdminOK'
      BY <1>16 DEF Die, AdminOK, AdminPC
    <2>2. ViewOK' /\ SocketsOK'
      BY <1>16 DEF Die, ViewOK, GatewayPC, SocketsOK, store
    <2>3. HandlerOK'
      BY <1>16, ClientTypes DEF Die, HandlerOK, ReloadPC
    <2>4. RequestOK'
      BY <1>16 DEF Die, RequestOK, RequestPC, store
    <2> QED BY <1>16, <2>1, <2>2, <2>3, <2>4, PartsStay DEF Die
  <1>17. ASSUME NEW p \in Ports, StartListen(p) PROVE TypeOK'
    <2>1. SocketsOK'
      BY <1>17 DEF StartListen, SocketsOK
    <2> QED BY <1>17, <2>1, PartsStay DEF StartListen, handler
  <1>18. ASSUME NEW p \in Ports, StartRegister(p) PROVE TypeOK'
    <2>1. SocketsOK'
      BY <1>18 DEF StartRegister, SocketsOK
    <2> QED BY <1>18, <2>1, PartsStay DEF StartRegister, handler
  <1>19. ASSUME NEW h \in Handlers, ValidateReload(h) PROVE TypeOK'
    <2>1. CASE AnswerError(h, "validate")
      BY <2>1, AnswerErrorTypes
    <2>2. CASE ~AnswerError(h, "validate")
      <3>1. Step(h, "validate", "readdb")
        BY <1>19, <2>2 DEF ValidateReload
      <3>2. UNCHANGED <<store, admin, request, promises, hclient, hver, hfver, hsolo, hboot>>
        BY <1>19, <2>2 DEF ValidateReload, handler
      <3>3. hsnap' \in [Handlers -> 1 .. Len(log)] /\ hcand' \in [Handlers -> 1 .. Len(file)]
        BY <1>19, <2>2, LatestVersions DEF ValidateReload, HandlerOK, handler
      <3>4. ViewOK' /\ SocketsOK'
        BY <1>19, <2>2, <3>2 DEF ValidateReload, ViewOK, SocketsOK, HandlerOK, view, sockets, store
      <3>5. PortWorkOK'
        BY <1>19, <2>2 DEF ValidateReload, PortWorkOK, handler
      <3>6. "readdb" \in ReloadPC
        BY DEF ReloadPC
      <3> QED BY <3>1, <3>2, <3>3, <3>4, <3>5, <3>6, WorkTypes
    <2> QED BY <2>1, <2>2
  <1>20. ASSUME NEW h \in Handlers, BuildTable(h) PROVE TypeOK'
    <2>1. CASE AnswerError(h, "readdb")
      BY <2>1, AnswerErrorTypes
    <2>2. CASE ~AnswerError(h, "readdb")
      <3>1. Step(h, "readdb", "swapdb")
        BY <1>20, <2>2 DEF BuildTable
      <3>2. UNCHANGED <<store, admin, request, promises, hclient, hver, hfver, hsolo, hboot>>
        BY <1>20, <2>2 DEF BuildTable, handler
      <3>3. hsnap' \in [Handlers -> 1 .. Len(log)] /\ hcand' \in [Handlers -> 1 .. Len(file)]
        <4>1. hsnap' = [hsnap EXCEPT ![h] = Len(log)] /\ hcand' = hcand
          BY <1>20, <2>2 DEF BuildTable
        <4> QED BY <4>1, LatestVersions DEF HandlerOK
      <3>4. ViewOK' /\ SocketsOK'
        BY <1>20, <2>2, <3>2 DEF BuildTable, ViewOK, SocketsOK, HandlerOK, view, sockets, store
      <3>5. PortWorkOK'
        BY <1>20, <2>2 DEF BuildTable, PortWorkOK, handler
      <3>6. "swapdb" \in ReloadPC
        BY DEF ReloadPC
      <3> QED BY <3>1, <3>2, <3>3, <3>4, <3>5, <3>6, WorkTypes
    <2> QED BY <2>1, <2>2
  <1>21. ASSUME NEW h \in Handlers, SwapTable(h) PROVE TypeOK'
    <2>1. Step(h, "swapdb", "readcfg")
      BY <1>21 DEF SwapTable
    <2>2. hsnap' \in [Handlers -> 1 .. Len(log)] /\ hcand' \in [Handlers -> 1 .. Len(file)]
      BY <1>21 DEF SwapTable, HandlerOK, handler
    <2>3. ViewOK' /\ SocketsOK'
      BY <1>21 DEF SwapTable, ViewOK, SocketsOK, HandlerOK, view, sockets, store
    <2>6. PortWorkOK'
      BY <1>21 DEF SwapTable, PortWorkOK, ViewOK, StoreOK, handler
    <2>4. UNCHANGED <<store, admin, request, promises, hclient, hver, hfver, hsolo, hboot>>
      BY <1>21 DEF SwapTable, handler
    <2>5. {"readcfg", "add", "register", "close"} \subseteq ReloadPC
      BY DEF ReloadPC
    <2> QED BY <2>1, <2>2, <2>3, <2>4, <2>5, <2>6, WorkTypes
  <1>22. ASSUME NEW h \in Handlers, ParseFile(h) PROVE TypeOK'
    <2>1. CASE AnswerError(h, "readcfg")
      BY <2>1, AnswerErrorTypes
    <2>2. CASE ~AnswerError(h, "readcfg")
      <3>1. Step(h, "readcfg", "swapcfg")
        BY <1>22, <2>2 DEF ParseFile
      <3>2. UNCHANGED <<store, admin, request, promises, hclient, hver, hfver, hsolo, hboot>>
        BY <1>22, <2>2 DEF ParseFile, handler
      <3>3. hsnap' \in [Handlers -> 1 .. Len(log)] /\ hcand' \in [Handlers -> 1 .. Len(file)]
        <4>1. hcand' = [hcand EXCEPT ![h] = Len(file)] /\ hsnap' = hsnap
          BY <1>22, <2>2 DEF ParseFile
        <4> QED BY <4>1, LatestVersions DEF HandlerOK
      <3>4. ViewOK' /\ SocketsOK'
        BY <1>22, <2>2, <3>2 DEF ParseFile, ViewOK, SocketsOK, HandlerOK, view, sockets, store
      <3>5. PortWorkOK'
        BY <1>22, <2>2 DEF ParseFile, PortWorkOK, handler
      <3>6. "swapcfg" \in ReloadPC
        BY DEF ReloadPC
      <3> QED BY <3>1, <3>2, <3>3, <3>4, <3>5, <3>6, WorkTypes
    <2> QED BY <2>1, <2>2
  <1>23. ASSUME NEW h \in Handlers, SwapConfig(h) PROVE TypeOK'
    <2>1. CASE AnswerError(h, "swapcfg")
      BY <2>1, AnswerErrorTypes
    <2>2. CASE ~AnswerError(h, "swapcfg")
      <3>1. Step(h, "swapcfg", "diff")
        BY <1>23, <2>2 DEF SwapConfig
      <3>2. UNCHANGED <<store, admin, request, promises, hclient, hver, hfver, hsolo, hboot>>
        BY <1>23, <2>2 DEF SwapConfig, handler
      <3>3. hsnap' \in [Handlers -> 1 .. Len(log)] /\ hcand' \in [Handlers -> 1 .. Len(file)]
        BY <1>23, <2>2, LatestVersions DEF SwapConfig, HandlerOK, handler
      <3>4. ViewOK' /\ SocketsOK'
        <4>1. hcand[h] \in 1 .. Len(file)
          BY DEF HandlerOK
        <4>2. cfg' = hcand[h] /\ UNCHANGED <<store, gpc, tab, gate, sockets>>
          BY <1>23, <2>2 DEF SwapConfig
        <4> QED BY <4>1, <4>2 DEF ViewOK, SocketsOK, sockets, store
      <3>5. PortWorkOK'
        BY <1>23, <2>2 DEF SwapConfig, PortWorkOK, handler
      <3>6. "diff" \in ReloadPC
        BY DEF ReloadPC
      <3> QED BY <3>1, <3>2, <3>3, <3>4, <3>5, <3>6, WorkTypes
    <2> QED BY <2>1, <2>2
  <1>24. ASSUME NEW h \in Handlers, DiffPorts(h) PROVE TypeOK'
    <2>1. Step(h, "diff", "add")
      BY <1>24 DEF DiffPorts
    <2>2. hsnap' \in [Handlers -> 1 .. Len(log)] /\ hcand' \in [Handlers -> 1 .. Len(file)]
      BY <1>24 DEF DiffPorts, HandlerOK, handler
    <2>3. ViewOK' /\ SocketsOK'
      BY <1>24 DEF DiffPorts, ViewOK, SocketsOK, HandlerOK, view, sockets, store
    <2>6. PortWorkOK'
      BY <1>24 DEF DiffPorts, PortWorkOK, ViewOK, StoreOK, handler
    <2>4. UNCHANGED <<store, admin, request, promises, hclient, hver, hfver, hsolo, hboot>>
      BY <1>24 DEF DiffPorts, handler
    <2>5. {"readcfg", "add", "register", "close"} \subseteq ReloadPC
      BY DEF ReloadPC
    <2> QED BY <2>1, <2>2, <2>3, <2>4, <2>5, <2>6, WorkTypes
  <1>25. ASSUME NEW h \in Handlers, NEW p \in Ports, BindPort(h, p) PROVE TypeOK'
    <2>1. Step(h, "add", "register") \/ Step(h, "add", "add")
      BY <1>25 DEF BindPort
    <2>2. hsnap' \in [Handlers -> 1 .. Len(log)] /\ hcand' \in [Handlers -> 1 .. Len(file)]
      BY <1>25 DEF BindPort, HandlerOK, handler
    <2>3. ViewOK' /\ SocketsOK'
      BY <1>25 DEF BindPort, ViewOK, SocketsOK, HandlerOK, view, sockets, store
    <2>6. PortWorkOK'
      <3>1. UNCHANGED <<hold, hrem>>
        BY <1>25 DEF BindPort
      <3>2. CASE UNCHANGED <<hadd, hfail>>
        BY <3>1, <3>2 DEF PortWorkOK
      <3>3. CASE /\ hadd' = [hadd EXCEPT ![h] = @ \ {p}]
                 /\ hfail' = [hfail EXCEPT ![h] = @ \cup {p}]
        BY <3>1, <3>3 DEF PortWorkOK
      <3> QED BY <1>25, <3>2, <3>3 DEF BindPort
    <2>4. UNCHANGED <<store, admin, request, promises, hclient, hver, hfver, hsolo, hboot>>
      BY <1>25 DEF BindPort, handler
    <2>5. {"readcfg", "add", "register", "close"} \subseteq ReloadPC
      BY DEF ReloadPC
    <2> QED BY <2>1, <2>2, <2>3, <2>4, <2>5, <2>6, WorkTypes
  <1>26. ASSUME NEW h \in Handlers, NEW p \in Ports, RegisterPort(h, p) PROVE TypeOK'
    <2>1. Step(h, "register", "add")
      BY <1>26 DEF RegisterPort
    <2>2. hsnap' \in [Handlers -> 1 .. Len(log)] /\ hcand' \in [Handlers -> 1 .. Len(file)]
      BY <1>26 DEF RegisterPort, HandlerOK, handler
    <2>3. ViewOK' /\ SocketsOK'
      BY <1>26 DEF RegisterPort, ViewOK, SocketsOK, HandlerOK, view, sockets, store
    <2>6. PortWorkOK'
      BY <1>26 DEF RegisterPort, PortWorkOK, ViewOK, StoreOK, handler
    <2>4. UNCHANGED <<store, admin, request, promises, hclient, hver, hfver, hsolo, hboot>>
      BY <1>26 DEF RegisterPort, handler
    <2>5. {"readcfg", "add", "register", "close"} \subseteq ReloadPC
      BY DEF ReloadPC
    <2> QED BY <2>1, <2>2, <2>3, <2>4, <2>5, <2>6, WorkTypes
  <1>27. ASSUME NEW h \in Handlers, NEW p \in Ports, UnregisterPort(h, p) PROVE TypeOK'
    <2>1. Step(h, "add", "close") \/ Step(h, "add", "add")
      BY <1>27 DEF UnregisterPort
    <2>2. hsnap' \in [Handlers -> 1 .. Len(log)] /\ hcand' \in [Handlers -> 1 .. Len(file)]
      BY <1>27 DEF UnregisterPort, HandlerOK, handler
    <2>3. ViewOK' /\ SocketsOK'
      BY <1>27 DEF UnregisterPort, ViewOK, SocketsOK, HandlerOK, view, sockets, store
    <2>6. PortWorkOK'
      <3>1. UNCHANGED <<hold, hadd, hfail>>
        BY <1>27 DEF UnregisterPort
      <3>2. hrem' = hrem \/ hrem' = [hrem EXCEPT ![h] = @ \ {p}]
        BY <1>27 DEF UnregisterPort
      <3> QED BY <3>1, <3>2 DEF PortWorkOK
    <2>4. UNCHANGED <<store, admin, request, promises, hclient, hver, hfver, hsolo, hboot>>
      BY <1>27 DEF UnregisterPort, handler
    <2>5. {"readcfg", "add", "register", "close"} \subseteq ReloadPC
      BY DEF ReloadPC
    <2> QED BY <2>1, <2>2, <2>3, <2>4, <2>5, <2>6, WorkTypes
  <1>28. ASSUME NEW h \in Handlers, NEW p \in Ports, ClosePort(h, p) PROVE TypeOK'
    <2>1. Step(h, "close", "add")
      BY <1>28 DEF ClosePort
    <2>2. hsnap' \in [Handlers -> 1 .. Len(log)] /\ hcand' \in [Handlers -> 1 .. Len(file)]
      BY <1>28 DEF ClosePort, HandlerOK, handler
    <2>3. ViewOK' /\ SocketsOK'
      BY <1>28 DEF ClosePort, ViewOK, SocketsOK, HandlerOK, view, sockets, store
    <2>6. PortWorkOK'
      BY <1>28 DEF ClosePort, PortWorkOK, ViewOK, StoreOK, handler
    <2>4. UNCHANGED <<store, admin, request, promises, hclient, hver, hfver, hsolo, hboot>>
      BY <1>28 DEF ClosePort, handler
    <2>5. {"readcfg", "add", "register", "close"} \subseteq ReloadPC
      BY DEF ReloadPC
    <2> QED BY <2>1, <2>2, <2>3, <2>4, <2>5, <2>6, WorkTypes
  <1>29. ASSUME NEW h \in Handlers, AnswerOK(h) PROVE TypeOK'
    <2>1. UNCHANGED store
      BY <1>29 DEF AnswerOK, Answer
    <2>2. /\ Len(log) \in Nat /\ Len(file) \in Nat
          /\ hver[h] \in 0 .. Len(log) /\ hfver[h] \in 0 .. Len(file)
      BY DEF StoreOK, HandlerOK
    <2>3. PromisesOK'
      BY <1>29, <2>1, <2>2, MaxOfBound DEF AnswerOK, PromisesOK, store
    <2> QED BY <1>29, <2>3, AnswerTypes DEF AnswerOK
  <1>30. ASSUME NEW r \in Requests, NEW p \in Ports, NEW s \in Serials \cup {Nobody}, Arrive(r, p, s) PROVE TypeOK'
    BY <1>30 DEF Arrive, StoreOK, AdminOK, AdminPC, ViewOK, GatewayPC, SocketsOK, HandlerOK, PortWorkOK, RequestOK, RequestPC, PromisesOK, store, admin, view, sockets, handler, request, promises
  <1>31. ASSUME NEW r \in Requests, NEW b \in BOOLEAN, Decide(r, b) PROVE TypeOK'
    BY <1>31 DEF Decide, StoreOK, AdminOK, AdminPC, ViewOK, GatewayPC, SocketsOK, HandlerOK, PortWorkOK, RequestOK, RequestPC, PromisesOK, store, admin, view, sockets, handler, request, promises
  <1>32. ASSUME UNCHANGED vars PROVE TypeOK'
    BY <1>32 DEF vars, StoreOK, AdminOK, AdminPC, ViewOK, GatewayPC, SocketsOK, HandlerOK, PortWorkOK, RequestOK, RequestPC, PromisesOK, store, admin, view, sockets, handler, request, promises
  <1> QED
    BY <1>1, <1>2, <1>3, <1>4, <1>5, <1>6, <1>7, <1>8, <1>9, <1>10, <1>11, <1>12, <1>13, <1>14, <1>15, <1>16, <1>17, <1>18, <1>19, <1>20, <1>21, <1>22, <1>23, <1>24, <1>25, <1>26, <1>27, <1>28, <1>29, <1>30, <1>31, <1>32
       DEF Next, AdminNext, GatewayNext, ReloadStep, GatewayCrash, StartFatal

\* The state keeps its shape, and no version is held that was never committed.
THEOREM TypeCorrect == Spec => []TypeOK
  <1>1. TypeOK /\ [Next]_vars => TypeOK'
    BY TypeStep
  <1> QED BY <1>1, InitTypes, PTL DEF Spec

-----------------------------------------------------------------------------
(***************************************************************************)
(* FloorHolds.  The promise is about reloads that ran alone, but a reload  *)
(* that does not run alone must not break it either: what it has read and  *)
(* not yet installed must already cover every promise made.  It does,      *)
(* because a promise is only made by a reload during whose whole life no   *)
(* other one was under way.                                                *)
(***************************************************************************)
TableSwapped(h)  == hpc[h] \in {"readcfg", "swapcfg", "diff", "add", "register", "close"}
ConfigSwapped(h) == hpc[h] \in {"diff", "add", "register", "close"}

SoloIsAlone ==
    \A h, g \in Handlers : hsolo[h] /\ ~Idle(h) /\ g # h => Idle(g)

ReadCoversFloor ==
    \A h \in Handlers :
        /\ hpc[h] = "swapdb" => dbFloor <= hsnap[h] /\ hver[h] <= hsnap[h]
        /\ hpc[h] = "swapcfg" => cfgFloor <= hcand[h] /\ hfver[h] <= hcand[h]

SoloInstalled ==
    \A h \in Handlers :
        /\ hsolo[h] /\ TableSwapped(h) => hver[h] <= tab
        /\ hsolo[h] /\ ConfigSwapped(h) => hfver[h] <= cfg

FloorInv == FloorHolds /\ SoloIsAlone /\ ReadCoversFloor /\ SoloInstalled

LEMMA FloorInit == Init => FloorInv
  <1> SUFFICES ASSUME Init PROVE FloorInv
    OBVIOUS
  <1>1. FloorHolds
    BY DEF Init, FloorHolds
  <1>2. \A h \in Handlers : hpc[h] = "idle"
    BY DEF Init
  <1> QED BY <1>1, <1>2 DEF FloorInv, SoloIsAlone, ReadCoversFloor, SoloInstalled,
                          TableSwapped, ConfigSwapped, Idle

LEMMA FloorQuiet ==
    ASSUME FloorInv, UNCHANGED <<tab, cfg, hpc, hver, hfver, hsolo, hsnap, hcand,
                                 dbFloor, cfgFloor>>
    PROVE  FloorInv'
  BY DEF FloorInv, FloorHolds, SoloIsAlone, ReadCoversFloor, SoloInstalled,
         TableSwapped, ConfigSwapped, Idle

\* A handler that stops takes its obligations with it.
LEMMA FloorStops ==
    ASSUME FloorInv, TypeOK, NEW H \in SUBSET Handlers,
           hpc' = [h \in Handlers |-> IF h \in H THEN "idle" ELSE hpc[h]],
           UNCHANGED <<tab, cfg, hver, hfver, hsolo, hsnap, hcand, dbFloor, cfgFloor>>
    PROVE  FloorInv'
  BY DEF FloorInv, FloorHolds, SoloIsAlone, ReadCoversFloor, SoloInstalled,
         TableSwapped, ConfigSwapped, Idle, TypeOK, HandlerOK

LEMMA FloorAnswerError ==
    ASSUME FloorInv, TypeOK, NEW h \in Handlers, NEW from, AnswerError(h, from)
    PROVE  FloorInv'
  <1>1. hpc' = [g \in Handlers |-> IF g \in {h} THEN "idle" ELSE hpc[g]]
    BY DEF AnswerError, Answer, Step, TypeOK, HandlerOK
  <1>2. UNCHANGED <<tab, cfg, hver, hfver, hsolo, hsnap, hcand, dbFloor, cfgFloor>>
    BY DEF AnswerError, Answer, view, promises
  <1> QED BY <1>1, <1>2, FloorStops

LEMMA FloorStep ==
    ASSUME FloorInv, TypeOK, [Next]_vars
    PROVE  FloorInv'
  <1>1. ASSUME NEW a \in Admins, NEW s \in Serials, Revoke(a, s) \/ InsertCert(a, s)
        PROVE  FloorInv'
    BY <1>1, FloorQuiet DEF Revoke, InsertCert, view, handler, promises
  <1>2. ASSUME NEW a \in Admins,
               \/ FinalizeIssue(a) \/ RollbackIssue(a) \/ TriggerFails(a) \/ TriggerTimesOut(a)
        PROVE  FloorInv'
    BY <1>2, FloorQuiet DEF FinalizeIssue, RollbackIssue, TriggerFails, TriggerTimesOut,
                            view, handler, promises
  <1>3. ASSUME AdminCrash \/ AdminBoot \/ NextDay \/ ListenReload \/ UNCHANGED vars
        PROVE  FloorInv'
    BY <1>3, FloorQuiet DEF AdminCrash, AdminBoot, NextDay, ListenReload, vars,
                            view, handler, promises
  <1>4. ASSUME NEW p \in Ports, StartListen(p) \/ StartRegister(p)
        PROVE  FloorInv'
    BY <1>4, FloorQuiet DEF StartListen, StartRegister, view, handler, promises
  <1>5. ASSUME NEW r \in Requests, NEW p \in Ports, NEW s \in Serials \cup {Nobody},
               Arrive(r, p, s)
        PROVE  FloorInv'
    BY <1>5, FloorQuiet DEF Arrive, view, handler, promises
  <1>6. ASSUME NEW r \in Requests, NEW b \in BOOLEAN, Decide(r, b)
        PROVE  FloorInv'
    BY <1>6, FloorQuiet DEF Decide, view, handler, promises
  <1>7. ASSUME NEW a \in Admins, NEW c \in Configs, SaveConfig(a, c)
        PROVE  FloorInv'
    BY <1>7, FloorQuiet DEF SaveConfig, view, handler, promises
  <1>19. ASSUME NEW c \in Configs, EditFile(c)
        PROVE  FloorInv'
    BY <1>19, FloorQuiet DEF EditFile, view, handler, promises
  <1>8. ASSUME NEW a \in Admins, NEW h \in Handlers, Trigger(a, h)
        PROVE  FloorInv'
    <2>1. /\ hpc' = [hpc EXCEPT ![h] = "validate"]
          /\ UNCHANGED <<tab, cfg, hsnap, hcand, dbFloor, cfgFloor>>
          /\ \A g \in Handlers : g # h => hver'[g] = hver[g] /\ hfver'[g] = hfver[g]
      BY <1>8 DEF Trigger, view, promises, TypeOK, HandlerOK
    <2>2. \A g \in Handlers :
             /\ g # h => (hsolo'[g] => hsolo[g] /\ Idle(g))
             /\ hsolo'[h] => Idle(g)
      BY <1>8 DEF Trigger, Active
    <2>3. FloorHolds'
      BY <2>1 DEF FloorInv, FloorHolds
    <2>4. SoloIsAlone'
      BY <2>1, <2>2 DEF SoloIsAlone, Idle, TypeOK, HandlerOK
    <2>5. ReadCoversFloor'
      BY <2>1 DEF FloorInv, ReadCoversFloor, TypeOK, HandlerOK
    <2>6. SoloInstalled'
      BY <2>1, <2>2 DEF FloorInv, SoloInstalled, TableSwapped, ConfigSwapped, Idle, TypeOK, HandlerOK
    <2> QED BY <2>3, <2>4, <2>5, <2>6 DEF FloorInv
  <1>9. ASSUME Die
        PROVE  FloorInv'
    <2>1. hpc' = [h \in Handlers |-> IF h \in Handlers THEN "idle" ELSE hpc[h]]
      BY <1>9 DEF Die
    <2>2. UNCHANGED <<tab, cfg, hver, hfver, hsolo, hsnap, hcand, dbFloor, cfgFloor>>
      BY <1>9 DEF Die, promises
    <2> QED BY <2>1, <2>2, FloorStops
  <1>10. ASSUME ReadConfig \/ OpenStore
         PROVE  FloorInv'
    <2>1. /\ UNCHANGED <<hpc, hver, hfver, hsolo, hsnap, hcand, dbFloor, cfgFloor>>
          /\ tab' = tab \/ tab' = Len(log)
          /\ cfg' = cfg \/ cfg' = Len(file)
      BY <1>10 DEF ReadConfig, OpenStore, handler, promises
    <2>2. /\ Len(log) \in Nat /\ Len(file) \in Nat
          /\ dbFloor <= Len(log) /\ cfgFloor <= Len(file)
          /\ \A h \in Handlers : hver[h] <= Len(log) /\ hfver[h] <= Len(file)
      BY DEF TypeOK, StoreOK, PromisesOK, HandlerOK
    <2> QED BY <2>1, <2>2 DEF FloorInv, FloorHolds, SoloIsAlone, ReadCoversFloor, SoloInstalled,
                            TableSwapped, ConfigSwapped, Idle
  <1>11. ASSUME NEW h \in Handlers, ValidateReload(h)
         PROVE  FloorInv'
    <2>1. CASE AnswerError(h, "validate")
      BY <2>1, FloorAnswerError
    <2>2. CASE ~AnswerError(h, "validate")
      <3>1. /\ hpc[h] = "validate" /\ hpc' = [hpc EXCEPT ![h] = "readdb"]
            /\ UNCHANGED <<tab, cfg, hver, hfver, hsolo, hsnap, hcand, dbFloor, cfgFloor>>
        BY <1>11, <2>2 DEF ValidateReload, Step, view, handler, promises
      <3> QED BY <3>1 DEF FloorInv, FloorHolds, SoloIsAlone, ReadCoversFloor, SoloInstalled,
               TableSwapped, ConfigSwapped, Idle, TypeOK, HandlerOK
    <2> QED BY <2>1, <2>2
  <1>12. ASSUME NEW h \in Handlers, BuildTable(h)
         PROVE  FloorInv'
    <2>1. CASE AnswerError(h, "readdb")
      BY <2>1, FloorAnswerError
    <2>2. CASE ~AnswerError(h, "readdb")
      <3>1. dbFloor <= Len(log) /\ hver[h] <= Len(log)
        BY DEF TypeOK, StoreOK, PromisesOK, HandlerOK
      <3>2. /\ hpc[h] = "readdb" /\ hpc' = [hpc EXCEPT ![h] = "swapdb"]
            /\ hsnap' = [hsnap EXCEPT ![h] = Len(log)]
            /\ UNCHANGED <<tab, cfg, hver, hfver, hsolo, hcand, dbFloor, cfgFloor>>
        BY <1>12, <2>2 DEF BuildTable, Step, view, handler, promises
      <3> QED BY <3>1, <3>2 DEF FloorInv, FloorHolds, SoloIsAlone, ReadCoversFloor, SoloInstalled,
               TableSwapped, ConfigSwapped, Idle, TypeOK, HandlerOK
    <2> QED BY <2>1, <2>2
  <1>13. ASSUME NEW h \in Handlers, SwapTable(h)
         PROVE  FloorInv'
    <2>1. /\ hpc[h] = "swapdb" /\ hpc' = [hpc EXCEPT ![h] = "readcfg"] /\ tab' = hsnap[h]
          /\ UNCHANGED <<cfg, hver, hfver, hsolo, hsnap, hcand, dbFloor, cfgFloor>>
      BY <1>13 DEF SwapTable, Step, handler, promises
    <2>2. FloorHolds'
      BY <2>1 DEF FloorInv, FloorHolds, ReadCoversFloor
    <2>3. SoloIsAlone' /\ ReadCoversFloor'
      BY <2>1 DEF FloorInv, SoloIsAlone, ReadCoversFloor, Idle, TypeOK, HandlerOK
    <2>4. SoloInstalled'
      BY <2>1 DEF FloorInv, SoloIsAlone, ReadCoversFloor, SoloInstalled, TableSwapped,
                  ConfigSwapped, Idle, TypeOK, HandlerOK
    <2> QED BY <2>2, <2>3, <2>4 DEF FloorInv
  <1>14. ASSUME NEW h \in Handlers, ParseFile(h)
         PROVE  FloorInv'
    <2>1. CASE AnswerError(h, "readcfg")
      BY <2>1, FloorAnswerError
    <2>2. CASE ~AnswerError(h, "readcfg")
      <3>1. cfgFloor <= Len(file) /\ hfver[h] <= Len(file)
        BY DEF TypeOK, StoreOK, PromisesOK, HandlerOK
      <3>2. /\ hpc[h] = "readcfg" /\ hpc' = [hpc EXCEPT ![h] = "swapcfg"]
            /\ hcand' = [hcand EXCEPT ![h] = Len(file)]
            /\ UNCHANGED <<tab, cfg, hver, hfver, hsolo, hsnap, dbFloor, cfgFloor>>
        BY <1>14, <2>2 DEF ParseFile, Step, view, handler, promises
      <3> QED BY <3>1, <3>2 DEF FloorInv, FloorHolds, SoloIsAlone, ReadCoversFloor, SoloInstalled,
               TableSwapped, ConfigSwapped, Idle, TypeOK, HandlerOK
    <2> QED BY <2>1, <2>2
  <1>15. ASSUME NEW h \in Handlers, SwapConfig(h)
         PROVE  FloorInv'
    <2>1. CASE AnswerError(h, "swapcfg")
      BY <2>1, FloorAnswerError
    <2>2. CASE ~AnswerError(h, "swapcfg")
      <3>1. /\ hpc[h] = "swapcfg" /\ hpc' = [hpc EXCEPT ![h] = "diff"] /\ cfg' = hcand[h]
            /\ UNCHANGED <<tab, hver, hfver, hsolo, hsnap, hcand, dbFloor, cfgFloor>>
        BY <1>15, <2>2 DEF SwapConfig, Step, handler, promises
      <3>2. FloorHolds'
        BY <3>1 DEF FloorInv, FloorHolds, ReadCoversFloor
      <3>3. SoloIsAlone' /\ ReadCoversFloor'
        BY <3>1 DEF FloorInv, SoloIsAlone, ReadCoversFloor, Idle, TypeOK, HandlerOK
      <3>4. SoloInstalled'
        BY <3>1 DEF FloorInv, SoloIsAlone, ReadCoversFloor, SoloInstalled, TableSwapped,
                    ConfigSwapped, Idle, TypeOK, HandlerOK
      <3> QED BY <3>2, <3>3, <3>4 DEF FloorInv
    <2> QED BY <2>1, <2>2
  <1>16. ASSUME NEW h \in Handlers, NEW p \in Ports,
                \/ BindPort(h, p) \/ RegisterPort(h, p)
                \/ UnregisterPort(h, p) \/ ClosePort(h, p)
         PROVE  FloorInv'
    <2>1. PICK to \in {"add", "register", "close"} :
             hpc[h] \in {"diff", "add", "register", "close"} /\ hpc' = [hpc EXCEPT ![h] = to]
      BY <1>16 DEF BindPort, RegisterPort, UnregisterPort, ClosePort, Step
    <2>2. UNCHANGED <<tab, cfg, hver, hfver, hsolo, hsnap, hcand, dbFloor, cfgFloor>>
      BY <1>16 DEF BindPort, RegisterPort, UnregisterPort, ClosePort, view, handler, promises
    <2> QED BY <2>1, <2>2 DEF FloorInv, FloorHolds, SoloIsAlone, ReadCoversFloor,
                   SoloInstalled, TableSwapped, ConfigSwapped, Idle, TypeOK, HandlerOK
  <1>17. ASSUME NEW h \in Handlers, DiffPorts(h)
         PROVE  FloorInv'
    <2>1. hpc[h] = "diff" /\ hpc' = [hpc EXCEPT ![h] = "add"]
      BY <1>17 DEF DiffPorts, Step
    <2>2. UNCHANGED <<tab, cfg, hver, hfver, hsolo, hsnap, hcand, dbFloor, cfgFloor>>
      BY <1>17 DEF DiffPorts, view, handler, promises
    <2> QED BY <2>1, <2>2 DEF FloorInv, FloorHolds, SoloIsAlone, ReadCoversFloor,
                   SoloInstalled, TableSwapped, ConfigSwapped, Idle, TypeOK, HandlerOK
  <1>18. ASSUME NEW h \in Handlers, AnswerOK(h)
         PROVE  FloorInv'
    <2>1. /\ hpc[h] = "add" /\ hpc' = [hpc EXCEPT ![h] = "idle"]
          /\ UNCHANGED <<tab, cfg, hver, hfver, hsolo, hsnap, hcand>>
      BY <1>18 DEF AnswerOK, Answer, Step, view
    <2>7. /\ dbFloor' = IF hsolo[h] THEN MaxOf(dbFloor, hver[h]) ELSE dbFloor
          /\ cfgFloor' = IF hsolo[h] THEN MaxOf(cfgFloor, hfver[h]) ELSE cfgFloor
      BY <1>18 DEF AnswerOK
    <2>2. dbFloor <= tab /\ cfgFloor <= cfg
      BY DEF FloorInv, FloorHolds
    <2>3. hsolo[h] => hver[h] <= tab /\ hfver[h] <= cfg
      BY <2>1 DEF FloorInv, SoloInstalled, TableSwapped, ConfigSwapped
    <2>4. FloorHolds'
      BY <2>1, <2>2, <2>3, <2>7 DEF FloorHolds, MaxOf
    <2>5. SoloIsAlone' /\ SoloInstalled'
      BY <2>1 DEF FloorInv, SoloIsAlone, SoloInstalled, TableSwapped, ConfigSwapped, Idle,
                  TypeOK, HandlerOK
    <2>6. ReadCoversFloor'
      <3>1. CASE hsolo[h]
        BY <2>1, <3>1 DEF FloorInv, SoloIsAlone, ReadCoversFloor, Idle, TypeOK, HandlerOK
      <3>2. CASE ~hsolo[h]
        BY <2>1, <2>7, <3>2 DEF FloorInv, ReadCoversFloor, TypeOK, HandlerOK
      <3> QED BY <3>1, <3>2
    <2> QED BY <2>4, <2>5, <2>6 DEF FloorInv
  <1> QED
    BY <1>1, <1>2, <1>3, <1>4, <1>5, <1>6, <1>7, <1>8, <1>9, <1>10, <1>11, <1>12, <1>13,
       <1>14, <1>15, <1>16, <1>17, <1>18, <1>19
       DEF Next, AdminNext, GatewayNext, ReloadStep, GatewayCrash, StartFatal

\* Whatever interleaving of reloads, failures, crashes and restarts follows,
\* the gateway's copies stay at least as recent as a reload that ran alone has
\* confirmed.
THEOREM FloorCorrect == Spec => []FloorHolds
  <1>1. TypeOK /\ FloorInv /\ [Next]_vars => FloorInv'
    BY FloorStep
  <1>2. FloorInv => FloorHolds
    BY DEF FloorInv
  <1> QED BY <1>1, <1>2, FloorInit, TypeCorrect, PTL DEF Spec

-----------------------------------------------------------------------------
(***************************************************************************)
(* Both copies implement ReadReplica.                                      *)
(***************************************************************************)

\* What a step may do to one authority, its copy and the promise: commit,
\* install or promise, one at a time.
OneAtATime(ver, copy, promise, nver, ncopy, npromise) ==
    \/ nver = ver + 1 /\ ncopy = copy /\ npromise = promise
    \/ nver = ver /\ npromise = promise
    \/ nver = ver /\ ncopy = copy /\ promise <= npromise

DbStep  == OneAtATime(Len(log), tab, dbFloor, Len(log'), tab', dbFloor')
CfgStep == OneAtATime(Len(file), cfg, cfgFloor, Len(file'), cfg', cfgFloor')

LEMMA NextStep ==
    ASSUME TypeOK, [Next]_vars
    PROVE  DbStep /\ CfgStep
  <1>0. StoreOK /\ dbFloor \in Nat /\ cfgFloor \in Nat
    BY DEF TypeOK, StoreOK, PromisesOK
  <1> USE <1>0 DEF DbStep, CfgStep, OneAtATime
  <1>1. ASSUME NEW a \in Admins, NEW s \in Serials, Revoke(a, s) \/ InsertCert(a, s)
        PROVE  DbStep /\ CfgStep
    <2>1. [db EXCEPT ![s] = "revoked"] \in Table /\ [db EXCEPT ![s] = "enabled"] \in Table
      <3>1. db \in Table
        BY DEF StoreOK, db
      <3> QED BY <3>1, SetStatus DEF Status
    <2>2. Len(log') = Len(log) + 1
      BY <1>1, <2>1, CommitGrows DEF Revoke, InsertCert
    <2> QED BY <1>1, <2>2 DEF Revoke, InsertCert, view, promises
  <1>2. ASSUME NEW a \in Admins, RollbackIssue(a)
        PROVE  DbStep /\ CfgStep
    <2>1. db \in Table
      BY DEF StoreOK, db
    <2>2. [db EXCEPT ![atgt[a]] = "absent"] \in Table
      BY <2>1, SetStatus DEF Status
    <2>3. Len(log') = Len(log) + 1 \/ log' = log
      BY <1>2, <2>2, CommitGrows DEF RollbackIssue
    <2> QED BY <1>2, <2>3 DEF RollbackIssue, view, promises
  <1>3. ASSUME NEW c \in Configs, EditFile(c) \/ \E a \in Admins : SaveConfig(a, c)
        PROVE  DbStep /\ CfgStep
    <2>1. Len(file') = Len(file) + 1
      BY <1>3, WriteGrows DEF EditFile, SaveConfig
    <2> QED BY <1>3, <2>1 DEF EditFile, SaveConfig, view, promises
  <1>4. ASSUME NEW a \in Admins,
               \/ FinalizeIssue(a) \/ TriggerFails(a) \/ TriggerTimesOut(a)
               \/ \E h \in Handlers : Trigger(a, h)
        PROVE  DbStep /\ CfgStep
    BY <1>4 DEF FinalizeIssue, TriggerFails, TriggerTimesOut, Trigger, store, view, promises
  <1>5. ASSUME \/ AdminCrash \/ AdminBoot \/ NextDay \/ ReadConfig \/ OpenStore
               \/ ListenReload \/ Die \/ UNCHANGED vars
        PROVE  DbStep /\ CfgStep
    BY <1>5 DEF AdminCrash, AdminBoot, NextDay, ReadConfig, OpenStore, ListenReload, Die,
                vars, store, view, promises
  <1>6. ASSUME NEW p \in Ports, StartListen(p) \/ StartRegister(p)
        PROVE  DbStep /\ CfgStep
    BY <1>6 DEF StartListen, StartRegister, store, view, promises
  <1>7. ASSUME NEW h \in Handlers,
               \/ ValidateReload(h) \/ BuildTable(h) \/ SwapTable(h)
               \/ ParseFile(h) \/ SwapConfig(h) \/ DiffPorts(h)
        PROVE  DbStep /\ CfgStep
    BY <1>7 DEF ValidateReload, BuildTable, SwapTable, ParseFile, SwapConfig, DiffPorts,
                AnswerError, Answer, store, view, promises
  <1>8. ASSUME NEW h \in Handlers, NEW p \in Ports,
               \/ BindPort(h, p) \/ RegisterPort(h, p)
               \/ UnregisterPort(h, p) \/ ClosePort(h, p)
        PROVE  DbStep /\ CfgStep
    BY <1>8 DEF BindPort, RegisterPort, UnregisterPort, ClosePort, store, view, promises
  <1>9. ASSUME NEW h \in Handlers, AnswerOK(h)
        PROVE  DbStep /\ CfgStep
    <2>1. hver[h] \in Nat /\ hfver[h] \in Nat
      BY DEF TypeOK, HandlerOK
    <2>2. dbFloor <= dbFloor' /\ cfgFloor <= cfgFloor'
      BY <1>9, <2>1 DEF AnswerOK, MaxOf
    <2> QED BY <1>9, <2>2 DEF AnswerOK, Answer, store, view
  <1>10. ASSUME NEW r \in Requests,
                \/ \E p \in Ports, s \in Serials \cup {Nobody} : Arrive(r, p, s)
                \/ \E b \in BOOLEAN : Decide(r, b)
         PROVE  DbStep /\ CfgStep
    BY <1>10 DEF Arrive, Decide, store, view, promises
  <1> QED
    BY <1>1, <1>2, <1>3, <1>4, <1>5, <1>6, <1>7, <1>8, <1>9, <1>10
       DEF Next, AdminNext, GatewayNext, ReloadStep, GatewayCrash, StartFatal

\* The gateway's table is a replica that keeps its promises.
THEOREM DbRefinement == Spec => DbRefines
  <1>1. Init => DbReplica!Init
    BY DEF Init, DbReplica!Init
  <1>2. TypeOK /\ TypeOK' /\ FloorHolds /\ FloorHolds' /\ [Next]_vars
        => [DbReplica!Next]_DbReplica!vars
    <2> SUFFICES ASSUME TypeOK, TypeOK', FloorHolds, FloorHolds', [Next]_vars
                 PROVE  DbReplica!Next
      OBVIOUS
    <2>1. DbStep
      BY NextStep
    <2>2. tab \in Nat /\ dbFloor \in Nat
      BY DEF TypeOK, ViewOK, PromisesOK
    <2>5. Len(log) \in Nat
      BY DEF TypeOK, StoreOK
    <2>6. Len(log') \in Nat
      BY DEF TypeOK, StoreOK
    <2>3. tab' \in 1 .. Len(log') /\ dbFloor' \in 0 .. Len(log')
      BY DEF TypeOK, ViewOK, PromisesOK
    <2>4. dbFloor <= tab /\ dbFloor' <= tab'
      BY DEF FloorHolds
    <2> QED BY <2>1, <2>2, <2>3, <2>4, <2>5, <2>6 DEF DbStep, OneAtATime, DbReplica!Next, DbReplica!Commit,
                              DbReplica!Install, DbReplica!Promise
  <1> QED BY <1>1, <1>2, TypeCorrect, FloorCorrect, PTL DEF Spec, DbRefines, DbReplica!Spec

\* So is its configuration.
THEOREM CfgRefinement == Spec => CfgRefines
  <1>1. Init => CfgReplica!Init
    BY DEF Init, CfgReplica!Init
  <1>2. TypeOK /\ TypeOK' /\ FloorHolds /\ FloorHolds' /\ [Next]_vars
        => [CfgReplica!Next]_CfgReplica!vars
    <2> SUFFICES ASSUME TypeOK, TypeOK', FloorHolds, FloorHolds', [Next]_vars
                 PROVE  CfgReplica!Next
      OBVIOUS
    <2>1. CfgStep
      BY NextStep
    <2>2. cfg \in Nat /\ cfgFloor \in Nat
      BY DEF TypeOK, ViewOK, PromisesOK
    <2>5. Len(file) \in Nat
      BY DEF TypeOK, StoreOK
    <2>6. Len(file') \in Nat
      BY DEF TypeOK, StoreOK
    <2>3. cfg' \in 1 .. Len(file') /\ cfgFloor' \in 0 .. Len(file')
      BY DEF TypeOK, ViewOK, PromisesOK
    <2>4. cfgFloor <= cfg /\ cfgFloor' <= cfg'
      BY DEF FloorHolds
    <2> QED BY <2>1, <2>2, <2>3, <2>4, <2>5, <2>6 DEF CfgStep, OneAtATime, CfgReplica!Next,
                              CfgReplica!Commit, CfgReplica!Install, CfgReplica!Promise
  <1> QED BY <1>1, <1>2, TypeCorrect, FloorCorrect, PTL DEF Spec, CfgRefines, CfgReplica!Spec

-----------------------------------------------------------------------------
(***************************************************************************)
(* The security fields.                                                    *)
(***************************************************************************)
LEMMA GateStep ==
    ASSUME TypeOK, GateAgrees, [Next]_vars
    PROVE  GateAgrees'
  <1>0. StoreOK /\ cfg \in 1 .. Len(file) /\ hcand \in [Handlers -> 1 .. Len(file)]
    BY DEF TypeOK, ViewOK, HandlerOK
  <1> USE <1>0 DEF GateAgrees
  <1>1. ASSUME NEW a \in Admins,
               \/ \E s \in Serials : Revoke(a, s) \/ InsertCert(a, s)
               \/ FinalizeIssue(a) \/ RollbackIssue(a)
               \/ TriggerFails(a) \/ TriggerTimesOut(a)
               \/ \E h \in Handlers : Trigger(a, h)
        PROVE  GateAgrees'
    BY <1>1 DEF Revoke, InsertCert, FinalizeIssue, RollbackIssue, TriggerFails,
                TriggerTimesOut, Trigger, store, view
  <1>2. ASSUME NEW c \in Configs, EditFile(c) \/ \E a \in Admins : SaveConfig(a, c)
        PROVE  GateAgrees'
    <2>1. file'[cfg] = file[cfg] /\ UNCHANGED view
      BY <1>2, WriteGrows DEF EditFile, SaveConfig
    <2> QED BY <2>1 DEF view
  <1>3. ASSUME AdminCrash \/ AdminBoot \/ NextDay \/ ReadConfig \/ OpenStore
               \/ ListenReload \/ Die \/ UNCHANGED vars
        PROVE  GateAgrees'
    BY <1>3 DEF AdminCrash, AdminBoot, NextDay, ReadConfig, OpenStore, ListenReload, Die,
                vars, store, view
  <1>4. ASSUME NEW p \in Ports, StartListen(p) \/ StartRegister(p)
        PROVE  GateAgrees'
    BY <1>4 DEF StartListen, StartRegister, store, view
  <1>5. ASSUME NEW h \in Handlers, SwapConfig(h)
        PROVE  GateAgrees'
    BY <1>5 DEF SwapConfig, Reloadable, AnswerError, Answer, store, view
  <1>6. ASSUME NEW h \in Handlers,
               \/ ValidateReload(h) \/ BuildTable(h) \/ SwapTable(h)
               \/ ParseFile(h) \/ DiffPorts(h) \/ AnswerOK(h)
               \/ \E p \in Ports : \/ BindPort(h, p) \/ RegisterPort(h, p)
                                  \/ UnregisterPort(h, p) \/ ClosePort(h, p)
        PROVE  GateAgrees'
    BY <1>6 DEF ValidateReload, BuildTable, SwapTable, ParseFile, DiffPorts, AnswerOK, BindPort,
                RegisterPort, UnregisterPort, ClosePort, AnswerError, Answer, store, view
  <1>7. ASSUME NEW r \in Requests,
               \/ \E p \in Ports, s \in Serials \cup {Nobody} : Arrive(r, p, s)
               \/ \E b \in BOOLEAN : Decide(r, b)
        PROVE  GateAgrees'
    BY <1>7 DEF Arrive, Decide, store, view
  <1> QED
    BY <1>1, <1>2, <1>3, <1>4, <1>5, <1>6, <1>7
       DEF Next, AdminNext, GatewayNext, ReloadStep, GatewayCrash, StartFatal

\* No sequence of edits, reloads and restarts separates the gate from the
\* configuration the gateway serves.
THEOREM GateCorrect == Spec => []GateAgrees
  <1>1. Init => GateAgrees
    BY DEF Init, GateAgrees
  <1> QED BY <1>1, GateStep, TypeCorrect, PTL DEF Spec

------------------------------------------------------------------------------
(***************************************************************************)
(* What mtls-gw serves while it reloads: the requests it admits, the       *)
(* sockets it holds, and what a reload that gives up halfway has done.     *)
(***************************************************************************)

(***************************************************************************)
(* Requests                                                                *)
(***************************************************************************)

\* A revoked serial is never enabled again; deleting its record, as a failed
\* issue does, leaves it unknown.
RevokedGone ==
    \A j \in 1 .. Len(log) : \A i \in 1 .. j : \A s \in Serials :
        log[i][s] = "revoked" => log[j][s] # "enabled"

\* A request began when no more was promised than now; one that is looked up
\* has a certificate.
Arrived ==
    \A r \in Requests :
        /\ rfloor[r] <= dbFloor
        /\ rpc[r] \in {"lookup", "allowed"} => rser[r] \in Serials

StaleInv == RevokedGone /\ Arrived /\ NoStaleAllow

LEMMA StaleInit == Init => StaleInv
  <1> SUFFICES ASSUME Init PROVE StaleInv
    OBVIOUS
  <1>1. PICK t \in [Serials -> {"absent", "enabled"}] : log = <<t>>
    BY DEF Init
  <1>2. Len(log) = 1 /\ log[1] = t
    BY <1>1
  <1>3. RevokedGone
    BY <1>2 DEF RevokedGone
  <1>4. Arrived /\ NoStaleAllow
    BY DEF Init, Arrived, NoStaleAllow
  <1> QED BY <1>3, <1>4 DEF StaleInv

\* A commit that enables no serial that has ever been revoked.
LEMMA CommitKeeps ==
    ASSUME TypeOK, StaleInv, NEW t \in Table, Commit(t),
           \A s \in Serials : t[s] = "enabled" =>
               \/ db[s] = "enabled"
               \/ \A i \in 1 .. Len(log) : log[i][s] = "absent",
           UNCHANGED <<rpc, rser, rfloor, dbFloor>>
    PROVE  StaleInv'
  <1>1. /\ Len(log) \in Nat /\ Len(log) >= 1 /\ Len(log') = Len(log) + 1
        /\ \A i \in 1 .. Len(log) : log'[i] = log[i]
        /\ log'[Len(log')] = t
    BY CommitGrows DEF TypeOK, StoreOK
  <1>2. RevokedGone'
    <2> SUFFICES ASSUME NEW j \in 1 .. Len(log'), NEW i \in 1 .. j, NEW s \in Serials,
                        log'[i][s] = "revoked"
                 PROVE  log'[j][s] # "enabled"
      BY DEF RevokedGone
    <2>1. CASE j \in 1 .. Len(log)
      <3>1. i \in 1 .. Len(log)
        BY <1>1, <2>1
      <3> QED BY <1>1, <2>1, <3>1 DEF StaleInv, RevokedGone
    <2>2. CASE j = Len(log') /\ i = j
      BY <2>2
    <2>3. CASE j = Len(log') /\ i \in 1 .. Len(log)
      <3>1. log[i][s] = "revoked" /\ db[s] # "enabled"
        BY <1>1, <2>3 DEF StaleInv, RevokedGone, db
      <3> QED BY <1>1, <2>3, <3>1
    <2> QED BY <1>1, <2>1, <2>2, <2>3
  <1>3. Arrived' /\ NoStaleAllow'
    <2>1. \A r \in Requests : rfloor[r] \in 0 .. Len(log)
      BY DEF TypeOK, RequestOK
    <2>2. \A r \in Requests : \A i \in 1 .. rfloor[r] : log'[i] = log[i]
      BY <1>1, <2>1
    <2> QED BY <2>2 DEF StaleInv, Arrived, NoStaleAllow
  <1> QED BY <1>2, <1>3 DEF StaleInv

\* Whatever promises more and admits nobody.
LEMMA StaleQuiet ==
    ASSUME StaleInv, UNCHANGED <<log, rser, rfloor>>,
           \A r \in Requests : rpc'[r] = rpc[r] \/ rpc'[r] = "idle",
           dbFloor' >= dbFloor, TypeOK, TypeOK'
    PROVE  StaleInv'
  <1>1. /\ dbFloor \in Nat /\ dbFloor' \in Nat
        /\ \A r \in Requests : rfloor[r] \in Nat
    BY DEF TypeOK, StoreOK, PromisesOK, RequestOK
  <1>2. RevokedGone'
    BY DEF StaleInv, RevokedGone
  <1>3. Arrived'
    BY <1>1 DEF StaleInv, Arrived
  <1>4. NoStaleAllow'
    BY DEF StaleInv, NoStaleAllow
  <1> QED BY <1>2, <1>3, <1>4 DEF StaleInv

LEMMA ArriveKeeps ==
    ASSUME TypeOK, StaleInv, NEW r \in Requests, NEW p \in Ports,
           NEW s \in Serials \cup {Nobody}, Arrive(r, p, s)
    PROVE  StaleInv'
  <1>1. /\ rser' = [rser EXCEPT ![r] = s] /\ rfloor' = [rfloor EXCEPT ![r] = dbFloor]
        /\ UNCHANGED <<log, dbFloor>>
    BY DEF Arrive, store, promises
  <1>2. PICK to \in {"noroute", "anonymous", "denied", "lookup"} :
           rpc' = [rpc EXCEPT ![r] = to] /\ (to = "lookup" => s # Nobody)
    BY DEF Arrive
  <1>3. RevokedGone'
    BY <1>1 DEF StaleInv, RevokedGone
  <1>4. Arrived'
    BY <1>1, <1>2 DEF TypeOK, RequestOK, PromisesOK, StoreOK, StaleInv, Arrived
  <1>5. NoStaleAllow'
    BY <1>1, <1>2 DEF TypeOK, RequestOK, StaleInv, NoStaleAllow
  <1> QED BY <1>3, <1>4, <1>5 DEF StaleInv

\* The decision: what was promised when the request came is in the table that it
\* is made with.
LEMMA DecideKeeps ==
    ASSUME TypeOK, FloorHolds, StaleInv, NEW r \in Requests, NEW b \in BOOLEAN, Decide(r, b)
    PROVE  StaleInv'
  <1>1. rpc[r] = "lookup" /\ UNCHANGED <<log, tab, rser, rfloor, dbFloor>>
    BY DEF Decide, store, view, promises
  <1>2. PICK to \in {"allowed", "denied"} :
           rpc' = [rpc EXCEPT ![r] = to] /\ (to = "allowed" => Registered(rser[r]))
    BY DEF Decide, Authorize
  <1>3. RevokedGone'
    BY <1>1 DEF StaleInv, RevokedGone
  <1>4. Arrived'
    BY <1>1, <1>2 DEF TypeOK, RequestOK, StaleInv, Arrived
  <1>5. ASSUME Registered(rser[r]) PROVE \A i \in 1 .. rfloor[r] : log[i][rser[r]] # "revoked"
    <2>1. rser[r] \in Serials /\ rfloor[r] <= dbFloor /\ dbFloor <= tab
      BY <1>1 DEF StaleInv, Arrived, FloorHolds
    <2>2. rfloor[r] \in Nat /\ dbFloor \in Nat /\ tab \in 1 .. Len(log) /\ Len(log) \in Nat
      BY DEF TypeOK, RequestOK, PromisesOK, StoreOK, ViewOK
    <2>3. log[tab][rser[r]] = "enabled"
      BY <1>5 DEF Registered
    <2>4. 1 .. rfloor[r] \subseteq 1 .. tab
      BY <2>1, <2>2
    <2> QED BY <2>1, <2>2, <2>3, <2>4 DEF StaleInv, RevokedGone
  <1>6. NoStaleAllow'
    BY <1>1, <1>2, <1>5 DEF TypeOK, RequestOK, StaleInv, NoStaleAllow
  <1> QED BY <1>3, <1>4, <1>6 DEF StaleInv

LEMMA StaleStep ==
    ASSUME TypeOK, TypeOK', FloorHolds, StaleInv, [Next]_vars
    PROVE  StaleInv'
  <1>0. /\ StoreOK /\ db \in Table /\ DbStep
        /\ dbFloor \in Nat
    BY NextStep DEF TypeOK, StoreOK, PromisesOK, db
  <1>1. ASSUME NEW a \in Admins, NEW s \in Serials, Revoke(a, s) \/ InsertCert(a, s)
        PROVE  StaleInv'
    <2>1. /\ [db EXCEPT ![s] = "revoked"] \in Table /\ [db EXCEPT ![s] = "enabled"] \in Table
          /\ \A q \in Serials : [db EXCEPT ![s] = "revoked"][q] = "enabled" => db[q] = "enabled"
          /\ \A q \in Serials \ {s} : [db EXCEPT ![s] = "enabled"][q] = db[q]
      BY <1>0, SetStatus DEF Status, Table
    <2>2. UNCHANGED <<rpc, rser, rfloor, dbFloor>>
      BY <1>1 DEF Revoke, InsertCert, request, promises
    <2>3. CASE Revoke(a, s)
      BY <2>1, <2>2, <2>3, CommitKeeps DEF Revoke
    <2>4. CASE InsertCert(a, s)
      <3>1. \A i \in 1 .. Len(log) : log[i][s] = "absent"
        BY <1>0, <2>4 DEF InsertCert, StoreOK
      <3> QED BY <2>1, <2>2, <2>4, <3>1, CommitKeeps DEF InsertCert
    <2> QED BY <1>1, <2>3, <2>4
  <1>2. ASSUME NEW a \in Admins, RollbackIssue(a)
        PROVE  StaleInv'
    <2>1. /\ [db EXCEPT ![atgt[a]] = "absent"] \in Table
          /\ \A q \in Serials : [db EXCEPT ![atgt[a]] = "absent"][q] = "enabled" => db[q] = "enabled"
      BY <1>0, SetStatus DEF Status, Table
    <2>2. UNCHANGED <<rpc, rser, rfloor, dbFloor>>
      BY <1>2 DEF RollbackIssue, request, promises
    <2>3. CASE log' = log
      BY <1>0, <2>2, <2>3, StaleQuiet
    <2>4. CASE Commit([db EXCEPT ![atgt[a]] = "absent"])
      BY <2>1, <2>2, <2>4, CommitKeeps
    <2> QED BY <1>2, <2>3, <2>4 DEF RollbackIssue
  <1>3. ASSUME UNCHANGED <<log, rser, rfloor>>,
               \A r \in Requests : rpc'[r] = rpc[r] \/ rpc'[r] = "idle"
        PROVE  StaleInv'
    <2>1. dbFloor' >= dbFloor
      <3>1. Len(log) \in Nat /\ Len(log') = Len(log)
        BY <1>0, <1>3 DEF StoreOK
      <3> QED BY <1>0, <3>1 DEF DbStep, OneAtATime
    <2> QED BY <1>3, <2>1, StaleQuiet
  <1>4. ASSUME NEW a \in Admins,
               \/ FinalizeIssue(a) \/ TriggerFails(a) \/ TriggerTimesOut(a)
               \/ \E h \in Handlers : Trigger(a, h)
               \/ \E c \in Configs : SaveConfig(a, c)
        PROVE  StaleInv'
    BY <1>3, <1>4 DEF FinalizeIssue, TriggerFails, TriggerTimesOut, Trigger, SaveConfig,
                      store, request
  <1>5. ASSUME \/ AdminCrash \/ AdminBoot \/ NextDay \/ ReadConfig \/ OpenStore
               \/ ListenReload \/ Die \/ UNCHANGED vars \/ \E c \in Configs : EditFile(c)
        PROVE  StaleInv'
    BY <1>3, <1>5 DEF AdminCrash, AdminBoot, NextDay, ReadConfig, OpenStore, ListenReload, Die,
                      EditFile, vars, store, request
  <1>6. ASSUME NEW p \in Ports, StartListen(p) \/ StartRegister(p)
        PROVE  StaleInv'
    BY <1>3, <1>6 DEF StartListen, StartRegister, store, request
  <1>7. ASSUME NEW h \in Handlers, ReloadStep(h)
        PROVE  StaleInv'
    <2>1. UNCHANGED <<log, rser, rfloor, rpc>>
      BY <1>7 DEF ReloadStep, ValidateReload, BuildTable, SwapTable, ParseFile, SwapConfig,
                  DiffPorts, BindPort, RegisterPort, UnregisterPort, ClosePort, AnswerOK,
                  AnswerError, Answer, store, request
    <2> QED BY <1>3, <2>1
  <1>8. ASSUME NEW r \in Requests,
               \/ \E p \in Ports, s \in Serials \cup {Nobody} : Arrive(r, p, s)
               \/ \E b \in BOOLEAN : Decide(r, b)
        PROVE  StaleInv'
    BY <1>8, ArriveKeeps, DecideKeeps
  <1> QED
    BY <1>1, <1>2, <1>4, <1>5, <1>6, <1>7, <1>8
       DEF Next, AdminNext, GatewayNext, GatewayCrash, StartFatal

\* A certificate whose revocation a reload that ran alone had confirmed before a
\* request came is not what lets the request through.
THEOREM StaleCorrect == Spec => []NoStaleAllow
  <1>1. StaleInv => NoStaleAllow
    BY DEF StaleInv
  <1> QED BY <1>1, StaleInit, StaleStep, TypeCorrect, FloorCorrect, PTL DEF Spec

-----------------------------------------------------------------------------
(***************************************************************************)
(* Sockets                                                                 *)
(***************************************************************************)

\* The socket that a handler has to register or to close, by where it is.
Hand(pc, add, rem) ==
    {p \in Ports : pc = "register" /\ NextIn(p, add)} \cup
    {p \in Ports : pc = "close" /\ NextIn(p, rem)}

Hands == [h \in Handlers |-> Hand(hpc[h], hadd[h], hrem[h])]

\* Every socket is in one place: the registry, a startup goroutine, one handler.
Owned(sock, regd, open, hands) ==
    /\ \A p \in Ports : p \in sock <=>
          p \in regd \/ p \in open \/ \E h \in Handlers : p \in hands[h]
    /\ regd \cap open = {}
    /\ \A h \in Handlers : hands[h] \cap (regd \cup open) = {}
    /\ \A g, h \in Handlers : g # h => hands[g] \cap hands[h] = {}

SocketInv == Owned(bound, reg, opening, Hands)

LEMMA HandsTypes == Hands \in [Handlers -> SUBSET Ports]
  BY DEF Hands, Hand

\* Only a handler at these two places has a socket, and not more than one.
LEMMA NoHand ==
    ASSUME NEW pc, pc \notin {"register", "close"}, NEW add, NEW rem
    PROVE  Hand(pc, add, rem) = {}
  BY DEF Hand

LEMMA NextIsOne ==
    ASSUME NEW p \in Ports, NEW q \in Ports, NEW S, NextIn(p, S), NextIn(q, S)
    PROVE  p = q
  BY SyncAssumption DEF NextIn

LEMMA HandRegister ==
    ASSUME NEW p \in Ports, NEW add, NEW rem, NextIn(p, add)
    PROVE  Hand("register", add, rem) = {p}
  BY NextIsOne DEF Hand

LEMMA HandClose ==
    ASSUME NEW p \in Ports, NEW add, NEW rem, NextIn(p, rem)
    PROVE  Hand("close", add, rem) = {p}
  BY NextIsOne DEF Hand

\* A handler's step changes its own hand only.
LEMMA HandsChange ==
    ASSUME NEW h \in Handlers,
           \A g \in Handlers \ {h} : hpc'[g] = hpc[g] /\ hadd'[g] = hadd[g] /\ hrem'[g] = hrem[g]
    PROVE  Hands' = [Hands EXCEPT ![h] = Hand(hpc'[h], hadd'[h], hrem'[h])]
  BY DEF Hands

LEMMA Listened ==
    ASSUME NEW sock, NEW regd, NEW open, NEW hands, NEW p \in Ports \ sock,
           Owned(sock, regd, open, hands)
    PROVE  Owned(sock \cup {p}, regd, open \cup {p}, hands)
  BY DEF Owned

LEMMA Enregistered ==
    ASSUME NEW sock, NEW regd, NEW open, NEW hands, NEW p \in open,
           Owned(sock, regd, open, hands)
    PROVE  Owned(sock, regd \cup {p}, open \ {p}, hands)
  BY DEF Owned

LEMMA HandBinds ==
    ASSUME NEW sock, NEW regd, NEW open, NEW hands \in [Handlers -> SUBSET Ports],
           NEW h \in Handlers, NEW p \in Ports \ sock, hands[h] = {},
           Owned(sock, regd, open, hands)
    PROVE  Owned(sock \cup {p}, regd, open, [hands EXCEPT ![h] = {p}])
  BY DEF Owned

LEMMA HandRegisters ==
    ASSUME NEW sock, NEW regd, NEW open, NEW hands \in [Handlers -> SUBSET Ports],
           NEW h \in Handlers, NEW p \in Ports, hands[h] = {p},
           Owned(sock, regd, open, hands)
    PROVE  Owned(sock, regd \cup {p}, open, [hands EXCEPT ![h] = {}])
  BY DEF Owned

LEMMA HandTakes ==
    ASSUME NEW sock, NEW regd, NEW open, NEW hands \in [Handlers -> SUBSET Ports],
           NEW h \in Handlers, NEW p \in regd, p \in Ports, hands[h] = {},
           Owned(sock, regd, open, hands)
    PROVE  Owned(sock, regd \ {p}, open, [hands EXCEPT ![h] = {p}])
  BY DEF Owned

LEMMA HandCloses ==
    ASSUME NEW sock, NEW regd, NEW open, NEW hands \in [Handlers -> SUBSET Ports],
           NEW h \in Handlers, NEW p \in Ports, hands[h] = {p},
           Owned(sock, regd, open, hands)
    PROVE  Owned(sock \ {p}, regd, open, [hands EXCEPT ![h] = {}])
  BY DEF Owned

LEMMA SocketInit == Init => SocketInv
  <1> SUFFICES ASSUME Init PROVE SocketInv
    OBVIOUS
  <1>1. \A h \in Handlers : Hands[h] = {}
    BY DEF Init, Hands, Hand
  <1> QED BY <1>1 DEF Init, SocketInv, Owned

\* Whatever leaves sockets and work alone, or ends the process.
LEMMA SocketQuiet ==
    ASSUME SocketInv, UNCHANGED <<sockets, hpc, hadd, hrem>>
    PROVE  SocketInv'
  BY DEF SocketInv, Hands, sockets

LEMMA SocketDie ==
    ASSUME Die
    PROVE  SocketInv'
  <1>1. \A h \in Handlers : Hands'[h] = {}
    BY DEF Die, Hands, Hand
  <1> QED BY <1>1 DEF Die, SocketInv, Owned

\* A handler that has no socket before and after its step.
LEMMA SocketEmptyHand ==
    ASSUME TypeOK, TypeOK', SocketInv, NEW h \in Handlers, UNCHANGED sockets,
           hpc[h] \notin {"register", "close"}, hpc'[h] \notin {"register", "close"},
           \A g \in Handlers \ {h} : hpc'[g] = hpc[g] /\ hadd'[g] = hadd[g] /\ hrem'[g] = hrem[g]
    PROVE  SocketInv'
  <1>1. hadd[h] \in SUBSET Ports /\ hrem[h] \in SUBSET Ports
    BY DEF TypeOK, PortWorkOK
  <1>2. hadd'[h] \in SUBSET Ports /\ hrem'[h] \in SUBSET Ports
    BY DEF TypeOK, PortWorkOK
  <1>3. Hand(hpc[h], hadd[h], hrem[h]) = {} /\ Hand(hpc'[h], hadd'[h], hrem'[h]) = {}
    BY NoHand
  <1>4. \A g \in Handlers : Hand(hpc'[g], hadd'[g], hrem'[g]) = Hand(hpc[g], hadd[g], hrem[g])
    BY <1>3
  <1>5. Hands' = Hands
    BY <1>4 DEF Hands
  <1> QED BY <1>5 DEF SocketInv, sockets

LEMMA PortStep ==
    ASSUME TypeOK, TypeOK', SocketInv, NEW h \in Handlers, NEW p \in Ports,
           BindPort(h, p) \/ RegisterPort(h, p) \/ UnregisterPort(h, p) \/ ClosePort(h, p)
    PROVE  SocketInv'
  <1>1. hadd[h] \in SUBSET Ports /\ hrem[h] \in SUBSET Ports /\ hpc \in [Handlers -> ReloadPC]
    BY DEF TypeOK, PortWorkOK, HandlerOK
  <1>2. hadd'[h] \in SUBSET Ports /\ hrem'[h] \in SUBSET Ports /\ hpc' \in [Handlers -> ReloadPC]
    BY DEF TypeOK, PortWorkOK, HandlerOK
  <1>3. \A g \in Handlers \ {h} : hpc'[g] = hpc[g] /\ hadd'[g] = hadd[g] /\ hrem'[g] = hrem[g]
    BY DEF BindPort, RegisterPort, UnregisterPort, ClosePort, Step, TypeOK, PortWorkOK, HandlerOK
  <1>4. Hands[h] = Hand(hpc[h], hadd[h], hrem[h])
    BY DEF Hands
  <1>5. CASE UNCHANGED sockets /\ hpc[h] = "add" /\ hpc'[h] = "add"
    BY <1>3, <1>5, SocketEmptyHand
  <1>6. CASE BindPort(h, p) /\ p \notin bound /\ hpc'[h] = "register"
    <2>1. /\ hpc[h] = "add" /\ NextIn(p, hadd'[h])
          /\ bound' = bound \cup {p} /\ UNCHANGED <<reg, opening>>
      BY <1>1, <1>6 DEF BindPort, Step
    <2>2. Hands[h] = {}
      BY <1>4, <2>1, NoHand
    <2>3. Hand(hpc'[h], hadd'[h], hrem'[h]) = {p}
      BY <1>6, <2>1, HandRegister
    <2>4. Hands' = [Hands EXCEPT ![h] = {p}]
      BY <1>3, <2>3, HandsChange
    <2> QED BY <1>6, <2>1, <2>2, <2>4, HandsTypes, HandBinds DEF SocketInv
  <1>7. CASE RegisterPort(h, p)
    <2>1. /\ hpc[h] = "register" /\ hpc'[h] = "add" /\ NextIn(p, hadd[h])
          /\ reg' = reg \cup {p} /\ UNCHANGED <<bound, opening>>
      BY <1>1, <1>7 DEF RegisterPort, Step
    <2>2. Hands[h] = {p}
      BY <1>4, <2>1, HandRegister
    <2>3. Hand(hpc'[h], hadd'[h], hrem'[h]) = {}
      BY <2>1, NoHand
    <2>4. Hands' = [Hands EXCEPT ![h] = {}]
      BY <1>3, <2>3, HandsChange
    <2> QED BY <2>1, <2>2, <2>4, HandsTypes, HandRegisters DEF SocketInv
  <1>8. CASE UnregisterPort(h, p) /\ p \in reg /\ hpc'[h] = "close"
    <2>1. /\ hpc[h] = "add" /\ NextIn(p, hrem'[h])
          /\ reg' = reg \ {p} /\ UNCHANGED <<bound, opening>>
      BY <1>1, <1>8 DEF UnregisterPort, Step
    <2>2. Hands[h] = {}
      BY <1>4, <2>1, NoHand
    <2>3. Hand(hpc'[h], hadd'[h], hrem'[h]) = {p}
      BY <1>8, <2>1, HandClose
    <2>4. Hands' = [Hands EXCEPT ![h] = {p}]
      BY <1>3, <2>3, HandsChange
    <2> QED BY <1>8, <2>1, <2>2, <2>4, HandsTypes, HandTakes DEF SocketInv
  <1>9. CASE ClosePort(h, p)
    <2>1. /\ hpc[h] = "close" /\ hpc'[h] = "add" /\ NextIn(p, hrem[h])
          /\ bound' = bound \ {p} /\ UNCHANGED <<reg, opening>>
      BY <1>1, <1>9 DEF ClosePort, Step
    <2>2. Hands[h] = {p}
      BY <1>4, <2>1, HandClose
    <2>3. Hand(hpc'[h], hadd'[h], hrem'[h]) = {}
      BY <2>1, NoHand
    <2>4. Hands' = [Hands EXCEPT ![h] = {}]
      BY <1>3, <2>3, HandsChange
    <2> QED BY <2>1, <2>2, <2>4, HandsTypes, HandCloses DEF SocketInv
  <1>10. ASSUME BindPort(h, p), ~(p \notin bound /\ hpc'[h] = "register")
         PROVE  UNCHANGED sockets /\ hpc[h] = "add" /\ hpc'[h] = "add"
    BY <1>1, <1>10 DEF BindPort, Step, sockets
  <1>11. ASSUME UnregisterPort(h, p), ~(p \in reg /\ hpc'[h] = "close")
         PROVE  UNCHANGED sockets /\ hpc[h] = "add" /\ hpc'[h] = "add"
    BY <1>1, <1>11 DEF UnregisterPort, Step, sockets
  <1> QED BY <1>5, <1>6, <1>7, <1>8, <1>9, <1>10, <1>11

LEMMA SocketStep ==
    ASSUME TypeOK, TypeOK', SocketInv, [Next]_vars
    PROVE  SocketInv'
  <1>0. hpc \in [Handlers -> ReloadPC]
    BY DEF TypeOK, HandlerOK
  <1>1. ASSUME NEW a \in Admins,
               \/ \E s \in Serials : Revoke(a, s) \/ InsertCert(a, s)
               \/ FinalizeIssue(a) \/ RollbackIssue(a) \/ TriggerFails(a) \/ TriggerTimesOut(a)
               \/ \E c \in Configs : SaveConfig(a, c)
        PROVE  SocketInv'
    BY <1>1, SocketQuiet DEF Revoke, InsertCert, FinalizeIssue, RollbackIssue, TriggerFails,
                             TriggerTimesOut, SaveConfig, handler
  <1>2. ASSUME NEW a \in Admins, NEW h \in Handlers, Trigger(a, h)
        PROVE  SocketInv'
    <2>1. UNCHANGED <<sockets, hadd, hrem>> /\ hpc[h] = "idle" /\ hpc' = [hpc EXCEPT ![h] = "validate"]
      BY <1>2 DEF Trigger, Idle
    <2> QED BY <1>0, <2>1, SocketEmptyHand
  <1>3. CASE \/ AdminCrash \/ AdminBoot \/ NextDay \/ ReadConfig \/ OpenStore
             \/ ListenReload \/ UNCHANGED vars \/ \E c \in Configs : EditFile(c)
    <2>1. CASE OpenStore
      BY <2>1 DEF OpenStore, SocketInv, Hands, handler
    <2> QED BY <1>3, <2>1, SocketQuiet DEF AdminCrash, AdminBoot, NextDay, ReadConfig, ListenReload,
                                           EditFile, vars, handler
  <1>4. CASE Die
    BY <1>4, SocketDie
  <1>5. ASSUME NEW p \in Ports, StartListen(p)
        PROVE  SocketInv'
    <2>1. /\ p \in Ports \ bound /\ bound' = bound \cup {p} /\ opening' = opening \cup {p}
          /\ reg' = reg /\ Hands' = Hands
      BY <1>5 DEF StartListen, Hands, handler
    <2> QED BY <2>1, Listened DEF SocketInv
  <1>6. ASSUME NEW p \in Ports, StartRegister(p)
        PROVE  SocketInv'
    <2>1. /\ p \in opening /\ opening' = opening \ {p} /\ reg' = reg \cup {p}
          /\ bound' = bound /\ Hands' = Hands
      BY <1>6 DEF StartRegister, Hands, handler
    <2> QED BY <2>1, Enregistered DEF SocketInv
  <1>7. ASSUME NEW h \in Handlers,
               \/ ValidateReload(h) \/ BuildTable(h) \/ SwapTable(h)
               \/ ParseFile(h) \/ SwapConfig(h) \/ DiffPorts(h) \/ AnswerOK(h)
        PROVE  SocketInv'
    <2>1. /\ UNCHANGED sockets
          /\ \A g \in Handlers \ {h} : hadd'[g] = hadd[g] /\ hrem'[g] = hrem[g]
      BY <1>7 DEF ValidateReload, BuildTable, SwapTable, ParseFile, SwapConfig, DiffPorts,
                  AnswerOK, AnswerError, Answer, handler, TypeOK, PortWorkOK
    <2>2. PICK from \in ReloadPC \ {"register", "close"}, to \in ReloadPC \ {"register", "close"} :
              Step(h, from, to)
      BY <1>7 DEF ValidateReload, BuildTable, SwapTable, ParseFile, SwapConfig, DiffPorts,
                  AnswerOK, AnswerError, Answer, ReloadPC
    <2> QED BY <1>0, <2>1, <2>2, SocketEmptyHand DEF Step
  <1>8. ASSUME NEW h \in Handlers, NEW p \in Ports,
               BindPort(h, p) \/ RegisterPort(h, p) \/ UnregisterPort(h, p) \/ ClosePort(h, p)
        PROVE  SocketInv'
    BY <1>8, PortStep
  <1>9. ASSUME NEW r \in Requests,
               \/ \E p \in Ports, s \in Serials \cup {Nobody} : Arrive(r, p, s)
               \/ \E b \in BOOLEAN : Decide(r, b)
        PROVE  SocketInv'
    BY <1>9, SocketQuiet DEF Arrive, Decide, handler
  <1> QED
    BY <1>1, <1>2, <1>3, <1>4, <1>5, <1>6, <1>7, <1>8, <1>9
       DEF Next, AdminNext, GatewayNext, ReloadStep, GatewayCrash, StartFatal

\* No listening socket is forgotten, whatever reloads, startup goroutines and
\* crashes fall together.
THEOREM ListenerCorrect == Spec => []NoLeakedListener
  <1>1. TypeOK /\ SocketInv => NoLeakedListener
    <2> SUFFICES ASSUME TypeOK, SocketInv PROVE NoLeakedListener
      OBVIOUS
    <2>1. \A h \in Handlers : InTheHandsOf(h) = Hands[h] /\ InTheHandsOf(h) \subseteq Ports
      BY DEF InTheHandsOf, Hands, Hand
    <2>2. bound \subseteq Ports /\ reg \subseteq Ports /\ opening \subseteq Ports
      BY DEF TypeOK, SocketsOK
    <2> QED BY <2>1, <2>2 DEF SocketInv, Owned, NoLeakedListener
  <1> QED BY <1>1, SocketInit, SocketStep, TypeCorrect, PTL DEF Spec

-----------------------------------------------------------------------------
(***************************************************************************)
(* The mixed state                                                         *)
(***************************************************************************)
Tabling == {"readdb", "swapdb", "readcfg", "swapcfg"}

\* What a reload has validated is what it will find, unless the file was written:
\* the file still parses and asks for the gate that is fixed.
Checked ==
    \A h \in Handlers :
        /\ hpc[h] # "idle" => gpc = "up"
        /\ hpc[h] \in Tabling /\ Len(file) = hfver[h] =>
              disk \in Parses /\ IPBind[disk] = gate
        /\ hpc[h] = "swapcfg" => hcand[h] >= hfver[h]

LEMMA CheckedInit == Init => Checked
  BY DEF Init, Checked, Tabling

\* A step of the world around the handlers.
LEMMA CheckedQuiet ==
    ASSUME Checked, UNCHANGED <<file, gpc, gate, hfver, hcand, hpc>>
    PROVE  Checked'
  BY DEF Checked, disk

LEMMA CheckedWrite ==
    ASSUME TypeOK, Checked, NEW c \in Configs, WriteFile(c),
           UNCHANGED <<gpc, hpc, hfver, hcand>>
    PROVE  Checked'
  <1>1. Len(file) \in Nat /\ Len(file') = Len(file) + 1
    BY WriteGrows DEF TypeOK, StoreOK
  <1>2. \A h \in Handlers : hfver[h] \in 1 .. Len(file)
    BY DEF TypeOK, HandlerOK
  <1>3. \A h \in Handlers : Len(file') # hfver[h]
    BY <1>1, <1>2
  <1> QED BY <1>3 DEF Checked

LEMMA CheckedStep ==
    ASSUME TypeOK, GateAgrees, Checked, [Next]_vars
    PROVE  Checked'
  <1>0. /\ hpc \in [Handlers -> ReloadPC] /\ Len(file) \in Nat
        /\ hfver \in [Handlers -> 1 .. Len(file)] /\ hcand \in [Handlers -> 1 .. Len(file)]
    BY DEF TypeOK, HandlerOK, StoreOK
  <1>1. ASSUME NEW a \in Admins,
               \/ \E s \in Serials : Revoke(a, s) \/ InsertCert(a, s)
               \/ FinalizeIssue(a) \/ RollbackIssue(a) \/ TriggerFails(a) \/ TriggerTimesOut(a)
        PROVE  Checked'
    BY <1>1, CheckedQuiet DEF Revoke, InsertCert, FinalizeIssue, RollbackIssue, TriggerFails,
                              TriggerTimesOut, store, view, handler
  <1>2. ASSUME NEW c \in Configs, EditFile(c) \/ \E a \in Admins : SaveConfig(a, c)
        PROVE  Checked'
    BY <1>2, CheckedWrite DEF EditFile, SaveConfig, view, handler
  <1>3. ASSUME NEW a \in Admins, NEW h \in Handlers, Trigger(a, h)
        PROVE  Checked'
    <2>1. /\ gpc = "up" /\ hpc' = [hpc EXCEPT ![h] = "validate"]
          /\ hfver' = [hfver EXCEPT ![h] = Len(file)]
          /\ UNCHANGED <<file, gpc, gate, hcand>>
      BY <1>3 DEF Trigger, up, store, view
    <2> QED BY <1>0, <2>1 DEF Checked, disk, Tabling
  <1>4. CASE \/ AdminCrash \/ AdminBoot \/ NextDay \/ UNCHANGED vars
    BY <1>4, CheckedQuiet DEF AdminCrash, AdminBoot, NextDay, vars, store, view, handler
  <1>5. CASE ReadConfig \/ OpenStore \/ ListenReload
    <2>1. \A h \in Handlers : hpc'[h] = "idle"
      BY <1>5 DEF ReadConfig, OpenStore, ListenReload, Checked
    <2> QED BY <2>1 DEF Checked, Tabling
  <1>6. CASE Die
    BY <1>6 DEF Die, Checked, Tabling
  <1>7. ASSUME NEW p \in Ports, StartListen(p) \/ StartRegister(p)
        PROVE  Checked'
    BY <1>7, CheckedQuiet DEF StartListen, StartRegister, store, view, handler
  <1>8. ASSUME NEW h \in Handlers, AnswerOK(h) \/ \E from \in ReloadPC : AnswerError(h, from)
        PROVE  Checked'
    <2>1. UNCHANGED <<file, gpc, gate, hfver, hcand>> /\ hpc' = [hpc EXCEPT ![h] = "idle"]
      BY <1>8 DEF AnswerOK, AnswerError, Answer, Step, store, view
    <2>2. \A g \in Handlers : hpc'[g] = hpc[g] \/ hpc'[g] = "idle"
      BY <1>0, <2>1
    <2> QED BY <2>1, <2>2 DEF Checked, disk, Tabling
  <1>9. ASSUME NEW h \in Handlers, ValidateReload(h), ~AnswerError(h, "validate")
        PROVE  Checked'
    <2>1. /\ hpc[h] = "validate" /\ hpc' = [hpc EXCEPT ![h] = "readdb"]
          /\ UNCHANGED <<file, gpc, gate, cfg, hfver, hcand>>
      BY <1>9 DEF ValidateReload, Step, store, view, handler
    <2>2. gpc = "up" /\ disk \in Parses /\ IPBind[disk] = gate
      BY <1>9, <2>1 DEF ValidateReload, Checked, Reloadable, GateAgrees
    <2> QED BY <1>0, <2>1, <2>2 DEF Checked, disk, Tabling
  <1>10. ASSUME NEW h \in Handlers, NEW from \in ReloadPC, NEW to \in ReloadPC,
                Step(h, from, to), from # "idle",
                to \in Tabling => from \in Tabling,
                to = "swapcfg" => hcand'[h] >= hfver[h],
                \A g \in Handlers \ {h} : hcand'[g] = hcand[g],
                UNCHANGED <<file, gpc, gate, hfver>>
         PROVE  Checked'
    BY <1>0, <1>10 DEF Checked, Step, disk, Tabling
  <1>11. ASSUME NEW h \in Handlers,
                \/ SwapTable(h) \/ DiffPorts(h)
                \/ BuildTable(h) /\ ~AnswerError(h, "readdb")
                \/ SwapConfig(h) /\ ~AnswerError(h, "swapcfg")
                \/ \E p \in Ports : BindPort(h, p) \/ RegisterPort(h, p)
                                   \/ UnregisterPort(h, p) \/ ClosePort(h, p)
         PROVE  Checked'
    <2>1. UNCHANGED <<file, gpc, gate, hfver, hcand>>
      BY <1>11 DEF SwapTable, DiffPorts, BuildTable, SwapConfig, BindPort, RegisterPort,
                   UnregisterPort, ClosePort, store, view, handler
    <2>2. PICK from \in ReloadPC \ {"idle"}, to \in ReloadPC \ {"swapcfg"} :
              Step(h, from, to) /\ (to \in Tabling => from \in Tabling)
      BY <1>11 DEF SwapTable, DiffPorts, BuildTable, SwapConfig, BindPort, RegisterPort,
                   UnregisterPort, ClosePort, ReloadPC, Tabling
    <2> QED BY <1>10, <2>1, <2>2
  <1>12. ASSUME NEW h \in Handlers, ParseFile(h), ~AnswerError(h, "readcfg")
         PROVE  Checked'
    <2>1. /\ Step(h, "readcfg", "swapcfg") /\ hcand' = [hcand EXCEPT ![h] = Len(file)]
          /\ UNCHANGED <<file, gpc, gate, hfver>>
      BY <1>12 DEF ParseFile, store, view
    <2>2. hcand'[h] >= hfver[h]
      BY <1>0, <2>1
    <2> QED BY <1>0, <1>10, <2>1, <2>2 DEF ReloadPC, Tabling
  <1>13. ASSUME NEW r \in Requests,
                \/ \E p \in Ports, s \in Serials \cup {Nobody} : Arrive(r, p, s)
                \/ \E b \in BOOLEAN : Decide(r, b)
         PROVE  Checked'
    BY <1>13, CheckedQuiet DEF Arrive, Decide, store, view, handler
  <1>14. ASSUME NEW h \in Handlers, ReloadStep(h)
         PROVE  Checked'
    <2>1. \A from \in {"validate", "readdb", "readcfg", "swapcfg"} : AnswerError(h, from) => Checked'
      BY <1>8 DEF ReloadPC
    <2>2. ValidateReload(h) => Checked'
      BY <1>9, <2>1 DEF ValidateReload
    <2> QED BY <1>8, <1>11, <1>12, <1>14, <2>1, <2>2 DEF ReloadStep
  <1> QED
    BY <1>1, <1>2, <1>3, <1>4, <1>5, <1>6, <1>7, <1>13, <1>14
       DEF Next, AdminNext, GatewayNext, GatewayCrash, StartFatal

LEMMA CheckedAlways == Spec => []Checked
  BY CheckedInit, CheckedStep, TypeCorrect, GateCorrect, PTL DEF Spec

\* A reload that has replaced the table gives up on the configuration only if the
\* file was written after it had begun, or could not be read although its content
\* is acceptable.
THEOREM MixedCorrect == Spec => MixedCanRetry
  <1>1. ASSUME TypeOK, GateAgrees, Checked, [Next]_vars,
               NEW h \in Handlers, hpc[h] \in {"readcfg", "swapcfg"}, hpc'[h] = "idle", gpc' = "up"
        PROVE  \/ Len(file) > hfver[h]
               \/ "file" \in Faults /\ hpc[h] = "readcfg" /\ Reloadable(disk)
    <2>0. /\ hpc \in [Handlers -> ReloadPC] /\ hpc[h] # "idle" /\ hpc'[h] # hpc[h]
          /\ Len(file) \in Nat /\ hfver[h] \in 1 .. Len(file) /\ hcand[h] \in 1 .. Len(file)
      BY <1>1 DEF TypeOK, HandlerOK, StoreOK
    <2> SUFFICES ASSUME Len(file) = hfver[h]
                 PROVE  "file" \in Faults /\ hpc[h] = "readcfg" /\ Reloadable(disk)
      BY <2>0
    <2>1. /\ gpc = "up" /\ disk \in Parses /\ IPBind[disk] = IPBind[file[cfg]]
          /\ hpc[h] = "swapcfg" => hcand[h] = Len(file)
      BY <1>1, <2>0 DEF Checked, Tabling, GateAgrees
    <2>2. PICK g \in Handlers : ReloadStep(g)
      BY <1>1, <2>0
      DEF Next, AdminNext, GatewayNext, GatewayCrash, StartFatal, vars, Die,
          Revoke, InsertCert, FinalizeIssue, RollbackIssue, SaveConfig, Trigger, TriggerFails,
          TriggerTimesOut, AdminCrash, AdminBoot, EditFile, NextDay, ReadConfig, OpenStore,
          ListenReload, StartListen, StartRegister, Arrive, Decide
    <2>3. PICK from \in ReloadPC, to \in ReloadPC : Step(g, from, to)
      BY <2>2 DEF ReloadStep, ValidateReload, BuildTable, SwapTable, ParseFile, SwapConfig,
                  DiffPorts, BindPort, RegisterPort, UnregisterPort, ClosePort, AnswerOK,
                  AnswerError, Answer, ReloadPC
    <2>4. g = h
      BY <2>0, <2>3 DEF Step
    <2>5. ParseFile(h) \/ SwapConfig(h)
      BY <1>1, <2>2, <2>4
      DEF ReloadStep, ValidateReload, BuildTable, SwapTable, DiffPorts, BindPort, RegisterPort,
          UnregisterPort, ClosePort, AnswerOK, AnswerError, Answer, Step
    <2>6. CASE ParseFile(h)
      <3>1. hpc[h] = "readcfg" /\ (disk \notin Parses \/ "file" \in Faults)
        BY <1>1, <2>0, <2>6 DEF ParseFile, Step, AnswerError, Answer
      <3> QED BY <2>1, <3>1 DEF Reloadable
    <2>7. CASE SwapConfig(h)
      BY <1>1, <2>0, <2>1, <2>7 DEF SwapConfig, Step, Reloadable, AnswerError, Answer, disk
    <2> QED BY <2>5, <2>6, <2>7
  <1>2. TypeOK /\ GateAgrees /\ Checked /\ [Next]_vars =>
          [\A h \in Handlers :
              hpc[h] \in {"readcfg", "swapcfg"} /\ hpc'[h] = "idle" /\ gpc' = "up"
              => \/ Len(file) > hfver[h]
                 \/ "file" \in Faults /\ hpc[h] = "readcfg" /\ Reloadable(disk)]_vars
    BY <1>1
  <1> QED BY <1>2, CheckedAlways, TypeCorrect, GateCorrect, PTL DEF Spec, MixedCanRetry

-----------------------------------------------------------------------------
(***************************************************************************)
(* The ports that are served                                               *)
(***************************************************************************)
Porting == {"add", "register", "close"}

\* What a reload that nobody disturbs knows of the ports: the registry is the one
\* it has seen at its start, and then what it has still to do leads from there to
\* the ports of the router.
Served(h) ==
    /\ pending = {} /\ opening = {}
    /\ hpc[h] \notin Porting => hold[h] = reg
    /\ hpc[h] \in Porting =>
          /\ hadd[h] \subseteq Listens[file[cfg]] /\ hrem[h] \cap Listens[file[cfg]] = {}
          /\ reg \subseteq Listens[file[cfg]] \cup hrem[h]
          /\ Listens[file[cfg]] \subseteq reg \cup hadd[h] \cup hfail[h]

Undisturbed(h) == hsolo[h] /\ ~hboot[h] /\ ~Idle(h)

PortInv == \A h \in Handlers : Undisturbed(h) => Served(h)

ports == <<pending, opening, reg, hpc, hsolo, hboot, hold, hadd, hrem, hfail>>

LEMMA PortInit == Init => PortInv
  BY DEF Init, PortInv, Undisturbed, Idle

LEMMA PortQuiet ==
    ASSUME PortInv, UNCHANGED <<ports, cfg>>, file'[cfg] = file[cfg]
    PROVE  PortInv'
  BY DEF PortInv, Undisturbed, Served, Idle, ports

\* The step of a handler: any other one that is undisturbed has ended.
LEMMA PortHandler ==
    ASSUME TypeOK, SoloIsAlone, PortInv, NEW h \in Handlers, NEW from, NEW to,
           Step(h, from, to), from # "idle",
           UNCHANGED <<hsolo, hboot>>,
           to # "idle" /\ Undisturbed(h) => Served(h)'
    PROVE  PortInv'
  <1>1. /\ hpc[h] = from /\ hpc'[h] = to
        /\ \A g \in Handlers \ {h} : hpc'[g] = hpc[g]
    BY DEF Step, TypeOK, HandlerOK
  <1>2. ASSUME NEW g \in Handlers, Undisturbed(g)'
        PROVE  g = h
    BY <1>1, <1>2 DEF SoloIsAlone, Undisturbed, Idle
  <1>3. Undisturbed(h)' => to # "idle" /\ Undisturbed(h)
    BY <1>1 DEF Undisturbed, Idle
  <1> QED BY <1>2, <1>3 DEF PortInv

LEMMA BindServes ==
    ASSUME TypeOK, NEW h \in Handlers, NEW p \in Ports, BindPort(h, p), Served(h)
    PROVE  Served(h)'
  <1>1. /\ hpc[h] = "add" /\ hpc'[h] \in {"add", "register"}
        /\ UNCHANGED <<pending, opening, reg, hrem, file, cfg>>
        /\ \/ UNCHANGED <<hadd, hfail>>
           \/ /\ hadd' = [hadd EXCEPT ![h] = @ \ {p}]
              /\ hfail' = [hfail EXCEPT ![h] = @ \cup {p}]
    BY DEF BindPort, Step, store, view, TypeOK, HandlerOK
  <1> QED BY <1>1 DEF Served, Porting, TypeOK, PortWorkOK

LEMMA RegisterServes ==
    ASSUME TypeOK, NEW h \in Handlers, NEW p \in Ports, RegisterPort(h, p), Served(h)
    PROVE  Served(h)'
  <1>1. /\ hpc[h] = "register" /\ hpc'[h] = "add" /\ p \in hadd[h]
        /\ reg' = reg \cup {p} /\ hadd' = [hadd EXCEPT ![h] = @ \ {p}]
        /\ UNCHANGED <<pending, opening, hrem, hfail, file, cfg>>
    BY DEF RegisterPort, Step, NextIn, store, view, TypeOK, HandlerOK
  <1> QED BY <1>1 DEF Served, Porting, TypeOK, PortWorkOK

LEMMA UnregisterServes ==
    ASSUME TypeOK, NEW h \in Handlers, NEW p \in Ports, UnregisterPort(h, p), Served(h)
    PROVE  Served(h)'
  <1>1. /\ hpc[h] = "add" /\ hpc'[h] \in {"add", "close"} /\ p \in hrem[h]
        /\ \/ reg' = reg \ {p} /\ UNCHANGED hrem
           \/ p \notin reg /\ hrem' = [hrem EXCEPT ![h] = @ \ {p}] /\ UNCHANGED reg
        /\ UNCHANGED <<pending, opening, hadd, hfail, file, cfg>>
    BY DEF UnregisterPort, Step, NextIn, store, view, TypeOK, HandlerOK
  <1> QED BY <1>1 DEF Served, Porting, TypeOK, PortWorkOK

LEMMA CloseServes ==
    ASSUME TypeOK, SocketInv, NEW h \in Handlers, NEW p \in Ports, ClosePort(h, p), Served(h)
    PROVE  Served(h)'
  <1>1. /\ hpc[h] = "close" /\ hpc'[h] = "add" /\ NextIn(p, hrem[h])
        /\ hrem' = [hrem EXCEPT ![h] = @ \ {p}]
        /\ UNCHANGED <<pending, opening, reg, hadd, hfail, file, cfg>>
    BY DEF ClosePort, Step, store, view, TypeOK, HandlerOK
  <1>2. p \notin reg
    BY <1>1, HandClose DEF SocketInv, Owned, Hands
  <1> QED BY <1>1, <1>2 DEF Served, Porting, TypeOK, PortWorkOK

LEMMA DiffServes ==
    ASSUME TypeOK, NEW h \in Handlers, DiffPorts(h), Served(h)
    PROVE  Served(h)'
  <1>1. /\ hpc[h] = "diff" /\ hpc'[h] = "add"
        /\ hadd' = [hadd EXCEPT ![h] = Listens[file[cfg]] \ hold[h]]
        /\ hrem' = [hrem EXCEPT ![h] = hold[h] \ Listens[file[cfg]]]
        /\ UNCHANGED <<pending, opening, reg, file, cfg>>
    BY DEF DiffPorts, Step, sockets, store, view, TypeOK, HandlerOK
  <1> QED BY <1>1 DEF Served, Porting, TypeOK, PortWorkOK

LEMMA PortInvStep ==
    ASSUME TypeOK, FloorInv, Checked, SocketInv, PortInv, [Next]_vars
    PROVE  PortInv'
  <1>0. /\ SoloIsAlone /\ hpc \in [Handlers -> ReloadPC] /\ cfg \in 1 .. Len(file)
        /\ hsolo \in [Handlers -> BOOLEAN] /\ hboot \in [Handlers -> BOOLEAN]
        /\ hold \in [Handlers -> SUBSET Ports]
    BY DEF TypeOK, HandlerOK, PortWorkOK, ViewOK, FloorInv
  <1>1. ASSUME NEW a \in Admins,
               \/ \E s \in Serials : Revoke(a, s) \/ InsertCert(a, s)
               \/ FinalizeIssue(a) \/ RollbackIssue(a) \/ TriggerFails(a) \/ TriggerTimesOut(a)
        PROVE  PortInv'
    <2>1. UNCHANGED <<ports, cfg, file>>
      BY <1>1 DEF Revoke, InsertCert, FinalizeIssue, RollbackIssue, TriggerFails,
                  TriggerTimesOut, ports, store, view, sockets, handler
    <2> QED BY <2>1, PortQuiet
  <1>2. ASSUME NEW c \in Configs, EditFile(c) \/ \E a \in Admins : SaveConfig(a, c)
        PROVE  PortInv'
    <2>1. UNCHANGED <<ports, cfg>> /\ WriteFile(c)
      BY <1>2 DEF EditFile, SaveConfig, ports, view, sockets, handler
    <2>2. file'[cfg] = file[cfg]
      BY <1>0, <2>1, WriteGrows DEF TypeOK
    <2> QED BY <2>1, <2>2, PortQuiet
  <1>3. ASSUME NEW a \in Admins, NEW h \in Handlers, Trigger(a, h)
        PROVE  PortInv'
    <2>1. /\ hpc' = [hpc EXCEPT ![h] = "validate"]
          /\ hsolo' = [g \in Handlers |-> IF g = h THEN Active = {} ELSE hsolo[g] /\ Idle(g)]
          /\ hboot' = [hboot EXCEPT ![h] = pending \cup opening # {}]
          /\ hold' = [hold EXCEPT ![h] = reg]
          /\ UNCHANGED <<pending, opening, reg>>
      BY <1>3 DEF Trigger, sockets
    <2>2. ASSUME NEW g \in Handlers \ {h} PROVE ~Undisturbed(g)'
      BY <1>0, <2>1 DEF Undisturbed, Idle
    <2>3. ~hboot'[h] => pending' = {} /\ opening' = {}
      BY <1>0, <2>1
    <2>4. hpc'[h] \notin Porting /\ hold'[h] = reg'
      BY <1>0, <2>1 DEF Porting
    <2> QED BY <2>2, <2>3, <2>4 DEF PortInv, Undisturbed, Served
  <1>4. CASE AdminCrash \/ AdminBoot \/ NextDay \/ UNCHANGED vars
    <2>1. UNCHANGED <<ports, cfg, file>>
      BY <1>4 DEF AdminCrash, AdminBoot, NextDay, vars, ports, store, view, sockets, handler
    <2> QED BY <2>1, PortQuiet
  <1>5. CASE ReadConfig \/ OpenStore \/ ListenReload \/ Die
    <2>1. \A h \in Handlers : hpc'[h] = "idle"
      BY <1>5 DEF ReadConfig, OpenStore, ListenReload, Die, Checked
    <2> QED BY <2>1 DEF PortInv, Undisturbed, Idle
  <1>6. ASSUME NEW p \in Ports, StartListen(p) \/ StartRegister(p)
        PROVE  PortInv'
    <2>1. \A h \in Handlers : ~Undisturbed(h)
      BY <1>6 DEF StartListen, StartRegister, PortInv, Served
    <2>2. UNCHANGED <<hpc, hsolo, hboot>>
      BY <1>6 DEF StartListen, StartRegister, handler
    <2> QED BY <2>1, <2>2 DEF PortInv, Undisturbed, Idle
  <1>7. ASSUME NEW h \in Handlers,
               \/ ValidateReload(h) \/ BuildTable(h) \/ SwapTable(h)
               \/ ParseFile(h) \/ SwapConfig(h)
        PROVE  PortInv'
    <2>1. UNCHANGED <<sockets, hold, hsolo, hboot>>
      BY <1>7 DEF ValidateReload, BuildTable, SwapTable, ParseFile, SwapConfig,
                  AnswerError, Answer, handler
    <2>2. PICK from \in ReloadPC \ (Porting \cup {"idle"}), to \in ReloadPC \ Porting : Step(h, from, to)
      BY <1>7 DEF ValidateReload, BuildTable, SwapTable, ParseFile, SwapConfig,
                  AnswerError, Answer, ReloadPC, Porting
    <2>3. Served(h) => Served(h)'
      BY <1>0, <2>1, <2>2 DEF Served, Step, sockets
    <2> QED BY <1>0, <2>1, <2>2, <2>3, PortHandler DEF PortInv
  <1>8. ASSUME NEW h \in Handlers, DiffPorts(h) \/ AnswerOK(h)
        PROVE  PortInv'
    <2>1. UNCHANGED <<hsolo, hboot>> /\ (Step(h, "diff", "add") \/ Step(h, "add", "idle"))
      BY <1>8 DEF DiffPorts, AnswerOK, Answer
    <2>2. CASE DiffPorts(h)
      BY <1>0, <2>1, <2>2, DiffServes, PortHandler DEF PortInv, DiffPorts
    <2>3. CASE AnswerOK(h)
      BY <1>0, <2>1, <2>3, PortHandler DEF AnswerOK, Answer
    <2> QED BY <1>8, <2>2, <2>3
  <1>9. ASSUME NEW h \in Handlers, NEW p \in Ports,
               BindPort(h, p) \/ RegisterPort(h, p) \/ UnregisterPort(h, p) \/ ClosePort(h, p)
        PROVE  PortInv'
    <2>1. UNCHANGED <<hsolo, hboot>>
      BY <1>9 DEF BindPort, RegisterPort, UnregisterPort, ClosePort
    <2>2. PICK from \in Porting, to \in Porting : Step(h, from, to)
      BY <1>9 DEF BindPort, RegisterPort, UnregisterPort, ClosePort, Porting
    <2>3. Served(h) => Served(h)'
      BY <1>9, BindServes, RegisterServes, UnregisterServes, CloseServes
    <2> QED BY <1>0, <2>1, <2>2, <2>3, PortHandler DEF PortInv, Porting
  <1>10. ASSUME NEW r \in Requests,
                \/ \E p \in Ports, s \in Serials \cup {Nobody} : Arrive(r, p, s)
                \/ \E b \in BOOLEAN : Decide(r, b)
         PROVE  PortInv'
    <2>1. UNCHANGED <<ports, cfg, file>>
      BY <1>10 DEF Arrive, Decide, ports, store, view, sockets, handler
    <2> QED BY <2>1, PortQuiet
  <1> QED
    BY <1>1, <1>2, <1>3, <1>4, <1>5, <1>6, <1>7, <1>8, <1>9, <1>10
       DEF Next, AdminNext, GatewayNext, ReloadStep, GatewayCrash, StartFatal

\* A reload that ran alone on a started gateway answers when the ports served are
\* those of the router it has installed, less those that could not be listened on.
THEOREM PortsCorrect == Spec => []PortsFollowRouter
  <1>1. PortInv => PortsFollowRouter
    BY DEF PortInv, Undisturbed, Served, Porting, Idle, PortsFollowRouter
  <1>2. Spec => [](TypeOK /\ FloorInv /\ SocketInv)
    BY FloorInit, FloorStep, SocketInit, SocketStep, TypeCorrect, PTL DEF Spec
  <1> QED BY <1>1, <1>2, CheckedAlways, PortInit, PortInvStep, PTL DEF Spec

=============================================================================
