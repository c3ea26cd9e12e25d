------------------------------ MODULE AdminIssue ------------------------------
(***************************************************************************)
(* Issuing certificates in mtls-admin: concurrent IssueCert requests       *)
(* (internal/api/api.go) over the certificate table (internal/db) and the  *)
(* certificate directory, and the set of declared roles that configuration *)
(* requests refresh (cmd/mtls-admin/main.go, changed).                     *)
(*                                                                         *)
(* A request writes its files under a name of its own, ".tmp-<serial>",    *)
(* registers the record and renames the directory to the device's name.    *)
(* The serial is random: no two requests have the same.                    *)
(***************************************************************************)
EXTENDS FiniteSets, Integers, Sequences, SequencesExt

CONSTANTS
    Requests,  \* concurrent requests
    Serials,
    Names,     \* device names that validName accepts
    Roles,     \* role names
    AdminRole,
    MaxSaves,  \* bound: changes of the declared roles
    None

ASSUME IssueAssumption ==
    /\ None \notin Serials /\ None \notin Names /\ None \notin Roles
    /\ AdminRole \notin Roles
    /\ MaxSaves \in Nat

VARIABLES
    up,        \* mtls-admin is running
    certs,     \* certs[s]: the name of the record of s, or None
    tmp,       \* serials with a temporary directory
    final,     \* final[n]: the serial whose files are in directory n, or None
    answered,  \* serials that were returned to a client
    lost,      \* serials whose request was cut off by a crash or a failing DELETE
    used,      \* serials drawn so far
    confRoles, \* roles declared in the configuration, one set per save
    roles,     \* which of these sets Manager checks purposes against
    rpc,       \* per request: where it is
    rname,     \* the name it issues for
    rser,      \* the serial it has drawn
    rroles,    \* which of the sets it has read from the configuration manager
    solo,      \* configuration requests that no other one has overlapped
    floor      \* the latest set that such a request has answered for

files  == <<tmp, final>>
config == <<confRoles, roles, solo, floor>>
local  == <<rname, rser, rroles>>
vars   == <<up, certs, files, answered, lost, used, config, rpc, local>>

Init ==
    /\ up = TRUE
    /\ certs = [s \in Serials |-> None]
    /\ tmp = {} /\ final = [n \in Names |-> None]
    /\ answered = {} /\ lost = {} /\ used = {}
    /\ confRoles \in {<<rs>> : rs \in SUBSET Roles} /\ roles = 1
    /\ rpc = [r \in Requests |-> "idle"]
    /\ rname = [r \in Requests |-> None]
    /\ rser = [r \in Requests |-> None]
    /\ rroles = [r \in Requests |-> 0]
    /\ solo = {} /\ floor = 0

Goes(r, from, to) ==
    /\ up /\ rpc[r] = from
    /\ rpc' = [rpc EXCEPT ![r] = to]

\* The request is answered; its local variables are gone.
Ends(r, from) ==
    /\ Goes(r, from, "idle")
    /\ rname' = [rname EXCEPT ![r] = None]
    /\ rser' = [rser EXCEPT ![r] = None]
    /\ rroles' = [rroles EXCEPT ![r] = 0]

Named(n) == {s \in Serials : certs[s] = n}

-----------------------------------------------------------------------------
(* IssueCert *)

\* hasRole, for a request with one purpose; an undeclared one is refused.
CheckPurpose(r, n, p) ==
    /\ Goes(r, "idle", "checked")
    /\ p = AdminRole \/ p \in confRoles[roles]
    /\ rname' = [rname EXCEPT ![r] = n]
    /\ UNCHANGED <<up, certs, files, answered, lost, used, config, rser, rroles>>

\* The quick check of the name, which holds no lock afterwards.
FindByName(r) ==
    /\ \/ Named(rname[r]) = {} /\ Goes(r, "checked", "free") /\ UNCHANGED local
       \/ Named(rname[r]) # {} /\ Ends(r, "checked")
    /\ UNCHANGED <<up, certs, files, answered, lost, used, config>>

\* A serial is drawn and the temporary directory made.
MakeDir(r, s) ==
    /\ Goes(r, "free", "filled")
    /\ s \notin used
    /\ used' = used \cup {s}
    /\ rser' = [rser EXCEPT ![r] = s]
    /\ tmp' = tmp \cup {s}
    /\ UNCHANGED <<up, certs, final, answered, lost, config, rname, rroles>>

\* A plain Upsert after the quick check, into a table without the unique index
\* on the name, for comparison.
InsertUnchecked(r) ==
    /\ \/ /\ Goes(r, "filled", "inserted")
          /\ certs' = [certs EXCEPT ![rser[r]] = rname[r]]
       \/ Goes(r, "filled", "clean") /\ UNCHANGED certs
    /\ UNCHANGED <<up, files, answered, lost, used, config, local>>

\* InsertUniqueName decides under the store's lock, and the table has a unique
\* index on the name: either would refuse a second record. Writing the files
\* before it, or the INSERT itself, may fail.
InsertUniqueName(r) ==
    /\ \/ /\ Named(rname[r]) = {}
          /\ Goes(r, "filled", "inserted")
          /\ certs' = [certs EXCEPT ![rser[r]] = rname[r]]
       \/ Goes(r, "filled", "clean") /\ UNCHANGED certs
    /\ UNCHANGED <<up, files, answered, lost, used, config, local>>

\* os.Rename onto a directory that has files in it fails; it may fail anyway.
Rename(r) ==
    LET n == rname[r] IN
    /\ \/ /\ Goes(r, "inserted", "notify")
          /\ final[n] = None
          /\ final' = [final EXCEPT ![n] = rser[r]]
          /\ tmp' = tmp \ {rser[r]}
       \/ Goes(r, "inserted", "undo") /\ UNCHANGED files
    /\ UNCHANGED <<up, certs, answered, lost, used, config, local>>

\* A failed rename that leaves the record, for comparison.
UndoForgotten(r) ==
    /\ Goes(r, "undo", "clean")
    /\ UNCHANGED <<up, certs, files, answered, lost, used, config, local>>

\* The record is taken back, unless the database fails, too.
Undo(r) ==
    /\ Goes(r, "undo", "clean")
    /\ \/ certs' = [certs EXCEPT ![rser[r]] = None] /\ UNCHANGED lost
       \/ lost' = lost \cup {rser[r]} /\ UNCHANGED certs
    /\ UNCHANGED <<up, files, answered, used, config, local>>

\* A cleanup by the device's name, for comparison.
CleanByName(r) ==
    /\ final' = [final EXCEPT ![rname[r]] = None]
    /\ tmp' = tmp \ {rser[r]}
    /\ Ends(r, "clean")
    /\ UNCHANGED <<up, certs, answered, lost, used, config>>

\* The deferred RemoveAll of the request's own directory, and the error answer.
Clean(r) ==
    /\ Ends(r, "clean")
    /\ tmp' = tmp \ {rser[r]}
    /\ UNCHANGED <<up, certs, final, answered, lost, used, config>>

\* postChange has been called (see GatewaySync), the certificate is returned.
Return(r) ==
    /\ Ends(r, "notify")
    /\ answered' = answered \cup {rser[r]}
    /\ UNCHANGED <<up, certs, files, lost, used, config>>

-----------------------------------------------------------------------------
(* A configuration request that changes the declared roles *)

Changing == {r \in Requests : rpc[r] \in {"saved", "read", "told"}}

\* configmgr's mutex covers this step only, ...
SaveRoles(r, rs) ==
    /\ Goes(r, "idle", "saved")
    /\ Len(confRoles) <= MaxSaves
    /\ rs # Last(confRoles)
    /\ confRoles' = Append(confRoles, rs)
    /\ solo' = IF Changing = {} THEN {r} ELSE {}
    /\ UNCHANGED <<up, certs, files, answered, lost, used, roles, floor, local>>

\* ... changed reads the roles again ...
ReadRoles(r) ==
    /\ Goes(r, "saved", "read")
    /\ rroles' = [rroles EXCEPT ![r] = Len(confRoles)]
    /\ UNCHANGED <<up, certs, files, answered, lost, used, config, rname, rser>>

\* A request that leaves the roles to the next start, for comparison.
SetForgotten(r) ==
    /\ Goes(r, "read", "told")
    /\ UNCHANGED <<up, certs, files, answered, lost, used, config, local>>

\* ... and hands them to the certificate manager.
SetDeclaredRoles(r) ==
    /\ Goes(r, "read", "told")
    /\ roles' = rroles[r]
    /\ UNCHANGED <<up, certs, files, answered, lost, used, confRoles, solo, floor, local>>

\* The gateway has been told (see GatewaySync), the request is answered.
Answer(r) ==
    /\ Ends(r, "told")
    /\ solo' = solo \ {r}
    /\ floor' = IF r \in solo THEN rroles[r] ELSE floor
    /\ UNCHANGED <<up, certs, files, answered, lost, used, confRoles, roles>>

-----------------------------------------------------------------------------
\* The table, the configuration and the directories outlive the process.
Crash ==
    /\ up
    /\ up' = FALSE
    /\ lost' = lost \cup {rser[r] : r \in {q \in Requests :
                             rpc[q] \in {"filled", "inserted", "undo", "clean"}}}
    /\ rpc' = [r \in Requests |-> "idle"]
    /\ rname' = [r \in Requests |-> None]
    /\ rser' = [r \in Requests |-> None]
    /\ rroles' = [r \in Requests |-> 0]
    /\ solo' = {}
    /\ UNCHANGED <<certs, files, answered, used, confRoles, roles, floor>>

\* NewManager removes the temporary directories that a crash has left.
Start ==
    /\ ~up
    /\ up' = TRUE
    /\ tmp' = {}
    /\ roles' = Len(confRoles)
    /\ UNCHANGED <<certs, final, answered, lost, used, confRoles, solo, floor, rpc, local>>

Next ==
    \/ \E r \in Requests :
          \/ \E n \in Names, p \in Roles \cup {AdminRole} : CheckPurpose(r, n, p)
          \/ FindByName(r)
          \/ \E s \in Serials : MakeDir(r, s)
          \/ InsertUniqueName(r) \/ Rename(r) \/ Undo(r) \/ Clean(r) \/ Return(r)
          \/ \E rs \in SUBSET Roles : SaveRoles(r, rs)
          \/ ReadRoles(r) \/ SetDeclaredRoles(r) \/ Answer(r)
    \/ Crash \/ Start

Spec == Init /\ [][Next]_vars

-----------------------------------------------------------------------------
\* However many requests pass the quick check with one name, at most one
\* record has it.
UniqueName == \A s, t \in Serials : certs[s] = certs[t] /\ certs[s] # None => s = t

\* A certificate that was handed out keeps its record and its files, whatever
\* later requests for its name do and however they fail: a loser cleans up
\* only its own directory.
AnsweredKept == \A s \in answered : certs[s] # None /\ final[certs[s]] = s

\* When no request is under way, a record without files, or files without a
\* record, are what a crash or a failing DELETE has left, and nothing else.
NoGhost ==
    (\A r \in Requests : rpc[r] = "idle") =>
        /\ \A s \in Serials : certs[s] # None /\ final[certs[s]] # s => s \in lost
        /\ tmp \subseteq lost
        /\ \A n \in Names : final[n] # None => certs[final[n]] = n

\* What main.go says of changed: after a configuration request the roles that
\* issuing checks are those of the configuration. Two requests at a time break
\* it, and it stays broken until the next change or restart.
DeclaredCurrent == up /\ (\A r \in Requests : rpc[r] = "idle") => confRoles[roles] = Last(confRoles)

\* The roles that issuing checks are a read replica of those declared: when a
\* configuration request that ran without another one beside it is answered,
\* certificates are issued for the roles it declared or later ones, and no
\* request, crash or start ever brings older ones back.
Declared == INSTANCE ReadReplica WITH ver <- Len(confRoles), view <- roles

RolesRefine == Declared!Spec

=============================================================================
