-------------------------- MODULE AdminIssue_proofs --------------------------
(***************************************************************************)
(* What issuing keeps for any number of requests, names, serials and       *)
(* roles, through failures and crashes: one record for a name, what was    *)
(* handed out, no record without files, and roles that only move forward.  *)
(***************************************************************************)
EXTENDS AdminIssue, TLAPS

\* Where a request to issue has drawn its serial; where one changes the roles.
Drawn   == {"filled", "inserted", "undo", "clean", "notify"}
Issuing == {"checked", "free"} \cup Drawn
Telling == {"read", "told"}

Types ==
    /\ up \in BOOLEAN
    /\ certs \in [Serials -> Names \cup {None}]
    /\ final \in [Names -> Serials \cup {None}]
    /\ tmp \subseteq Serials /\ used \subseteq Serials /\ answered \subseteq used
    /\ rpc \in [Requests -> {"idle", "saved"} \cup Issuing \cup Telling]
    /\ rname \in [Requests -> Names \cup {None}]
    /\ rser \in [Requests -> Serials \cup {None}]

\* What a request has of its own at each place: its name, a serial nobody else
\* has, its record, its directory.
Own ==
    \A r \in Requests :
        /\ rpc[r] \in Issuing => rname[r] \in Names
        /\ rpc[r] \in Drawn => rser[r] \in used \ answered
        /\ rpc[r] \in {"inserted", "undo", "notify"} => certs[rser[r]] = rname[r]
        /\ rpc[r] = "notify" => final[rname[r]] = rser[r]
        /\ rpc[r] \in Drawn \ {"notify"} => \A n \in Names : final[n] # rser[r]

OwnSerial ==
    \A q, r \in Requests : rpc[q] \in Drawn /\ rpc[r] \in Drawn /\ rser[q] = rser[r] => q = r

\* A directory with a device's name belongs to the record of that name.
FilesOwned == \A n \in Names : final[n] # None => final[n] \in used /\ certs[final[n]] = n

\* What is there halfway belongs to a request that is under way, or was given up.
RecordsOwned ==
    \A s \in Serials : certs[s] # None =>
        \/ s \in lost \/ final[certs[s]] = s
        \/ \E r \in Requests : rser[r] = s /\ rpc[r] \in {"inserted", "undo"}

DirsOwned ==
    \A s \in tmp :
        \/ s \in lost
        \/ \E r \in Requests : rser[r] = s /\ rpc[r] \in Drawn \ {"notify"}

IInv ==
    /\ Types
    /\ Own
    /\ OwnSerial
    /\ FilesOwned
    /\ RecordsOwned
    /\ DirsOwned
    /\ UniqueName
    /\ AnsweredKept

\* The versions of the declared roles.
RolesTypes ==
    /\ confRoles \in Seq(SUBSET Roles)
    /\ roles \in 1 .. Len(confRoles)
    /\ floor \in Nat /\ floor <= roles
    /\ rpc \in [Requests -> {"idle", "saved"} \cup Issuing \cup Telling]
    /\ rroles \in [Requests -> Nat]

\* Whatever a request is about to tell covers the floor.
ReadCoversFloor ==
    \A r \in Requests :
        rpc[r] \in Telling => rroles[r] \in 1 .. Len(confRoles) /\ floor <= rroles[r]

\* A request that nobody has overlapped is the only one, and what it has told is
\* in force.
SoloAlone ==
    \A r \in solo :
        /\ r \in Requests
        /\ \A q \in Changing : q = r
        /\ rpc[r] = "told" => up /\ roles = rroles[r]

RInv == RolesTypes /\ ReadCoversFloor /\ SoloAlone

-----------------------------------------------------------------------------
(* Issuing *)

LEMMA InitKeeps == Init => IInv
  <1> SUFFICES ASSUME Init PROVE IInv
    OBVIOUS
  <1>1. Types
    BY DEF Init, Types
  <1>2. \A r \in Requests : rpc[r] = "idle"
    BY DEF Init
  <1>3. Own /\ OwnSerial
    BY <1>2 DEF Own, OwnSerial, Issuing, Drawn
  <1>4. FilesOwned /\ RecordsOwned /\ DirsOwned /\ UniqueName /\ AnsweredKept
    BY DEF Init, FilesOwned, RecordsOwned, DirsOwned, UniqueName, AnsweredKept
  <1> QED BY <1>1, <1>3, <1>4 DEF IInv

\* Steps that no request with a serial of its own takes part in.
LEMMA ElsewhereKeeps ==
    ASSUME IInv, Types', tmp' \subseteq tmp, UNCHANGED <<certs, final, answered, used, lost>>,
           \A r \in Requests : rpc[r] \in Drawn \/ rpc'[r] \in Drawn =>
               rpc'[r] = rpc[r] /\ rname'[r] = rname[r] /\ rser'[r] = rser[r],
           \A r \in Requests : rpc'[r] \in Issuing => rname'[r] \in Names
    PROVE  IInv'
  <1>1. Own'
    BY DEF IInv, Own, Issuing, Drawn
  <1>2. OwnSerial'
    BY DEF IInv, OwnSerial
  <1>3. FilesOwned' /\ UniqueName' /\ AnsweredKept'
    BY DEF IInv, FilesOwned, UniqueName, AnsweredKept
  <1>4. RecordsOwned'
    BY DEF IInv, RecordsOwned, Drawn
  <1>5. DirsOwned'
    BY DEF IInv, DirsOwned, Drawn
  <1> QED BY <1>1, <1>2, <1>3, <1>4, <1>5 DEF IInv

\* A serial that was never used is nobody's.
LEMMA MakeDirKeeps ==
    ASSUME IInv, NEW r \in Requests, NEW s \in Serials, MakeDir(r, s)
    PROVE  IInv'
  <1> USE DEF IInv
  <1>1. /\ rpc[r] = "free" /\ s \notin used
        /\ rpc' = [rpc EXCEPT ![r] = "filled"] /\ rser' = [rser EXCEPT ![r] = s]
        /\ used' = used \cup {s} /\ tmp' = tmp \cup {s}
        /\ UNCHANGED <<up, certs, final, answered, lost, rname>>
    BY DEF MakeDir, Goes, config
  <1>2. Types'
    BY <1>1 DEF Types, Issuing, Drawn
  <1>3. Own'
    <2>1. s \notin answered /\ \A n \in Names : final[n] # s
      BY <1>1, IssueAssumption DEF Types, FilesOwned
    <2>2. rname[r] \in Names
      BY <1>1 DEF Own, Issuing
    <2> QED BY <1>1, <2>1, <2>2 DEF Own, Types, Issuing, Drawn
  <1>4. OwnSerial'
    BY <1>1 DEF OwnSerial, Own, Types, Drawn
  <1>5. FilesOwned' /\ UniqueName' /\ AnsweredKept'
    BY <1>1 DEF FilesOwned, UniqueName, AnsweredKept
  <1>6. RecordsOwned'
    BY <1>1 DEF RecordsOwned, Types
  <1>7. DirsOwned'
    BY <1>1 DEF DirsOwned, Types, Drawn
  <1> QED BY <1>2, <1>3, <1>4, <1>5, <1>6, <1>7

\* The store takes the name only when no record has it.
LEMMA InsertKeeps ==
    ASSUME IInv, NEW r \in Requests, InsertUniqueName(r)
    PROVE  IInv'
  <1> USE DEF IInv
  <1>1. rpc[r] = "filled" /\ UNCHANGED <<up, final, tmp, answered, lost, used, rname, rser>>
    BY DEF InsertUniqueName, Goes, files, local
  <1>2. rser[r] \in used \ answered /\ rser[r] \in Serials /\ rname[r] \in Names
    BY <1>1 DEF Own, Types, Issuing, Drawn
  <1>3. CASE /\ Named(rname[r]) = {}
             /\ rpc' = [rpc EXCEPT ![r] = "inserted"]
             /\ certs' = [certs EXCEPT ![rser[r]] = rname[r]]
    <2>1. Types'
      BY <1>1, <1>2, <1>3 DEF Types, Issuing, Drawn
    <2>2. \A q \in Requests : q # r /\ rpc[q] \in Drawn => rser[q] # rser[r]
      BY <1>1 DEF OwnSerial, Drawn
    <2>3. Own'
      BY <1>1, <1>2, <1>3, <2>2 DEF Own, Types, Issuing, Drawn
    <2>4. OwnSerial'
      BY <1>1, <1>3 DEF OwnSerial, Types, Drawn
    <2>5. \A n \in Names : final[n] # rser[r]
      BY <1>1 DEF Own, Drawn
    <2>6. FilesOwned'
      BY <1>1, <1>3, <2>5 DEF FilesOwned, Types
    <2>7. \A t \in Serials : certs[t] # rname[r]
      BY <1>3 DEF Named
    <2>8. UniqueName'
      BY <1>2, <1>3, <2>7 DEF UniqueName, Types
    <2>9. AnsweredKept'
      BY <1>1, <1>2, <1>3 DEF AnsweredKept, Types
    <2>10. RecordsOwned'
      BY <1>1, <1>2, <1>3 DEF RecordsOwned, Types
    <2>11. DirsOwned'
      BY <1>1, <1>3 DEF DirsOwned, Types, Drawn
    <2> QED BY <2>1, <2>3, <2>4, <2>6, <2>8, <2>9, <2>10, <2>11
  <1>4. CASE rpc' = [rpc EXCEPT ![r] = "clean"] /\ certs' = certs
    <2>1. Types'
      BY <1>1, <1>4 DEF Types, Issuing, Drawn
    <2>2. Own' /\ OwnSerial'
      BY <1>1, <1>4 DEF Own, OwnSerial, Types, Issuing, Drawn
    <2>3. FilesOwned' /\ UniqueName' /\ AnsweredKept'
      BY <1>1, <1>4 DEF FilesOwned, UniqueName, AnsweredKept
    <2>4. RecordsOwned'
      BY <1>1, <1>4 DEF RecordsOwned, Types
    <2>5. DirsOwned'
      BY <1>1, <1>4 DEF DirsOwned, Types, Drawn
    <2> QED BY <2>1, <2>2, <2>3, <2>4, <2>5
  <1> QED BY <1>3, <1>4 DEF InsertUniqueName, Goes

\* The directory gets the device's name unless another one has it.
LEMMA RenameKeeps ==
    ASSUME IInv, NEW r \in Requests, Rename(r)
    PROVE  IInv'
  <1> USE DEF IInv
  <1>1. rpc[r] = "inserted" /\ UNCHANGED <<up, certs, answered, lost, used, rname, rser>>
    BY DEF Rename, Goes, local
  <1>2. /\ rser[r] \in used \ answered /\ rser[r] \in Serials /\ rname[r] \in Names
        /\ certs[rser[r]] = rname[r]
    BY <1>1 DEF Own, Types, Issuing, Drawn
  <1>3. CASE /\ rpc' = [rpc EXCEPT ![r] = "notify"] /\ final[rname[r]] = None
             /\ final' = [final EXCEPT ![rname[r]] = rser[r]] /\ tmp' = tmp \ {rser[r]}
    <2>1. Types'
      BY <1>1, <1>2, <1>3 DEF Types, Issuing, Drawn
    <2>2. \A q \in Requests : q # r /\ rpc[q] \in Drawn => rser[q] # rser[r]
      BY <1>1 DEF OwnSerial, Drawn
    <2>3. \A q \in Requests : rpc[q] = "notify" => rname[q] # rname[r]
      BY <1>1, <1>3, IssueAssumption DEF Own, Types, Drawn
    <2>4. Own'
      BY <1>1, <1>2, <1>3, <2>2, <2>3 DEF Own, Types, Issuing, Drawn
    <2>5. OwnSerial'
      BY <1>1, <1>3 DEF OwnSerial, Types, Drawn
    <2>6. FilesOwned' /\ UniqueName'
      BY <1>1, <1>2, <1>3 DEF FilesOwned, UniqueName, Types
    <2>7. AnsweredKept'
      <3>1. \A s \in answered : certs[s] # None /\ final[certs[s]] = s /\ s \in Serials
        BY DEF AnsweredKept, Types
      <3>2. \A s \in answered : certs[s] # rname[r]
        BY <3>1, <1>3, IssueAssumption
      <3> QED BY <1>1, <1>3, <3>1, <3>2 DEF AnsweredKept, Types
    <2>8. RecordsOwned'
      <3> SUFFICES ASSUME NEW s \in Serials, certs[s] # None
                   PROVE  \/ s \in lost \/ final'[certs[s]] = s
                          \/ \E q \in Requests : rser[q] = s /\ rpc'[q] \in {"inserted", "undo"}
        BY <1>1 DEF RecordsOwned
      <3>1. CASE s = rser[r]
        BY <1>2, <1>3, <3>1 DEF Types
      <3>2. CASE s # rser[r]
        <4>1. certs[s] # rname[r] /\ certs[s] \in Names
          BY <1>2, <3>2, IssueAssumption DEF UniqueName, Types
        <4> QED BY <1>1, <1>2, <1>3, <3>2, <4>1 DEF RecordsOwned, Types
      <3> QED BY <3>1, <3>2
    <2>9. DirsOwned'
      BY <1>1, <1>3 DEF DirsOwned, Types, Drawn
    <2> QED BY <2>1, <2>4, <2>5, <2>6, <2>7, <2>8, <2>9
  <1>4. CASE rpc' = [rpc EXCEPT ![r] = "undo"] /\ UNCHANGED <<final, tmp>>
    <2>1. Types'
      BY <1>1, <1>4 DEF Types, Issuing, Drawn
    <2>2. Own' /\ OwnSerial'
      BY <1>1, <1>4 DEF Own, OwnSerial, Types, Issuing, Drawn
    <2>3. FilesOwned' /\ UniqueName' /\ AnsweredKept'
      BY <1>1, <1>4 DEF FilesOwned, UniqueName, AnsweredKept
    <2>4. RecordsOwned' /\ DirsOwned'
      BY <1>1, <1>4 DEF RecordsOwned, DirsOwned, Types, Drawn
    <2> QED BY <2>1, <2>2, <2>3, <2>4
  <1> QED BY <1>3, <1>4 DEF Rename, Goes, files

\* The record goes again, or is known to be left.
LEMMA UndoKeeps ==
    ASSUME IInv, NEW r \in Requests, Undo(r)
    PROVE  IInv'
  <1> USE DEF IInv
  <1>1. /\ rpc[r] = "undo" /\ rpc' = [rpc EXCEPT ![r] = "clean"]
        /\ UNCHANGED <<up, final, tmp, answered, used, rname, rser>>
    BY DEF Undo, Goes, files, local
  <1>2. rser[r] \in used \ answered /\ rser[r] \in Serials
    BY <1>1 DEF Own, Types, Drawn
  <1>3. \A q \in Requests : q # r /\ rpc[q] \in Drawn => rser[q] # rser[r]
    BY <1>1 DEF OwnSerial, Drawn
  <1>4. OwnSerial'
    BY <1>1 DEF OwnSerial, Types, Drawn
  <1>5. CASE certs' = [certs EXCEPT ![rser[r]] = None] /\ lost' = lost
    <2>1. Types'
      BY <1>1, <1>2, <1>5 DEF Types, Issuing, Drawn
    <2>2. Own'
      BY <1>1, <1>2, <1>3, <1>5 DEF Own, Types, Issuing, Drawn
    <2>3. \A n \in Names : final[n] # rser[r]
      BY <1>1 DEF Own, Drawn
    <2>4. FilesOwned'
      BY <1>1, <1>5, <2>3 DEF FilesOwned, Types
    <2>5. UniqueName' /\ AnsweredKept'
      BY <1>1, <1>2, <1>5 DEF UniqueName, AnsweredKept, Types
    <2>6. RecordsOwned'
      BY <1>1, <1>2, <1>5 DEF RecordsOwned, Types
    <2>7. DirsOwned'
      BY <1>1, <1>5 DEF DirsOwned, Types, Drawn
    <2> QED BY <1>4, <2>1, <2>2, <2>4, <2>5, <2>6, <2>7
  <1>6. CASE lost' = lost \cup {rser[r]} /\ certs' = certs
    <2>1. Types'
      BY <1>1, <1>6 DEF Types, Issuing, Drawn
    <2>2. Own'
      BY <1>1, <1>6 DEF Own, Types, Issuing, Drawn
    <2>3. FilesOwned' /\ UniqueName' /\ AnsweredKept'
      BY <1>1, <1>6 DEF FilesOwned, UniqueName, AnsweredKept
    <2>4. RecordsOwned' /\ DirsOwned'
      BY <1>1, <1>6 DEF RecordsOwned, DirsOwned, Types, Drawn
    <2> QED BY <1>4, <2>1, <2>2, <2>3, <2>4
  <1> QED BY <1>5, <1>6 DEF Undo

\* A request ends: with its own directory removed, or with its certificate.
LEMMA EndKeeps ==
    ASSUME IInv, NEW r \in Requests, Clean(r) \/ Return(r)
    PROVE  IInv'
  <1> USE DEF IInv
  <1>1. /\ rpc[r] \in {"clean", "notify"} /\ rpc' = [rpc EXCEPT ![r] = "idle"]
        /\ rname' = [rname EXCEPT ![r] = None] /\ rser' = [rser EXCEPT ![r] = None]
        /\ UNCHANGED <<up, certs, final, lost, used>>
    BY DEF Clean, Return, Ends, Goes, files
  <1>2. rser[r] \in used \ answered /\ rser[r] \in Serials
    BY <1>1 DEF Own, Types, Drawn
  <1>3. \/ /\ answered' = answered /\ tmp' = tmp \ {rser[r]} /\ rpc[r] = "clean"
        \/ /\ answered' = answered \cup {rser[r]} /\ tmp' = tmp /\ rpc[r] = "notify"
    <2>1. CASE Clean(r)
      BY <2>1 DEF Clean, Ends, Goes
    <2>2. CASE Return(r)
      BY <2>2 DEF Return, Ends, Goes, files
    <2> QED BY <2>1, <2>2
  <1>4. Types'
    BY <1>1, <1>2, <1>3 DEF Types
  <1>5. \A q \in Requests : q # r /\ rpc[q] \in Drawn => rser[q] # rser[r]
    BY <1>1 DEF OwnSerial, Drawn
  <1>6. Own'
    BY <1>1, <1>3, <1>5 DEF Own, Types, Issuing, Drawn
  <1>7. OwnSerial'
    BY <1>1 DEF OwnSerial, Types, Drawn
  <1>8. FilesOwned' /\ UniqueName'
    BY <1>1 DEF FilesOwned, UniqueName
  <1>9. AnsweredKept'
    <2>1. rpc[r] = "notify" => certs[rser[r]] = rname[r] /\ final[rname[r]] = rser[r]
                               /\ rname[r] \in Names
      BY DEF Own, Issuing, Drawn
    <2> QED BY <1>1, <1>3, <2>1, IssueAssumption DEF AnsweredKept
  <1>10. RecordsOwned'
    BY <1>1 DEF RecordsOwned, Types
  <1>11. DirsOwned'
    BY <1>1, <1>3 DEF DirsOwned, Types, Drawn
  <1> QED BY <1>4, <1>6, <1>7, <1>8, <1>9, <1>10, <1>11

\* A crash leaves what was halfway, and what was handed out.
LEMMA CrashKeeps == ASSUME IInv, Crash PROVE IInv'
  <1> USE DEF IInv
  <1>1. /\ \A r \in Requests : rpc'[r] = "idle"
        /\ up' = FALSE /\ rpc' = [r \in Requests |-> "idle"]
        /\ rname' = [r \in Requests |-> None] /\ rser' = [r \in Requests |-> None]
        /\ lost \subseteq lost'
        /\ \A r \in Requests : rpc[r] \in Drawn \ {"notify"} => rser[r] \in lost'
        /\ UNCHANGED <<certs, final, tmp, answered, used>>
    BY DEF Crash, files, Drawn
  <1>2. Types'
    BY <1>1 DEF Types
  <1>3. Own' /\ OwnSerial'
    BY <1>1 DEF Own, OwnSerial, Issuing, Drawn
  <1>4. FilesOwned' /\ UniqueName' /\ AnsweredKept'
    BY <1>1 DEF FilesOwned, UniqueName, AnsweredKept
  <1>5. RecordsOwned' /\ DirsOwned'
    BY <1>1 DEF RecordsOwned, DirsOwned, Drawn
  <1> QED BY <1>2, <1>3, <1>4, <1>5

LEMMA StepKeeps == IInv /\ [Next]_vars => IInv'
  <1> SUFFICES ASSUME IInv, [Next]_vars PROVE IInv'
    OBVIOUS
  <1>1. ASSUME NEW r \in Requests, NEW n \in Names, NEW p \in Roles \cup {AdminRole},
               CheckPurpose(r, n, p)
        PROVE  IInv'
    <2>1. Types'
      BY <1>1 DEF CheckPurpose, Goes, files, IInv, Types, Issuing, Drawn
    <2> QED BY <1>1, <2>1, ElsewhereKeeps
            DEF CheckPurpose, Goes, files, IInv, Types, Own, Issuing, Drawn
  <1>2. ASSUME NEW r \in Requests, FindByName(r) PROVE IInv'
    <2>1. Types'
      BY <1>2 DEF FindByName, Ends, Goes, files, local, IInv, Types, Issuing, Drawn
    <2> QED BY <1>2, <2>1, ElsewhereKeeps
            DEF FindByName, Ends, Goes, files, local, IInv, Types, Own, Issuing, Drawn
  <1>3. ASSUME NEW r \in Requests,
               (\E rs \in SUBSET Roles : SaveRoles(r, rs)) \/ ReadRoles(r) \/ SetDeclaredRoles(r)
        PROVE  IInv'
    <2>1. /\ UNCHANGED <<up, certs, final, tmp, answered, lost, used, rname, rser>>
          /\ rpc[r] \notin Issuing
          /\ \E to \in {"saved", "read", "told"} : rpc' = [rpc EXCEPT ![r] = to]
      BY <1>3 DEF SaveRoles, ReadRoles, SetDeclaredRoles, Goes, files, local, Issuing, Drawn
    <2>2. Types'
      BY <2>1 DEF IInv, Types, Telling
    <2> QED BY <2>1, <2>2, ElsewhereKeeps DEF IInv, Types, Own, Issuing, Drawn
  <1>4. ASSUME NEW r \in Requests, Answer(r) PROVE IInv'
    <2>1. Types'
      BY <1>4 DEF Answer, Ends, Goes, files, IInv, Types
    <2> QED BY <1>4, <2>1, ElsewhereKeeps
            DEF Answer, Ends, Goes, files, IInv, Types, Own, Issuing, Drawn
  <1>5. CASE Start
    <2>1. Types'
      BY <1>5 DEF Start, local, IInv, Types
    <2> QED BY <1>5, <2>1, ElsewhereKeeps DEF Start, local, IInv, Own
  <1>6. CASE UNCHANGED vars
    <2>1. Types'
      BY <1>6 DEF vars, files, local, IInv, Types
    <2> QED BY <1>6, <2>1, ElsewhereKeeps DEF vars, files, local, IInv, Own
  <1> QED BY <1>1, <1>2, <1>3, <1>4, <1>5, <1>6, MakeDirKeeps, InsertKeeps, RenameKeeps,
             UndoKeeps, EndKeeps, CrashKeeps DEF Next

LEMMA Inductive == Spec => []IInv
  BY InitKeeps, StepKeeps, PTL DEF Spec

-----------------------------------------------------------------------------
(* Declared roles *)

LEMMA RolesInit == Init => RInv
  <1> SUFFICES ASSUME Init PROVE RInv
    OBVIOUS
  <1>1. PICK rs \in SUBSET Roles : confRoles = <<rs>>
    BY DEF Init
  <1>2. confRoles \in Seq(SUBSET Roles) /\ Len(confRoles) = 1
    BY <1>1
  <1>3. RolesTypes
    BY <1>2 DEF Init, RolesTypes
  <1> QED BY <1>3 DEF Init, RInv, ReadCoversFloor, SoloAlone, Telling

\* Steps that have nothing to do with roles: no request begins or ends to
\* change them.
LEMMA RolesElsewhere ==
    ASSUME RInv, UNCHANGED <<up, confRoles, roles, floor, solo>>,
           rpc' \in [Requests -> {"idle", "saved"} \cup Issuing \cup Telling],
           rroles' \in [Requests -> Nat],
           \A r \in Requests :
               \/ rpc'[r] = rpc[r] /\ rroles'[r] = rroles[r]
               \/ rpc'[r] \notin {"saved", "read", "told"} /\ rpc[r] \notin {"saved", "read", "told"}
    PROVE  RInv'
  <1>1. Changing' = Changing
    BY DEF Changing
  <1>2. RolesTypes'
    BY DEF RInv, RolesTypes
  <1>3. ReadCoversFloor'
    BY DEF RInv, ReadCoversFloor, Telling
  <1>4. SoloAlone'
    BY <1>1 DEF RInv, SoloAlone, RolesTypes
  <1> QED BY <1>2, <1>3, <1>4 DEF RInv

LEMMA SaveRolesStep ==
    ASSUME RInv, NEW r \in Requests, NEW rs \in SUBSET Roles, SaveRoles(r, rs)
    PROVE  RInv' /\ Len(confRoles') = Len(confRoles) + 1 /\ UNCHANGED <<roles, floor>>
  <1> USE DEF RInv
  <1>1. /\ rpc[r] = "idle" /\ rpc' = [rpc EXCEPT ![r] = "saved"]
        /\ confRoles' = Append(confRoles, rs)
        /\ solo' = IF Changing = {} THEN {r} ELSE {}
        /\ UNCHANGED <<up, roles, floor, rroles>>
    BY DEF SaveRoles, Goes, local
  <1>2. confRoles' \in Seq(SUBSET Roles) /\ Len(confRoles') = Len(confRoles) + 1
    BY <1>1 DEF RolesTypes
  <1>3. RolesTypes'
    BY <1>1, <1>2 DEF RolesTypes
  <1>4. ReadCoversFloor'
    BY <1>1, <1>2 DEF ReadCoversFloor, RolesTypes, Telling
  <1>5. SoloAlone'
    BY <1>1 DEF SoloAlone, RolesTypes, Changing
  <1> QED BY <1>1, <1>2, <1>3, <1>4, <1>5

LEMMA ReadRolesStep ==
    ASSUME RInv, NEW r \in Requests, ReadRoles(r)
    PROVE  RInv' /\ UNCHANGED <<confRoles, roles, floor>>
  <1> USE DEF RInv
  <1>1. /\ rpc[r] = "saved" /\ rpc' = [rpc EXCEPT ![r] = "read"]
        /\ rroles' = [rroles EXCEPT ![r] = Len(confRoles)]
        /\ UNCHANGED <<up, confRoles, roles, solo, floor>>
    BY DEF ReadRoles, Goes, config
  <1>2. Len(confRoles) \in Nat
    BY DEF RolesTypes
  <1>3. RolesTypes'
    BY <1>1, <1>2 DEF RolesTypes, Telling
  <1>4. ReadCoversFloor'
    BY <1>1, <1>2 DEF ReadCoversFloor, RolesTypes, Telling
  <1>5. SoloAlone'
    BY <1>1 DEF SoloAlone, RolesTypes, Changing
  <1> QED BY <1>1, <1>3, <1>4, <1>5

LEMMA SetRolesStep ==
    ASSUME RInv, NEW r \in Requests, SetDeclaredRoles(r)
    PROVE  RInv' /\ UNCHANGED <<confRoles, floor>> /\ roles' \in floor .. Len(confRoles)
  <1> USE DEF RInv
  <1>1. /\ rpc[r] = "read" /\ rpc' = [rpc EXCEPT ![r] = "told"]
        /\ up /\ roles' = rroles[r]
        /\ UNCHANGED <<up, confRoles, solo, floor, rroles>>
    BY DEF SetDeclaredRoles, Goes, local
  <1>2. roles' \in 1 .. Len(confRoles) /\ floor <= roles'
    BY <1>1 DEF ReadCoversFloor, Telling
  <1>3. RolesTypes'
    BY <1>1, <1>2 DEF RolesTypes, Telling
  <1>4. ReadCoversFloor'
    BY <1>1 DEF ReadCoversFloor, RolesTypes, Telling
  <1>5. SoloAlone'
    <2>1. \A q \in solo : q = r
      BY <1>1 DEF SoloAlone, Changing
    <2> QED BY <1>1, <2>1 DEF SoloAlone, RolesTypes, Changing
  <1>6. roles' \in floor .. Len(confRoles)
    BY <1>2 DEF RolesTypes
  <1> QED BY <1>1, <1>3, <1>4, <1>5, <1>6

\* Only a request that ran alone promises, and only what is in force; nobody
\* holds anything older then.
LEMMA AnswerStep ==
    ASSUME RInv, NEW r \in Requests, Answer(r)
    PROVE  RInv' /\ UNCHANGED <<confRoles, roles>> /\ floor' \in floor .. roles
  <1> USE DEF RInv
  <1>1. /\ rpc[r] = "told" /\ rpc' = [rpc EXCEPT ![r] = "idle"]
        /\ rroles' = [rroles EXCEPT ![r] = 0]
        /\ solo' = solo \ {r}
        /\ floor' = IF r \in solo THEN rroles[r] ELSE floor
        /\ UNCHANGED <<up, confRoles, roles>>
    BY DEF Answer, Ends, Goes
  <1>2. r \in solo => roles = rroles[r] /\ \A q \in Requests : rpc[q] \in Telling => q = r
    BY <1>1 DEF SoloAlone, Changing, Telling
  <1>3. floor' \in floor .. roles
    BY <1>1, <1>2 DEF RolesTypes
  <1>4. RolesTypes'
    BY <1>1, <1>3 DEF RolesTypes
  <1>5. ReadCoversFloor'
    BY <1>1, <1>2 DEF ReadCoversFloor, RolesTypes, Telling
  <1>6. SoloAlone'
    BY <1>1 DEF SoloAlone, RolesTypes, Changing
  <1> QED BY <1>1, <1>3, <1>4, <1>5, <1>6

LEMMA RolesRestart ==
    ASSUME RInv, Crash \/ Start
    PROVE  RInv' /\ UNCHANGED <<confRoles, floor>> /\ roles' \in floor .. Len(confRoles)
  <1> USE DEF RInv
  <1>1. confRoles \in Seq(SUBSET Roles) /\ Len(confRoles) \in Nat
    BY DEF RolesTypes
  <1>2. CASE Crash
    <2>1. /\ rpc' = [q \in Requests |-> "idle"] /\ rroles' = [q \in Requests |-> 0]
          /\ solo' = {} /\ UNCHANGED <<confRoles, roles, floor>>
      BY <1>2 DEF Crash
    <2> QED BY <1>1, <2>1 DEF RolesTypes, ReadCoversFloor, SoloAlone, Telling
  <1>3. CASE Start
    <2>1. ~up /\ roles' = Len(confRoles) /\ UNCHANGED <<confRoles, solo, floor, rpc, rroles>>
      BY <1>3 DEF Start, local
    <2>2. RolesTypes'
      BY <1>1, <2>1 DEF RolesTypes
    <2>3. ReadCoversFloor'
      BY <2>1 DEF ReadCoversFloor
    <2>4. SoloAlone'
      BY <1>1, <2>1 DEF SoloAlone, Changing
    <2> QED BY <1>1, <2>1, <2>2, <2>3, <2>4 DEF RolesTypes
  <1> QED BY <1>2, <1>3

\* What a step does to the versions, as ReadReplica has it.
RolesStep ==
    \/ Len(confRoles') = Len(confRoles) + 1 /\ UNCHANGED <<roles, floor>>
    \/ UNCHANGED <<confRoles, floor>> /\ roles' \in floor .. Len(confRoles)
    \/ UNCHANGED <<confRoles, roles>> /\ floor' \in floor .. roles

LEMMA RolesNext ==
    ASSUME IInv, IInv', RInv, [Next]_vars
    PROVE  RInv' /\ RolesStep
  <1>1. rpc' \in [Requests -> {"idle", "saved"} \cup Issuing \cup Telling]
    BY DEF IInv, Types
  <1>2. rroles \in [Requests -> Nat] /\ roles \in floor .. Len(confRoles)
    BY DEF RInv, RolesTypes
  <1> DEFINE Still ==
        /\ UNCHANGED <<up, confRoles, roles, floor, solo>>
        /\ rroles' \in [Requests -> Nat]
        /\ \A r \in Requests :
             \/ rpc'[r] = rpc[r] /\ rroles'[r] = rroles[r]
             \/ rpc'[r] \notin {"saved", "read", "told"} /\ rpc[r] \notin {"saved", "read", "told"}
  <1>3. Still => RInv' /\ RolesStep
    BY <1>1, <1>2, RolesElsewhere DEF RolesStep
  <1> HIDE DEF Still
  <1>4. rpc \in [Requests -> {"idle", "saved"} \cup Issuing \cup Telling]
    BY DEF IInv, Types
  <1>5. ASSUME NEW r \in Requests, NEW n \in Names, NEW p \in Roles \cup {AdminRole},
               CheckPurpose(r, n, p)
        PROVE  Still
    BY <1>2, <1>4, <1>5 DEF CheckPurpose, Goes, config, Still
  <1>6. ASSUME NEW r \in Requests, FindByName(r) PROVE Still
    BY <1>2, <1>4, <1>6 DEF FindByName, Ends, Goes, config, local, Still
  <1>7. ASSUME NEW r \in Requests, NEW s \in Serials, MakeDir(r, s) PROVE Still
    BY <1>2, <1>4, <1>7 DEF MakeDir, Goes, config, Still
  <1>8. ASSUME NEW r \in Requests, InsertUniqueName(r) \/ Rename(r) \/ Undo(r) PROVE Still
    BY <1>2, <1>4, <1>8 DEF InsertUniqueName, Rename, Undo, Goes, config, local, Still
  <1>9. ASSUME NEW r \in Requests, Clean(r) \/ Return(r) PROVE Still
    <2>1. rpc[r] \in {"clean", "notify"} /\ rpc' = [rpc EXCEPT ![r] = "idle"]
      BY <1>9 DEF Clean, Return, Ends, Goes
    <2>2. rroles' = [rroles EXCEPT ![r] = 0]
      BY <1>9 DEF Clean, Return, Ends
    <2>3. UNCHANGED <<up, confRoles, roles, floor, solo>>
      BY <1>9 DEF Clean, Return, config
    <2> QED BY <1>2, <1>4, <2>1, <2>2, <2>3 DEF Still
  <1>10. CASE UNCHANGED vars
    BY <1>2, <1>3, <1>10 DEF vars, config, local, Still
  <1>11. ASSUME NEW r \in Requests, NEW rs \in SUBSET Roles, SaveRoles(r, rs)
         PROVE  RInv' /\ RolesStep
    BY <1>11, SaveRolesStep DEF RolesStep
  <1>12. ASSUME NEW r \in Requests, ReadRoles(r) \/ SetDeclaredRoles(r) \/ Answer(r)
         PROVE  RInv' /\ RolesStep
    BY <1>2, <1>12, ReadRolesStep, SetRolesStep, AnswerStep DEF RolesStep
  <1>13. CASE Crash \/ Start
    BY <1>13, RolesRestart DEF RolesStep
  <1> QED BY <1>3, <1>5, <1>6, <1>7, <1>8, <1>9, <1>10, <1>11, <1>12, <1>13 DEF Next

LEMMA RolesInductive == Spec => [](IInv /\ RInv)
  <1>1. IInv /\ RInv /\ [Next]_vars => (IInv /\ RInv)'
    BY StepKeeps, RolesNext
  <1> QED BY <1>1, InitKeeps, RolesInit, PTL DEF Spec

-----------------------------------------------------------------------------
\* However many requests pass the quick check with one name, at most one record
\* has it.
THEOREM UniqueNameCorrect == Spec => []UniqueName
  <1>1. IInv => UniqueName
    BY DEF IInv
  <1> QED BY <1>1, Inductive, PTL

\* A certificate that was handed out keeps its record and its files, whatever
\* later requests, failures and crashes do.
THEOREM AnsweredCorrect == Spec => []AnsweredKept
  <1>1. IInv => AnsweredKept
    BY DEF IInv
  <1> QED BY <1>1, Inductive, PTL

\* With no request under way, all that is left halfway are the traces of a crash
\* or of a DELETE that failed.
THEOREM GhostCorrect == Spec => []NoGhost
  <1>1. IInv => NoGhost
    BY DEF IInv, RecordsOwned, DirsOwned, FilesOwned, NoGhost, Drawn
  <1> QED BY <1>1, Inductive, PTL

\* Saves map to commits, telling and a restart to installing, the answer of a
\* request that ran alone to a promise.
THEOREM RolesRefinement == Spec => RolesRefine
  <1>1. Init => Declared!Init
    <2> SUFFICES ASSUME Init PROVE Declared!Init
      OBVIOUS
    <2>1. PICK rs \in SUBSET Roles : confRoles = <<rs>>
      BY DEF Init
    <2> QED BY <2>1 DEF Init, Declared!Init
  <1>2. IInv /\ IInv' /\ RInv /\ [Next]_vars => [Declared!Next]_Declared!vars
    BY RolesNext DEF RolesStep, Declared!Next, Declared!Commit, Declared!Install, Declared!Promise
  <1> QED BY <1>1, <1>2, RolesInductive, PTL DEF Spec, RolesRefine, Declared!Spec
=============================================================================
