------------------------------ MODULE RelaySource ------------------------------
(***************************************************************************)
(* What a relay knows of the gateway and of its own certificates           *)
(* (internal/relay/core.go, internal/certsource): the gateway's address,   *)
(* the CA the gateway is verified with, and the source of client           *)
(* certificates.  The Windows store, and no other source, can be told to   *)
(* list only what one CA has issued.  Every change of CA or source starts  *)
(* a goroutine (fetchCAAndFilter) that asks the gateway for its CA and     *)
(* sets this filter with the answer, whenever it comes.                    *)
(*                                                                         *)
(* A CA stands for the subject of its first certificate.  A filter that is *)
(* set on a source the relay has replaced cannot be seen by anyone.        *)
(***************************************************************************)
EXTENDS Integers, FiniteSets

CONSTANTS
    Servers,     \* values of server_addr
    NoServer,    \* the empty one
    CAs,         \* values of server_ca
    GoodCAs,     \* those that applyServerCA can load
    NoCA,        \* the empty one: the system's roots; also: no filter
    Dirs,        \* values of cert_dir
    SystemStore, \* the empty one: the Windows store
    Serves,      \* the CA that the gateway at an address names in /info
    MaxWaiting   \* bound: fetches that have not yet read what to ask

ASSUME SourceAssumption ==
    /\ NoServer \in Servers
    /\ NoCA \in GoodCAs /\ GoodCAs \subseteq CAs
    /\ SystemStore \in Dirs
    /\ DOMAIN Serves = Servers \ {NoServer}
    /\ MaxWaiting \in Nat \ {0}

VARIABLES
    addr,    \* Relay.serverAddr
    ca,      \* Relay.serverCA, with the roots and the subject made from it
    source,  \* Relay.src: its directory and its issuer filter
    waiting, \* fetches that have not begun
    fetches  \* addresses that are asked on behalf of the present source

sourceVars == <<addr, ca, source, waiting, fetches>>

-----------------------------------------------------------------------------
\* certSourceFromConfig and ResolveCertSource.
NewSource(d) == [dir |-> d, filter |-> NoCA]

\* ApplyIssuerFilter: no subject changes nothing, and only the system store
\* has the filter.
Filtered(src, subject) ==
    IF subject # NoCA /\ src.dir = SystemStore
    THEN [src EXCEPT !.filter = subject] ELSE src

\* One more goroutine; beyond the bound it fails at once, as any fetch may.
Spawned == IF waiting < MaxWaiting THEN waiting + 1 ELSE waiting

\* applyServerCA: a CA that cannot be loaded changes nothing.
ApplyServerCA(c) ==
    /\ c \in GoodCAs
    /\ ca' = c
    /\ source' = Filtered(source, c)
    /\ waiting' = Spawned

RefuseServerCA(c) ==
    /\ c \notin GoodCAs
    /\ UNCHANGED <<ca, source, waiting>>

\* fetchCAAndFilter, first half: it reads under the lock, and asks nobody
\* without an address or without a CA. A second fetch for the same source and
\* address fails here.
FetchAsks ==
    /\ waiting > 0
    /\ waiting' = waiting - 1
    /\ fetches' = IF addr = NoServer \/ ca = NoCA THEN fetches ELSE fetches \cup {addr}
    /\ UNCHANGED <<addr, ca, source>>

\* Second half: an error, or the filter of the source it read at the time.
FetchEnds ==
    \E a \in fetches :
        /\ fetches' = fetches \ {a}
        /\ source' \in {source, Filtered(source, Serves[a])}
        /\ UNCHANGED <<addr, ca, waiting>>
=============================================================================
