------------------------------ MODULE TunnelConn ------------------------------
(***************************************************************************)
(* The connections of one TCP tunnel of mtls-relay: acceptLoop, handleConn *)
(* with its two copyLoops and its idle timer, and stop of                  *)
(* internal/relay/tunnel.go.                                               *)
(*                                                                         *)
(* Clients and the gateway are free: they send, end their direction, reset *)
(* a connection, stay silent for ever, or take nothing of what is sent to  *)
(* them: a write has no deadline, and its copy reads nothing while it      *)
(* waits.  A dial fails once the tunnel's context is cancelled.  Time is   *)
(* counted in units; a timer that is due fires before time goes on.        *)
(***************************************************************************)
EXTENDS Integers, FiniteSets

CONSTANTS
    Conns,  \* connections that clients may open
    Idle    \* tunnelRuntime.idle

ASSUME IdleAssumption == Idle \in Nat \ {0}

VARIABLES
    stopping, \* how far stop is: no, cancelled, drained
    at,       \* where the goroutine of a connection is
    sock,     \* <<c, side>>: sockets the relay has open
    conns,    \* <<c, side>>: tunnelRuntime.conns
    active,   \* metrics.activeConns
    reading,  \* <<c, side>>: copyLoops that run, by the side they read from
    writing,  \* <<c, side>>: copyLoops in dst.Write with what they have read
    half,     \* connections whose upstream was told that the client has ended
    ended,    \* <<c, side>>: peers that have ended their direction, all they sent having been read
    reset,    \* <<c, side>>: peers that have dropped the connection
    quiet,    \* quiet[c]: the time since lastActive
    wait      \* wait[c]: the time until the timer fires

peers == <<ended, reset>>
clock == <<quiet, wait>>
vars  == <<stopping, at, sock, conns, active, reading, writing, half, peers, clock>>

Sides    == {"local", "upstream"}
Other(s) == CHOOSE t \in Sides : t # s
Both(c)  == {c} \X Sides

-----------------------------------------------------------------------------
Init ==
    /\ stopping = "no"
    /\ at = [c \in Conns |-> "none"]
    /\ sock = {} /\ conns = {} /\ active = 0 /\ reading = {} /\ writing = {} /\ half = {}
    /\ ended = {} /\ reset = {}
    /\ quiet = [c \in Conns |-> 0]
    /\ wait = [c \in Conns |-> Idle]

Goes(c, from, to) == at[c] = from /\ at' = [at EXCEPT ![c] = to]

\* acceptLoop, until the listener is closed; it has one connection at a time.
Accept(c) ==
    /\ stopping # "drained" /\ \A d \in Conns : at[d] # "accepted"
    /\ Goes(c, "none", "accepted")
    /\ sock' = sock \cup {<<c, "local">>}
    /\ active' = active + 1
    /\ UNCHANGED <<stopping, conns, reading, writing, half, peers, clock>>

Register(c) ==
    /\ Goes(c, "accepted", "dialing")
    /\ conns' = conns \cup {<<c, "local">>}
    /\ UNCHANGED <<stopping, sock, active, reading, writing, half, peers, clock>>

Dialed(c) ==
    /\ stopping = "no"
    /\ Goes(c, "dialing", "dialed")
    /\ sock' = sock \cup {<<c, "upstream">>}
    /\ UNCHANGED <<stopping, conns, active, reading, writing, half, peers, clock>>

DialFails(c) ==
    /\ Goes(c, "dialing", "leaving")
    /\ UNCHANGED <<stopping, sock, conns, active, reading, writing, half, peers, clock>>

\* The upstream joins conns, both copies and the timer start.
StartCopies(c) ==
    /\ Goes(c, "dialed", "copying")
    /\ conns' = conns \cup {<<c, "upstream">>}
    /\ reading' = reading \cup Both(c)
    /\ quiet' = [quiet EXCEPT ![c] = 0]
    /\ wait' = [wait EXCEPT ![c] = Idle]
    /\ UNCHANGED <<stopping, sock, active, writing, half, peers>>

\* copyLoop: data of one side is read ...
Read(c, s) ==
    /\ <<c, s>> \in reading \ writing /\ <<c, s>> \in sock \ (ended \cup reset)
    /\ writing' = writing \cup {<<c, s>>}
    /\ UNCHANGED <<stopping, at, sock, conns, active, reading, half, peers, clock>>

\* ... and written to the other, whenever that takes it, ...
Write(c, s) ==
    /\ <<c, s>> \in writing /\ <<c, Other(s)>> \in sock \ reset
    /\ writing' = writing \ {<<c, s>>}
    /\ quiet' = [quiet EXCEPT ![c] = 0]
    /\ UNCHANGED <<stopping, at, sock, conns, active, reading, half, peers, wait>>

\* ... or not, once that is closed or has dropped the connection: this copy
\* returns, and passes no end on.
WriteFails(c, s) ==
    /\ <<c, s>> \in writing /\ <<c, Other(s)>> \notin sock \ reset
    /\ writing' = writing \ {<<c, s>>} /\ reading' = reading \ {<<c, s>>}
    /\ UNCHANGED <<stopping, at, sock, conns, active, half, peers, clock>>

\* No end is passed on, for comparison.
CopyStops(c, s) ==
    /\ <<c, s>> \in reading \ writing /\ <<c, s>> \notin sock \ (ended \cup reset)
    /\ reading' = reading \ {<<c, s>>}
    /\ UNCHANGED <<stopping, at, sock, conns, active, writing, half, peers, clock>>

\* copyLoop: the end of what the client sends is passed on, that of the upstream
\* is not.
CopyEnds(c, s) ==
    /\ <<c, s>> \in reading \ writing /\ <<c, s>> \notin sock \ (ended \cup reset)
    /\ reading' = reading \ {<<c, s>>}
    /\ half' = IF s = "local" THEN half \cup {c} ELSE half
    /\ UNCHANGED <<stopping, at, sock, conns, active, writing, peers, clock>>

\* Only the client's socket is closed, for comparison.
IdleLocal(c) ==
    /\ at[c] = "copying" /\ wait[c] = 0
    /\ IF quiet[c] >= Idle
       THEN at' = [at EXCEPT ![c] = "closing"] /\ sock' = sock \ {<<c, "local">>} /\ UNCHANGED wait
       ELSE wait' = [wait EXCEPT ![c] = Idle] /\ UNCHANGED <<at, sock>>
    /\ UNCHANGED <<stopping, conns, active, reading, writing, half, peers, quiet>>

\* The limit comes one late, for comparison.
IdleLate(c) ==
    /\ at[c] = "copying" /\ wait[c] = 0
    /\ IF quiet[c] > Idle
       THEN at' = [at EXCEPT ![c] = "closing"] /\ sock' = sock \ Both(c) /\ UNCHANGED wait
       ELSE wait' = [wait EXCEPT ![c] = Idle] /\ UNCHANGED <<at, sock>>
    /\ UNCHANGED <<stopping, conns, active, reading, writing, half, peers, quiet>>

\* The timer: both sockets are closed, or it is set to Idle again.
IdleFires(c) ==
    /\ at[c] = "copying" /\ wait[c] = 0
    /\ IF quiet[c] >= Idle
       THEN at' = [at EXCEPT ![c] = "closing"] /\ sock' = sock \ Both(c) /\ UNCHANGED wait
       ELSE wait' = [wait EXCEPT ![c] = Idle] /\ UNCHANGED <<at, sock>>
    /\ UNCHANGED <<stopping, conns, active, reading, writing, half, peers, quiet>>

CopiesDone(c) ==
    /\ Both(c) \cap reading = {}
    /\ at[c] \in {"copying", "closing"} /\ at' = [at EXCEPT ![c] = "leaving"]
    /\ UNCHANGED <<stopping, sock, conns, active, reading, writing, half, peers, clock>>

\* The upstream stays in conns, for comparison.
LeaveUpstream(c) ==
    /\ Goes(c, "leaving", "done")
    /\ sock' = sock \ Both(c)
    /\ conns' = conns \ {<<c, "local">>}
    /\ active' = active - 1
    /\ UNCHANGED <<stopping, reading, writing, half, peers, clock>>

\* The deferred calls of handleConn.
Leave(c) ==
    /\ Goes(c, "leaving", "done")
    /\ sock' = sock \ Both(c)
    /\ conns' = conns \ Both(c)
    /\ active' = active - 1
    /\ UNCHANGED <<stopping, reading, writing, half, peers, clock>>

-----------------------------------------------------------------------------
\* stop: the context is cancelled, then the listener and what is in conns closed.
Cancel ==
    /\ stopping = "no" /\ stopping' = "cancelled"
    /\ UNCHANGED <<at, sock, conns, active, reading, writing, half, peers, clock>>

Drain ==
    /\ stopping = "cancelled" /\ stopping' = "drained"
    /\ sock' = sock \ conns
    /\ UNCHANGED <<at, conns, active, reading, writing, half, peers, clock>>

\* A peer ends its direction, or drops the connection, before that or after.
PeerEnds(c, s) ==
    /\ <<c, s>> \in sock \ reset
    /\ \/ ended' = ended \cup {<<c, s>>} /\ UNCHANGED reset
       \/ reset' = reset \cup {<<c, s>>} /\ UNCHANGED ended
    /\ UNCHANGED <<stopping, at, sock, conns, active, reading, writing, half, clock>>

Tick ==
    /\ \E c \in Conns : at[c] = "copying"
    /\ \A c \in Conns : at[c] = "copying" => wait[c] > 0
    /\ quiet' = [c \in Conns |-> IF at[c] = "copying" THEN quiet[c] + 1 ELSE quiet[c]]
    /\ wait' = [c \in Conns |-> IF at[c] = "copying" THEN wait[c] - 1 ELSE wait[c]]
    /\ UNCHANGED <<stopping, at, sock, conns, active, reading, writing, half, peers>>

Handle(c) ==
    \/ Register(c) \/ Dialed(c) \/ DialFails(c) \/ StartCopies(c)
    \/ IdleFires(c) \/ CopiesDone(c) \/ Leave(c)

Next ==
    \/ \E c \in Conns : Accept(c) \/ Handle(c)
                        \/ \E s \in Sides : \/ Read(c, s) \/ Write(c, s) \/ WriteFails(c, s)
                                          \/ CopyEnds(c, s) \/ PeerEnds(c, s)
    \/ Cancel \/ Drain \/ Tick

Spec == Init /\ [][Next]_vars

\* The relay's goroutines run on where nothing holds them, a stop that has begun
\* is completed and time passes.  Of clients, the gateway and stop itself nothing
\* is assumed: no data need come, and no write need be taken.
Fairness ==
    /\ \A c \in Conns : /\ WF_vars(Handle(c))
                        /\ \A s \in Sides : WF_vars(CopyEnds(c, s)) /\ WF_vars(WriteFails(c, s))
    /\ WF_vars(Drain) /\ WF_vars(Tick)

FairSpec == Spec /\ Fairness

-----------------------------------------------------------------------------
\* A connection without data in either direction is closed before it has been
\* quiet for twice the idle time, however the timer and the data fall.
IdleBound == \A c \in Conns : at[c] = "copying" => quiet[c] < 2 * Idle

\* What a connection leaves: no socket, nothing in conns, no count in the metrics;
\* conns holds no socket that is not one of a connection's that is still handled.
NothingLeft ==
    /\ \A c \in Conns : at[c] \in {"none", "done"} => Both(c) \cap (sock \cup conns \cup reading \cup writing) = {}
    /\ active = Cardinality({c \in Conns : at[c] \notin {"none", "done"}})

\* The upstream learns that the client has ended, unless its connection is closed
\* or the upstream never takes what the client sent before: as long as it sends
\* itself, the timer does not end such a connection either.
EndPassedOn ==
    \A c \in Conns :
        []<>(<<c, "local">> \notin writing)
            => (<<c, "local">> \in ended /\ at[c] = "copying" ~> c \in half \/ at[c] = "done")

\* No connection stays for ever with peers that never answer: after a stop each
\* comes to its end, and before it a connection in which nothing is passed on sees data
\* pass again or is ended by the timer. That is all that ends one whose upstream has
\* ended its direction, which the client is not told.
ConnEnds ==
    \A c \in Conns :
        at[c] \notin {"none", "done"} /\ (stopping = "drained" \/ quiet[c] > 0)
            ~> at[c] = "done" \/ (stopping # "drained" /\ quiet[c] = 0)

\* handleConn's comment: the upstream is in the set that stop closes.
StopCloses ==
    stopping = "drained" => \A c \in Conns : <<c, "upstream">> \in conns => <<c, "upstream">> \notin sock
=============================================================================
