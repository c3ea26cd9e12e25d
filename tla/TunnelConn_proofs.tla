--------------------------- MODULE TunnelConn_proofs ---------------------------
(***************************************************************************)
(* How long a silent connection stays and what a connection leaves behind, *)
(* for any number of connections and any idle time.                        *)
(***************************************************************************)
EXTENDS TunnelConn, FiniteSetTheorems, TLAPS

Places == {"none", "accepted", "dialing", "dialed", "copying", "closing", "leaving", "done"}

Live == {c \in Conns : at[c] \notin {"none", "done"}}

-----------------------------------------------------------------------------
\* What the timer shows and the time without data: together they never reach
\* twice the idle time, as only data and a firing of the timer change their sum.
Timed ==
    /\ at \in [Conns -> Places]
    /\ quiet \in [Conns -> Nat] /\ wait \in [Conns -> Nat]
    /\ \A c \in Conns : at[c] = "copying" => quiet[c] + wait[c] < 2 * Idle

\* Copies run only between the two steps that start them and await their end, and
\* only those that run write;
\* a connection that is not handled has nothing, and the metrics count the others.
Kept ==
    /\ at \in [Conns -> Places]
    /\ writing \subseteq reading
    /\ active \in Int /\ IsFiniteSet(Live) /\ active = Cardinality(Live)
    /\ \A c \in Conns :
          /\ at[c] \in {"none", "done"} => Both(c) \cap (sock \cup conns) = {}
          /\ at[c] \notin {"copying", "closing"} => Both(c) \cap reading = {}

LEMMA TimedInit == Init => Timed
BY IdleAssumption DEF Init, Timed, Places

\* One step per action that touches the clock or starts the copies.
LEMMA TimedNext == Timed /\ [Next]_vars => Timed'
<1> SUFFICES ASSUME Timed, [Next]_vars PROVE Timed'
  OBVIOUS
<1> USE IdleAssumption
<1>1. CASE \E c \in Conns : Accept(c) \/ Register(c) \/ Dialed(c) \/ DialFails(c)
                            \/ CopiesDone(c) \/ Leave(c)
  BY <1>1 DEF Timed, Places, Accept, Register, Dialed, DialFails, CopiesDone, Leave, Goes, clock
<1>2. ASSUME NEW c \in Conns, StartCopies(c) PROVE Timed'
  BY <1>2 DEF Timed, Places, StartCopies, Goes
<1>3. ASSUME NEW c \in Conns, NEW s \in Sides, Write(c, s) PROVE Timed'
  BY <1>3 DEF Timed, Write
<1>4. ASSUME NEW c \in Conns, IdleFires(c) PROVE Timed'
  BY <1>4 DEF Timed, Places, IdleFires
<1>5. CASE Tick
  BY <1>5 DEF Timed, Tick
<1>6. CASE \/ \E c \in Conns, s \in Sides : \/ Read(c, s) \/ WriteFails(c, s)
                                           \/ CopyEnds(c, s) \/ PeerEnds(c, s)
           \/ Cancel \/ Drain \/ UNCHANGED vars
  BY <1>6 DEF Timed, Read, WriteFails, CopyEnds, PeerEnds, Cancel, Drain, vars, clock
<1> QED
  BY <1>1, <1>2, <1>3, <1>4, <1>5, <1>6 DEF Next, Handle

\* A connection without data in either direction is closed before twice the
\* idle time is over (IdleBound), for every idle time.
THEOREM IdleCorrect == Spec => []IdleBound
<1>1. Timed => IdleBound
  BY IdleAssumption DEF Timed, IdleBound
<1> QED
  BY TimedInit, TimedNext, <1>1, PTL DEF Spec

-----------------------------------------------------------------------------
LEMMA KeptInit == Init => Kept
<1> SUFFICES ASSUME Init PROVE Kept
  OBVIOUS
<1>1. Live = {}
  BY DEF Init, Live
<1> QED
  BY <1>1, FS_EmptySet DEF Init, Kept, Places

\* A handler moves on without an end or a beginning: the same ones are live.
LEMMA LiveSame ==
  ASSUME Kept, at' \in [Conns -> Places], active' = active,
         \A c \in Conns : at'[c] \in {"none", "done"} <=> at[c] \in {"none", "done"}
  PROVE  active' \in Int /\ IsFiniteSet(Live') /\ active' = Cardinality(Live')
<1>1. Live' = Live
  BY DEF Live
<1> QED
  BY <1>1 DEF Kept

LEMMA KeptNext == Kept /\ [Next]_vars => Kept'
<1> SUFFICES ASSUME Kept, [Next]_vars PROVE Kept'
  OBVIOUS
<1>0. writing' \subseteq reading'
  <2>1. CASE \E c \in Conns, s \in Sides : \/ Read(c, s) \/ Write(c, s) \/ WriteFails(c, s)
                                           \/ CopyEnds(c, s) \/ PeerEnds(c, s)
    BY <2>1 DEF Kept, Read, Write, WriteFails, CopyEnds, PeerEnds
  <2>2. CASE \E c \in Conns : StartCopies(c)
    BY <2>2 DEF Kept, StartCopies
  <2>3. CASE \/ \E c \in Conns : \/ Accept(c) \/ Register(c) \/ Dialed(c) \/ DialFails(c)
                                 \/ IdleFires(c) \/ CopiesDone(c) \/ Leave(c)
             \/ Cancel \/ Drain \/ Tick \/ UNCHANGED vars
    <3>1. UNCHANGED <<reading, writing>>
      BY <2>3 DEF Accept, Register, Dialed, DialFails, IdleFires, CopiesDone, Leave, Cancel, Drain,
                  Tick, vars
    <3> QED
      BY <3>1 DEF Kept
  <2> QED
    BY <2>1, <2>2, <2>3 DEF Next, Handle
<1>1. ASSUME NEW c \in Conns, Accept(c) PROVE Kept'
  <2>1. at' \in [Conns -> Places] /\ at[c] = "none" /\ at' = [at EXCEPT ![c] = "accepted"]
    BY <1>1 DEF Kept, Places, Accept, Goes
  <2>2. Live' = Live \cup {c} /\ c \notin Live
    BY <2>1 DEF Live, Kept
  <2>3. active' \in Int /\ IsFiniteSet(Live') /\ active' = Cardinality(Live')
    BY <1>1, <2>2, FS_AddElement DEF Kept, Accept
  <2>4. \A d \in Conns : /\ at'[d] \in {"none", "done"} => Both(d) \cap (sock' \cup conns') = {}
                         /\ at'[d] \notin {"copying", "closing"} => Both(d) \cap reading' = {}
    BY <1>1, <2>1 DEF Kept, Accept, Both
  <2> QED
    BY <1>0, <2>1, <2>3, <2>4 DEF Kept
<1>2. ASSUME NEW c \in Conns, Leave(c) PROVE Kept'
  <2>1. at' \in [Conns -> Places] /\ at[c] = "leaving" /\ at' = [at EXCEPT ![c] = "done"]
    BY <1>2 DEF Kept, Places, Leave, Goes
  <2>2. Live' = Live \ {c} /\ c \in Live
    BY <2>1 DEF Live, Kept
  <2>3. active' \in Int /\ IsFiniteSet(Live') /\ active' = Cardinality(Live')
    BY <1>2, <2>2, FS_RemoveElement DEF Kept, Leave
  <2>4. \A d \in Conns : /\ at'[d] \in {"none", "done"} => Both(d) \cap (sock' \cup conns') = {}
                         /\ at'[d] \notin {"copying", "closing"} => Both(d) \cap reading' = {}
    BY <1>2, <2>1 DEF Kept, Leave, Both
  <2> QED
    BY <1>0, <2>1, <2>3, <2>4 DEF Kept
<1>3. ASSUME NEW c \in Conns, Register(c) \/ Dialed(c) \/ DialFails(c) \/ StartCopies(c)
                              \/ CopiesDone(c)
      PROVE  Kept'
  <2>1. /\ at' \in [Conns -> Places] /\ active' = active
        /\ \A d \in Conns : at'[d] \in {"none", "done"} <=> at[d] \in {"none", "done"}
    BY <1>3 DEF Kept, Places, Register, Dialed, DialFails, StartCopies, CopiesDone, Goes
  <2>2. \A d \in Conns : /\ at'[d] \in {"none", "done"} => Both(d) \cap (sock' \cup conns') = {}
                         /\ at'[d] \notin {"copying", "closing"} => Both(d) \cap reading' = {}
    BY <1>3 DEF Kept, Places, Register, Dialed, DialFails, StartCopies, CopiesDone, Goes, Both
  <2> QED
    BY <1>0, <2>1, <2>2, LiveSame DEF Kept
<1>4. ASSUME NEW c \in Conns, IdleFires(c) PROVE Kept'
  <2>1. /\ at' \in [Conns -> Places] /\ active' = active
        /\ \A d \in Conns : at'[d] \in {"none", "done"} <=> at[d] \in {"none", "done"}
    BY <1>4 DEF Kept, Places, IdleFires
  <2>2. \A d \in Conns : /\ at'[d] \in {"none", "done"} => Both(d) \cap (sock' \cup conns') = {}
                         /\ at'[d] \notin {"copying", "closing"} => Both(d) \cap reading' = {}
    BY <1>4 DEF Kept, Places, IdleFires
  <2> QED
    BY <1>0, <2>1, <2>2, LiveSame DEF Kept
<1>5. CASE \/ \E c \in Conns, s \in Sides : \/ Read(c, s) \/ Write(c, s) \/ WriteFails(c, s)
                                           \/ CopyEnds(c, s) \/ PeerEnds(c, s)
           \/ Cancel \/ Drain \/ Tick \/ UNCHANGED vars
  <2>1. /\ at' = at /\ active' = active /\ conns' = conns
        /\ sock' \subseteq sock /\ reading' \subseteq reading
    BY <1>5 DEF Read, Write, WriteFails, CopyEnds, PeerEnds, Cancel, Drain, Tick, vars
  <2> QED
    BY <1>0, <2>1, LiveSame DEF Kept
<1> QED
  BY <1>1, <1>2, <1>3, <1>4, <1>5 DEF Next, Handle

\* A connection that has ended leaves no socket, nothing in conns and no count in
\* the metrics (NothingLeft), wherever a stop, a reset or the timer met it.
THEOREM NothingLeftCorrect == Spec => []NothingLeft
<1>1. Kept => NothingLeft
  BY DEF Kept, NothingLeft, Live
<1> QED
  BY KeptInit, KeptNext, <1>1, PTL DEF Spec
=============================================================================
