-------------------------- MODULE RelayManager_proofs --------------------------
(***************************************************************************)
(* That a relay with a CA never works with an unfiltered store, and that   *)
(* requests that do not overlap leave memory, file and relay with the same *)
(* configuration, for any number of requests, gateways, CAs and tunnels.   *)
(***************************************************************************)
EXTENDS RelayManager, TLAPS

IsSource(s) == s = [dir |-> s.dir, filter |-> s.filter]

Steps == {"setca", "setsource", "filter", "save", "read", "reload", "start", "rollback"}

\* Whoever replaces the source has its filter to set as the next step ...
Plan(s) ==
    /\ s \in Seq(Steps)
    /\ \A i \in 1 .. Len(s) : s[i] = "setsource" => i + 1 \in 1 .. Len(s) /\ s[i + 1] = "filter"

FilterFollows == todo = [o \in Ops |-> todo[o]] /\ \A o \in Ops : Plan(todo[o])

\* ... and has read what it is, until it is set.
SubjectHeld ==
    /\ subject \in [Ops -> CAs]
    /\ \A o \in Ops : subject[o] # NoCA => At(o, "filter")

\* A store without a filter is about to get one from the present CA.
StoreFiltered ==
    /\ IsSource(source) /\ ca \in CAs
    /\ ca # NoCA /\ source.dir = SystemStore /\ source.filter = NoCA =>
          \E o \in Ops : subject[o] # NoCA

\* A file, and what is to be written to it, has a CA.
Recorded ==
    /\ "ca" \in DOMAIN disk
    /\ snap = [o \in Ops |-> snap[o]] /\ \A o \in Ops : "ca" \in DOMAIN snap[o]

FInv == FilterFollows /\ SubjectHeld /\ StoreFiltered

-----------------------------------------------------------------------------
LEMMA PlanConcat == ASSUME NEW s, NEW t, Plan(s), Plan(t) PROVE Plan(s \o t)
<1>1. /\ s \o t \in Seq(Steps) /\ Len(s \o t) = Len(s) + Len(t)
      /\ \A i \in 1 .. Len(s) + Len(t) : (s \o t)[i] = IF i <= Len(s) THEN s[i] ELSE t[i - Len(s)]
      /\ Len(s) \in Nat /\ Len(t) \in Nat
  BY DEF Plan
<1>2. ASSUME NEW i \in 1 .. Len(s) + Len(t), (s \o t)[i] = "setsource"
      PROVE  i + 1 \in 1 .. Len(s) + Len(t) /\ (s \o t)[i + 1] = "filter"
  <2>1. CASE i <= Len(s)
    BY <1>1, <1>2, <2>1 DEF Plan
  <2>2. CASE i > Len(s)
    <3>1. i - Len(s) \in 1 .. Len(t) /\ t[i - Len(s)] = "setsource"
      BY <1>1, <1>2, <2>2
    <3>2. i - Len(s) + 1 \in 1 .. Len(t) /\ t[i - Len(s) + 1] = "filter"
      BY <3>1 DEF Plan
    <3>3. i + 1 \in 1 .. Len(s) + Len(t) /\ i + 1 - Len(s) = i - Len(s) + 1 /\ i + 1 > Len(s)
      BY <1>1, <2>2, <3>2
    <3> QED
      BY <1>1, <3>2, <3>3
  <2> QED
    BY <1>1, <2>1, <2>2
<1> QED
  BY <1>1, <1>2 DEF Plan

LEMMA PlanTail ==
  ASSUME NEW s, Plan(s), s # <<>>
  PROVE  /\ Plan(Tail(s))
         /\ Head(s) = "setsource" => Tail(s) # <<>> /\ Head(Tail(s)) = "filter"
<1>1. /\ Tail(s) \in Seq(Steps) /\ Len(Tail(s)) = Len(s) - 1 /\ Len(s) \in Nat \ {0}
      /\ \A i \in 1 .. Len(s) - 1 : Tail(s)[i] = s[i + 1]
      /\ Head(s) = s[1]
  BY DEF Plan
<1>2. Plan(Tail(s))
  <2>1. ASSUME NEW i \in 1 .. Len(s) - 1, s[i + 1] = "setsource"
        PROVE  i + 1 \in 1 .. Len(s) - 1 /\ Tail(s)[i + 1] = "filter"
    <3>1. i + 1 \in 1 .. Len(s)
      BY <1>1
    <3>2. i + 1 + 1 \in 1 .. Len(s) /\ s[i + 1 + 1] = "filter"
      BY <2>1, <3>1 DEF Plan
    <3> QED
      BY <1>1, <3>2
  <2> QED
    BY <1>1, <2>1 DEF Plan
<1>3. ASSUME Head(s) = "setsource" PROVE Tail(s) # <<>> /\ Head(Tail(s)) = "filter"
  <2>1. 2 \in 1 .. Len(s) /\ s[2] = "filter"
    BY <1>1, <1>3 DEF Plan
  <2>2. Len(Tail(s)) > 0 /\ Tail(s)[1] = "filter"
    BY <1>1, <2>1
  <2>3. \A t \in Seq(Steps) : Len(t) > 0 => t # <<>> /\ Head(t) = t[1]
    OBVIOUS
  <2> QED
    BY <1>1, <2>2, <2>3
<1> QED
  BY <1>2, <1>3

\* What the handlers plan.
LEMMA Plans ==
  /\ Plan(<<>>) /\ Plan(<<"setca">>) /\ Plan(<<"setsource", "filter">>) /\ Plan(<<"save">>)
  /\ Plan(<<"rollback">>) /\ Plan(<<"read", "reload">>) /\ Plan(<<"read", "start">>)
<1>1. ASSUME NEW a \in Steps PROVE /\ <<a>> \in Seq(Steps) /\ Len(<<a>>) = 1 /\ <<a>>[1] = a
  OBVIOUS
<1>2. ASSUME NEW a \in Steps, NEW b \in Steps
      PROVE  /\ <<a, b>> \in Seq(Steps) /\ Len(<<a, b>>) = 2
             /\ <<a, b>>[1] = a /\ <<a, b>>[2] = b
  OBVIOUS
<1>3. Plan(<<>>)
  BY DEF Plan
<1>4. \A a \in Steps : a # "setsource" => Plan(<<a>>)
  BY <1>1 DEF Plan
<1>5. \A a, b \in Steps : b # "setsource" /\ (a = "setsource" => b = "filter") => Plan(<<a, b>>)
  BY <1>2 DEF Plan
<1>6. Plan(<<"setca">>) /\ Plan(<<"save">>) /\ Plan(<<"rollback">>)
  BY <1>4 DEF Steps
<1>7. Plan(<<"setsource", "filter">>) /\ Plan(<<"read", "reload">>) /\ Plan(<<"read", "start">>)
  BY <1>5 DEF Steps
<1> QED
  BY <1>3, <1>6, <1>7

LEMMA FilteredIs ==
  ASSUME NEW s, IsSource(s), NEW c
  PROVE  /\ IsSource(Filtered(s, c)) /\ Filtered(s, c).dir = s.dir
         /\ Filtered(s, c).filter = IF c # NoCA /\ s.dir = SystemStore THEN c ELSE s.filter
BY DEF IsSource, Filtered

LEMMA NewIs == ASSUME NEW d PROVE IsSource(NewSource(d)) /\ NewSource(d).dir = d
BY DEF IsSource, NewSource

\* Start-up and restart, with a CA that loads.
LEMMA FreshSource ==
  ASSUME NEW d, NEW c \in GoodCAs,
         todo' = [o \in Ops |-> <<>>], subject' = [o \in Ops |-> NoCA],
         ca' = c, source' = Filtered(NewSource(d), c)
  PROVE  FInv'
<1>1. FilterFollows'
  BY Plans DEF FilterFollows
<1>2. SubjectHeld'
  BY SourceAssumption DEF SubjectHeld
<1>3. StoreFiltered'
  BY NewIs, FilteredIs, SourceAssumption DEF StoreFiltered
<1> QED
  BY <1>1, <1>2, <1>3 DEF FInv

LEMMA FInvInit == Init => FInv
<1> SUFFICES ASSUME Init PROVE FInv
  OBVIOUS
<1>1. FilterFollows
  BY Plans DEF Init, FilterFollows
<1>2. SubjectHeld
  BY SourceAssumption DEF Init, SubjectHeld
<1>3. ca \in CAs
  BY ManagerAssumption, SourceAssumption DEF Init
<1>4. StoreFiltered
  BY <1>3, NewIs, FilteredIs DEF Init, StoreFiltered
<1> QED
  BY <1>1, <1>2, <1>4 DEF FInv

-----------------------------------------------------------------------------
\* A request that begins.
LEMMA BeginsKeeps ==
  ASSUME FInv, NEW o \in Ops, NEW steps, Begins(o, steps), Plan(steps),
         UNCHANGED <<sourceVars, subject>>
  PROVE  FInv'
<1>1. todo[o] = <<>> /\ todo' = [todo EXCEPT ![o] = steps]
  BY DEF Begins
<1>2. FilterFollows'
  BY <1>1 DEF FInv, FilterFollows
<1>3. SubjectHeld'
  BY <1>1 DEF FInv, FilterFollows, SubjectHeld, At
<1>4. StoreFiltered'
  BY DEF FInv, StoreFiltered, sourceVars
<1> QED
  BY <1>2, <1>3, <1>4 DEF FInv

\* A step that has been taken, if it is not the one that replaces the source.
LEMMA DoneKeeps ==
  ASSUME FInv, NEW o \in Ops, NEW step, Done(o, step)
  PROVE  /\ FilterFollows'
         /\ \A q \in Ops \ {o} : todo'[q] = todo[q]
         /\ step = "setsource" => At(o, "filter")'
<1>1. /\ todo[o] # <<>> /\ Head(todo[o]) = step
      /\ todo' = [todo EXCEPT ![o] = Tail(todo[o])]
  BY DEF Done, At
<1>2. /\ Plan(Tail(todo[o]))
      /\ step = "setsource" => Tail(todo[o]) # <<>> /\ Head(Tail(todo[o])) = "filter"
  BY <1>1, PlanTail DEF FInv, FilterFollows
<1>3. todo'[o] = Tail(todo[o]) /\ \A q \in Ops \ {o} : todo'[q] = todo[q]
  BY <1>1 DEF FInv, FilterFollows
<1>4. FilterFollows'
  BY <1>1, <1>2, <1>3 DEF FInv, FilterFollows
<1> QED
  BY <1>2, <1>3, <1>4 DEF At

\* The subjects stay with their owners when another kind of step is taken.
LEMMA SubjectKeeps ==
  ASSUME FInv, NEW o \in Ops, NEW step, Done(o, step), step # "filter", UNCHANGED subject
  PROVE  FilterFollows' /\ SubjectHeld'
<1>1. FilterFollows' /\ \A q \in Ops \ {o} : todo'[q] = todo[q]
  BY DoneKeeps
<1>2. subject[o] = NoCA
  BY DEF FInv, SubjectHeld, Done, At
<1> QED
  BY <1>1, <1>2 DEF FInv, SubjectHeld, At

LEMMA ApplyKeeps ==
  ASSUME FInv, NEW c, ApplyServerCA(c), UNCHANGED subject
  PROVE  StoreFiltered'
BY FilteredIs, SourceAssumption DEF ApplyServerCA, FInv, StoreFiltered

-----------------------------------------------------------------------------
LEMMA RecordedInit == Init => Recorded
BY ManagerAssumption DEF Init, Recorded, NoCopy, First

LEMMA RecordedNext == Recorded /\ [Next]_vars => Recorded'
<1> SUFFICES ASSUME Recorded, [Next]_vars PROVE Recorded'
  OBVIOUS
<1>0. "ca" \in DOMAIN Memory /\ "ca" \in DOMAIN Effective /\ "ca" \in DOMAIN Memory' /\ "ca" \in DOMAIN First
  BY DEF Memory, Value, Effective, First
<1>1. ASSUME NEW o \in Ops, NEW steps, Changes(o, steps) PROVE Recorded'
  BY <1>0, <1>1 DEF Changes, Recorded
<1>add. ASSUME NEW o \in Ops, NEW t \in Tunnels, AddTunnel(o, t) PROVE Recorded'
  BY <1>1, <1>add DEF AddTunnel
<1>del. ASSUME NEW o \in Ops, NEW id \in Ids, DelTunnel(o, id) PROVE Recorded'
  BY <1>1, <1>del DEF DelTunnel
<1>set. ASSUME NEW o \in Ops, NEW p \in Patches, UpdateSettings(o, p) PROVE Recorded'
  BY <1>1, <1>set DEF UpdateSettings
<1>2. ASSUME NEW o \in Ops,
             SetServerCA(o) \/ SetSource(o) \/ FilterSource(o) \/ Reload(o) \/ Start(o)
      PROVE  Recorded'
  BY <1>2 DEF SetServerCA, SetSource, FilterSource, Reload, Start, Recorded
<1>3. ASSUME NEW o \in Ops, Rollback(o) \/ RelayReload(o) \/ RelayStart(o) PROVE Recorded'
  <2>1. snap' = [snap EXCEPT ![o] = First] /\ disk' = disk
    BY <1>3 DEF Rollback, RelayReload, RelayStart, Ends
  <2> QED
    BY <1>0, <2>1 DEF Recorded
<1>4. ASSUME NEW o \in Ops, Save(o) PROVE Recorded'
  <2>1. snap' = [snap EXCEPT ![o] = First] /\ (disk' = disk \/ disk' = snap[o])
    BY <1>4 DEF Save
  <2> QED
    BY <1>0, <2>1 DEF Recorded
<1>5. ASSUME NEW o \in Ops, ReadConfig(o) PROVE Recorded'
  BY <1>0, <1>5 DEF ReadConfig, Recorded
<1>6. CASE Restart
  <2>1. DOMAIN disk' = DOMAIN disk /\ snap' = [o \in Ops |-> First]
    BY <1>6 DEF Restart, NoCopy
  <2> QED
    BY <1>0, <2>1 DEF Recorded
<1>7. CASE Stop \/ Fetch \/ UNCHANGED vars
  BY <1>7 DEF Stop, Fetch, vars, local, Recorded
<1> QED
  BY <1>add, <1>del, <1>set, <1>2, <1>3, <1>4, <1>5, <1>6, <1>7 DEF Next

LEMMA FInvNext == FInv /\ Recorded /\ [Next]_vars => FInv'
<1> SUFFICES ASSUME FInv, Recorded, [Next]_vars PROVE FInv'
  OBVIOUS
<1>1. ASSUME NEW o \in Ops,
             \/ \E t \in Tunnels : AddTunnel(o, t)
             \/ \E id \in Ids : DelTunnel(o, id)
             \/ Reload(o) \/ Start(o)
      PROVE  FInv'
  <2>1. PICK steps \in {<<>> \o Saves \o <<"read", "reload">>, <<"read", "reload">>,
                        <<"read", "start">>} :
           Begins(o, steps) /\ UNCHANGED <<sourceVars, subject>>
    BY <1>1 DEF AddTunnel, DelTunnel, Changes, Reload, Start
  <2>2. Plan(steps)
    BY <2>1, Plans, PlanConcat DEF Saves
  <2> QED
    BY <2>1, <2>2, BeginsKeeps
<1>2. ASSUME NEW o \in Ops, NEW p \in Patches, UpdateSettings(o, p) PROVE FInv'
  <2> DEFINE setca == IF "ca" \in DOMAIN p THEN <<"setca">> ELSE <<>>
             setdir == IF "dir" \in DOMAIN p THEN <<"setsource", "filter">> ELSE <<>>
             steps == setca \o setdir \o Saves \o <<"read", "reload">>
  <2>1. Begins(o, steps) /\ UNCHANGED <<sourceVars, subject>>
    BY <1>2 DEF UpdateSettings, Changes
  <2>2. Plan(setca) /\ Plan(setdir) /\ Plan(Saves)
    BY Plans DEF Saves
  <2>3. Plan(setca \o setdir \o Saves \o <<"read", "reload">>)
    <3> HIDE DEF setca, setdir
    <3> QED
      BY <2>2, Plans, PlanConcat
  <2> QED
    BY <2>1, <2>3, BeginsKeeps
<1>3. ASSUME NEW o \in Ops, SetServerCA(o) PROVE FInv'
  <2>1. CASE ApplyServerCA(snap[o].ca) /\ Done(o, "setca")
    BY <1>3, <2>1, SubjectKeeps, ApplyKeeps DEF SetServerCA, FInv
  <2>2. CASE /\ RefuseServerCA(snap[o].ca) /\ At(o, "setca")
             /\ todo' = [todo EXCEPT ![o] = <<"rollback">>]
    <3>1. subject[o] = NoCA
      BY <2>2 DEF FInv, SubjectHeld, At
    <3>2. UNCHANGED <<ca, source, subject>>
      BY <1>3, <2>2 DEF SetServerCA, RefuseServerCA
    <3>3. FilterFollows'
      BY <2>2, Plans DEF FInv, FilterFollows
    <3>4. SubjectHeld'
      BY <2>2, <3>1, <3>2 DEF FInv, FilterFollows, SubjectHeld, At
    <3>5. StoreFiltered'
      BY <3>2 DEF FInv, StoreFiltered
    <3> QED
      BY <3>3, <3>4, <3>5 DEF FInv
  <2> QED
    BY <1>3, <2>1, <2>2 DEF SetServerCA
<1>4. ASSUME NEW o \in Ops, Rollback(o) \/ Save(o) \/ ReadConfig(o) PROVE FInv'
  <2>1. PICK step \in {"rollback", "save", "read"} : Done(o, step)
    BY <1>4 DEF Rollback, Save, ReadConfig, Ends
  <2>2. UNCHANGED <<ca, source, subject>>
    BY <1>4 DEF Rollback, Save, ReadConfig, Ends, sourceVars
  <2>3. StoreFiltered'
    BY <2>2 DEF FInv, StoreFiltered
  <2> QED
    BY <2>1, <2>2, <2>3, SubjectKeeps DEF FInv
<1>5. ASSUME NEW o \in Ops, SetSource(o) PROVE FInv'
  <2>1. /\ source' = NewSource(snap[o].dir) /\ ca' = ca
        /\ subject' = [q \in Ops |-> IF q = o THEN ca ELSE NoCA]
    BY <1>5 DEF SetSource
  <2>2. FilterFollows' /\ At(o, "filter")'
    BY <1>5, DoneKeeps DEF SetSource
  <2>3. SubjectHeld'
    BY <2>1, <2>2, SourceAssumption DEF FInv, StoreFiltered, SubjectHeld
  <2>4. StoreFiltered'
    BY <2>1, NewIs DEF FInv, StoreFiltered
  <2> QED
    BY <2>2, <2>3, <2>4 DEF FInv
<1>6. ASSUME NEW o \in Ops, FilterSource(o) PROVE FInv'
  <2>1. /\ source' = Filtered(source, subject[o]) /\ ca' = ca
        /\ subject' = [subject EXCEPT ![o] = NoCA]
    BY <1>6 DEF FilterSource
  <2>2. FilterFollows' /\ \A q \in Ops \ {o} : todo'[q] = todo[q]
    BY <1>6, DoneKeeps DEF FilterSource
  <2>3. SubjectHeld'
    BY <2>1, <2>2, SourceAssumption DEF FInv, SubjectHeld, At
  <2>4. StoreFiltered'
    BY <2>1, FilteredIs DEF FInv, SubjectHeld, StoreFiltered
  <2> QED
    BY <2>2, <2>3, <2>4 DEF FInv
<1>7. ASSUME NEW o \in Ops, RelayReload(o) \/ RelayStart(o) PROVE FInv'
  <2>1. UNCHANGED subject /\ (Done(o, "reload") \/ Done(o, "start"))
    BY <1>7 DEF RelayReload, RelayStart, Ends
  <2>2. UNCHANGED <<ca, source>> \/ ApplyServerCA(snap[o].ca)
    BY <1>7 DEF RelayReload, RelayStart, RefuseServerCA
  <2>3. StoreFiltered'
    BY <2>1, <2>2, ApplyKeeps DEF FInv, StoreFiltered
  <2> QED
    BY <2>1, <2>3, SubjectKeeps DEF FInv
<1>8. CASE Restart
  <2>1. FInv /\ disk'.ca \in GoodCAs
    BY <1>8 DEF Restart, Recorded
  <2> QED
    BY <1>8, <2>1, FreshSource DEF Restart
<1>9. CASE Fetch
  <2>1. UNCHANGED <<ca, subject, todo>>
    BY <1>9 DEF Fetch, FetchAsks, FetchEnds, local
  <2>2. source' = source \/ \E a \in fetches : source' = Filtered(source, Serves[a])
    BY <1>9 DEF Fetch, FetchAsks, FetchEnds
  <2>3. StoreFiltered'
    BY <2>1, <2>2, FilteredIs DEF FInv, StoreFiltered
  <2> QED
    BY <2>1, <2>3 DEF FInv, FilterFollows, SubjectHeld, At
<1>10. CASE Stop \/ UNCHANGED vars
  <2>1. UNCHANGED <<ca, source, subject, todo>>
    BY <1>10 DEF Stop, vars, sourceVars, local
  <2> QED
    BY <2>1 DEF FInv, FilterFollows, SubjectHeld, StoreFiltered, At
<1> QED
  BY <1>1, <1>2, <1>3, <1>4, <1>5, <1>6, <1>7, <1>8, <1>9, <1>10 DEF Next

\* With a CA configured the store never lists everybody's certificates once the
\* requests are answered (SourceFiltered), however SetSource, SetServerCA and the
\* fetches of the gateway's CA fall.
THEOREM FilteredCorrect == Spec => []SourceFiltered
<1>1. FInv => SourceFiltered
  BY DEF FInv, SubjectHeld, StoreFiltered, SourceFiltered, Quiet, At
<1> QED
  BY FInvInit, FInvNext, RecordedInit, RecordedNext, <1>1, PTL DEF Spec

-----------------------------------------------------------------------------
\* The steps that follow one another in a request have these ranks, and no two
\* of the same rank are in one plan.
Rank == [setca |-> 1, setsource |-> 2, filter |-> 3, save |-> 4, read |-> 5,
         reload |-> 6, start |-> 6, rollback |-> 6]

Increasing(s) == \A i, j \in 1 .. Len(s) : i < j => Rank[s[i]] < Rank[s[j]]

\* What is left of a plan: it ends with a step that answers the request, which
\* the relay takes from a configuration just read.
Course(s) ==
    /\ s \in Seq(Steps) /\ Increasing(s)
    /\ \A i \in 1 .. Len(s) :
          /\ s[i] = "rollback" => Len(s) = 1
          /\ s[i] \in {"reload", "start"} /\ i > 1 => s[i - 1] = "read"
          /\ s[i] = "filter" /\ i > 1 => s[i - 1] = "setsource"
          /\ s[i] = "start" => s[1] \in {"read", "start"}
          /\ i = Len(s) => s[i] \in {"reload", "start", "rollback"}

Courses == todo = [o \in Ops |-> todo[o]] /\ \A o \in Ops : Course(todo[o])

Fields == {"arr", "server", "ca", "dir", "tunnels"}

\* Files and copies have the four fields, configurations in memory five.
Shapes ==
    /\ disk = Value(disk) /\ DOMAIN cfg = Fields
    /\ snap = [o \in Ops |-> snap[o]] /\ \A o \in Ops : snap[o] = Value(snap[o])
    /\ old = [o \in Ops |-> old[o]] /\ \A o \in Ops : DOMAIN old[o] = Fields

Has(s, step) == \E i \in 1 .. Len(s) : s[i] = step

Pending(o, step) == Has(todo[o], step)

\* A request that may still give back what it found.
Undo(o) == At(o, "setca") \/ At(o, "rollback")

RelayHas(c) ==
    /\ addr = IF flags.server = NoServer THEN c.server ELSE flags.server
    /\ ca = c.ca /\ given = c.tunnels

\* A request that has been alone hands over what is in memory.
Solitude ==
    /\ alone = [o \in Ops |-> alone[o]]
    /\ \A o \in Ops : alone[o] =>
          IdleOps(o) /\ (At(o, "reload") \/ At(o, "start") => snap[o] = Effective)
    /\ settled => \A o \in Ops : todo[o] # <<>> => alone[o]

\* As long as nothing overlapped or failed: the file is that of memory, or the
\* request under way is going to save it ...
FileSettled ==
    /\ \A o \in Ops : Pending(o, "save") \/ Pending(o, "setsource") => snap[o] = Memory
    /\ \/ flags.noPersist
       \/ disk = Memory
       \/ \E o \in Ops : Pending(o, "save") \/ At(o, "rollback")
    /\ \A o \in Ops : Undo(o) => flags.noPersist \/ disk = Value(old[o])

\* ... the source likewise, and the filter that is about to be set is of the CA ...
SourceSettled ==
    /\ \/ source.dir = Memory.dir
       \/ \E o \in Ops : Pending(o, "setsource") \/ At(o, "rollback")
    /\ \A o \in Ops : Undo(o) => source.dir = old[o].dir
    /\ \A o \in Ops : At(o, "filter") => subject[o] = ca

\* ... a running relay has what memory has, unless a request is under way that
\* will tell it or give back what the relay has ...
RelaySettled ==
    started =>
      /\ (\A o \in Ops : todo[o] = <<>> \/ Pending(o, "start")) => RelayHas(cfg)
      /\ \A o \in Ops : Undo(o) => RelayHas(old[o])

\* ... and no gateway of another address is asked or has set the filter.
FilterSettled ==
    started =>
      /\ fetches \subseteq {addr}
      /\ source.dir = SystemStore /\ ca # NoCA =>
            source.filter \in CurrentFilters \/ \E o \in Ops : At(o, "filter")

Harmony == settled => FileSettled /\ SourceSettled /\ RelaySettled /\ FilterSettled

AInv == Courses /\ Shapes /\ Solitude /\ NoServer \notin fetches /\ Harmony

-----------------------------------------------------------------------------
LEMMA RankIs ==
  /\ \A a \in Steps : Rank[a] \in 1 .. 6
  /\ \A a \in Steps : /\ Rank[a] = 1 <=> a = "setca"
                      /\ Rank[a] = 2 <=> a = "setsource"
                      /\ Rank[a] = 3 <=> a = "filter"
                      /\ Rank[a] = 4 <=> a = "save"
                      /\ Rank[a] = 5 <=> a = "read"
                      /\ Rank[a] = 6 <=> a \in {"reload", "start", "rollback"}
BY DEF Rank, Steps

\* What is left after the first step of a plan.
LEMMA CourseTail ==
  ASSUME NEW s, Course(s), s # <<>>
  PROVE  /\ Course(Tail(s)) /\ Head(s) \in Steps
         /\ \A x : Has(Tail(s), x) <=> Has(s, x) /\ x # Head(s)
         /\ \A x : Has(Tail(s), x) => Rank[Head(s)] < Rank[x]
         /\ Tail(s) # <<>> =>
              /\ Head(Tail(s)) \notin {"setca", "rollback"}
              /\ Head(Tail(s)) \in {"reload", "start"} => Head(s) = "read"
              /\ Head(Tail(s)) = "filter" => Head(s) = "setsource"
         /\ Tail(s) = <<>> <=> Head(s) \in {"reload", "start", "rollback"}
         /\ Has(s, Head(s))
         /\ Has(s, "start") => Head(s) \in {"read", "start"}
<1> DEFINE t == Tail(s)
<1>1. /\ t \in Seq(Steps) /\ Len(t) = Len(s) - 1 /\ Len(s) \in Nat \ {0}
      /\ \A i \in 1 .. Len(s) - 1 : t[i] = s[i + 1]
      /\ Head(s) = s[1]
      /\ \A i \in 1 .. Len(s) : s[i] \in Steps
  BY DEF Course
<1>2. /\ Len(t) = 0 <=> t = <<>>
      /\ Len(t) > 0 => Head(t) = t[1]
  BY <1>1
<1> HIDE DEF t
<1>3. Increasing(t)
  BY <1>1 DEF Course, Increasing
<1>4. \A i \in 1 .. Len(t) : Rank[s[1]] < Rank[t[i]]
  BY <1>1 DEF Course, Increasing
<1>5. \A i \in 1 .. Len(t) : s[i + 1] = t[i] /\ i + 1 \in 1 .. Len(s) /\ i + 1 > 1 /\ (i + 1) - 1 = i
  BY <1>1
<1>6. \A i \in 1 .. Len(t) :
          /\ t[i] # "rollback"
          /\ t[i] \in {"reload", "start"} => s[i] = "read"
          /\ t[i] = "filter" => s[i] = "setsource"
          /\ i = Len(t) => t[i] \in {"reload", "start", "rollback"}
  <2> SUFFICES ASSUME NEW i \in 1 .. Len(t)
               PROVE  /\ t[i] # "rollback"
                      /\ t[i] \in {"reload", "start"} => s[i] = "read"
                      /\ t[i] = "filter" => s[i] = "setsource"
                      /\ i = Len(t) => t[i] \in {"reload", "start", "rollback"}
    OBVIOUS
  <2> QED
    BY <1>1, <1>5 DEF Course
<1>7. \A i \in 1 .. Len(t) : i > 1 => i - 1 \in 1 .. Len(t) /\ t[i - 1] = s[i]
  BY <1>1
<1>20. ASSUME NEW i \in 1 .. Len(t), t[i] = "start" PROVE t[1] = "start"
  <2>1. s[1] = "read"
    <3>1. s[i + 1] = "start" /\ i + 1 \in 1 .. Len(s)
      BY <1>5, <1>20
    <3>2. s[1] \in {"read", "start"}
      BY <3>1 DEF Course
    <3>3. Rank[s[1]] < Rank["start"]
      BY <1>4, <1>20
    <3> QED
      BY <3>2, <3>3 DEF Rank
  <2>2. CASE i > 1
    <3>1. Rank["read"] < Rank[t[1]] /\ Rank[t[1]] < Rank["start"] /\ t[1] \in Steps
      BY <1>1, <1>3, <1>4, <1>20, <2>1, <2>2 DEF Increasing
    <3> QED
      BY <3>1, RankIs DEF Rank
  <2> QED
    BY <1>1, <1>20, <2>2
<1>8. Course(t)
  <2>1. \A i \in 1 .. Len(t) :
          /\ t[i] = "rollback" => Len(t) = 1
          /\ t[i] \in {"reload", "start"} /\ i > 1 => t[i - 1] = "read"
          /\ t[i] = "filter" /\ i > 1 => t[i - 1] = "setsource"
          /\ t[i] = "start" => t[1] \in {"read", "start"}
          /\ i = Len(t) => t[i] \in {"reload", "start", "rollback"}
    BY <1>6, <1>7, <1>20
  <2> QED
    BY <1>1, <1>3, <2>1 DEF Course
<1>9. \A x : Has(t, x) => Has(s, x) /\ Rank[s[1]] < Rank[x]
  BY <1>4, <1>5 DEF Has
<1>10. \A x : Has(t, x) => x # s[1]
  <2>1. Rank[s[1]] \in 1 .. 6
    BY <1>1, RankIs
  <2> QED
    BY <1>9, <2>1
<1>11. ASSUME NEW x, Has(s, x), x # s[1] PROVE Has(t, x)
  <2>1. PICK i \in 1 .. Len(s) : s[i] = x
    BY <1>11 DEF Has
  <2>2. i - 1 \in 1 .. Len(t) /\ t[i - 1] = x
    BY <1>1, <1>11, <2>1
  <2> QED
    BY <2>2 DEF Has
<1>12. Len(t) > 0 =>
              /\ t[1] \notin {"setca", "rollback"}
              /\ t[1] \in {"reload", "start"} => s[1] = "read"
              /\ t[1] = "filter" => s[1] = "setsource"
  <2>1. Len(t) > 0 => 1 \in 1 .. Len(t) /\ Rank[s[1]] < Rank[t[1]] /\ s[1] \in Steps /\ t[1] \in Steps
    BY <1>1, <1>4
  <2> QED
    BY <1>6, <2>1, RankIs
<1>13. Len(t) = 0 => s[1] \in {"reload", "start", "rollback"}
  BY <1>1 DEF Course
<1>14. Len(t) > 0 => s[1] \notin {"reload", "start", "rollback"}
  <2>1. Len(t) > 0 => 1 \in 1 .. Len(t) /\ Rank[s[1]] < Rank[t[1]] /\ s[1] \in Steps /\ t[1] \in Steps
    BY <1>1, <1>4
  <2> QED
    BY <2>1, RankIs
<1>15. Has(s, s[1]) /\ (Has(s, "start") => s[1] \in {"read", "start"})
  BY <1>1 DEF Has, Course
<1> QED
  BY <1>1, <1>2, <1>8, <1>9, <1>10, <1>11, <1>12, <1>13, <1>14, <1>15 DEF t

\* Steps before the last two, of ranks in an interval.
Lead(s, lo, hi) ==
    /\ s \in Seq(Steps) /\ Increasing(s)
    /\ \A i \in 1 .. Len(s) : lo <= Rank[s[i]] /\ Rank[s[i]] <= hi
    /\ \A i \in 1 .. Len(s) :
          s[i] = "filter" => i > 1 /\ s[i - 1] = "setsource"

LEMMA ConcatIs ==
  ASSUME NEW s \in Seq(Steps), NEW t \in Seq(Steps)
  PROVE  /\ s \o t \in Seq(Steps) /\ Len(s \o t) = Len(s) + Len(t)
         /\ \A i \in 1 .. Len(s) + Len(t) : (s \o t)[i] = IF i <= Len(s) THEN s[i] ELSE t[i - Len(s)]
         /\ Len(s) \in Nat /\ Len(t) \in Nat
         /\ \A i \in 1 .. Len(s) : (s \o t)[i] = s[i]
         /\ \A i \in 1 .. Len(s) + Len(t) : i > Len(s) => (s \o t)[i] = t[i - Len(s)] /\ i - Len(s) \in 1 .. Len(t)
         /\ \A i \in 1 .. Len(t) : (s \o t)[i + Len(s)] = t[i] /\ i + Len(s) \in 1 .. Len(s) + Len(t)
<1>1. /\ s \o t \in Seq(Steps) /\ Len(s \o t) = Len(s) + Len(t)
      /\ \A i \in 1 .. Len(s) + Len(t) : (s \o t)[i] = IF i <= Len(s) THEN s[i] ELSE t[i - Len(s)]
      /\ Len(s) \in Nat /\ Len(t) \in Nat
  OBVIOUS
<1> QED
  BY <1>1

LEMMA HasConcat ==
  ASSUME NEW s \in Seq(Steps), NEW t \in Seq(Steps), NEW x
  PROVE  /\ Has(s \o t, x) <=> Has(s, x) \/ Has(t, x)
         /\ s # <<>> => s \o t # <<>> /\ Head(s \o t) = Head(s)
         /\ s = <<>> => s \o t = t
<1>0. s = <<>> => s \o t = t
  OBVIOUS
<1>1. s # <<>> => s \o t # <<>> /\ Head(s \o t) = Head(s)
  <2>1. s # <<>> => Len(s) > 0 /\ Head(s) = s[1] /\ Len(s) \in Nat
    OBVIOUS
  <2>2. Len(s \o t) > 0 => s \o t # <<>> /\ Head(s \o t) = (s \o t)[1]
    BY ConcatIs
  <2> QED
    BY <2>1, <2>2, ConcatIs
<1>2. ASSUME Has(s \o t, x) PROVE Has(s, x) \/ Has(t, x)
  <2>1. PICK i \in 1 .. Len(s) + Len(t) : (s \o t)[i] = x
    BY <1>2, ConcatIs DEF Has
  <2> QED
    BY <2>1, ConcatIs DEF Has
<1>3. ASSUME Has(s, x) PROVE Has(s \o t, x)
  <2>1. PICK i \in 1 .. Len(s) : s[i] = x
    BY <1>3 DEF Has
  <2>2. i \in 1 .. Len(s \o t) /\ (s \o t)[i] = x
    BY <2>1, ConcatIs
  <2> QED
    BY <2>2 DEF Has
<1>4. ASSUME Has(t, x) PROVE Has(s \o t, x)
  <2>1. PICK i \in 1 .. Len(t) : t[i] = x
    BY <1>4 DEF Has
  <2>2. i + Len(s) \in 1 .. Len(s \o t) /\ (s \o t)[i + Len(s)] = x
    BY <2>1, ConcatIs
  <2> QED
    BY <2>2 DEF Has
<1> QED
  BY <1>0, <1>1, <1>2, <1>3, <1>4

LEMMA IncreasingConcat ==
  ASSUME NEW s \in Seq(Steps), NEW t \in Seq(Steps), Increasing(s), Increasing(t),
         \A i \in 1 .. Len(s), j \in 1 .. Len(t) : Rank[s[i]] < Rank[t[j]]
  PROVE  Increasing(s \o t)
<1> DEFINE u == s \o t
<1>0. /\ Len(u) = Len(s) + Len(t) /\ Len(s) \in Nat /\ Len(t) \in Nat
      /\ \A i \in 1 .. Len(s) : u[i] = s[i]
      /\ \A i \in 1 .. Len(s) + Len(t) :
            i > Len(s) => u[i] = t[i - Len(s)] /\ i - Len(s) \in 1 .. Len(t)
  BY ConcatIs
<1> HIDE DEF u
<1>1. ASSUME NEW i \in 1 .. Len(s) + Len(t), NEW j \in 1 .. Len(s) + Len(t), i < j
      PROVE  Rank[u[i]] < Rank[u[j]]
  <2>1. CASE j <= Len(s)
    <3>1. i \in 1 .. Len(s) /\ j \in 1 .. Len(s)
      BY <1>0, <1>1, <2>1
    <3> QED
      BY <1>0, <1>1, <3>1 DEF Increasing
  <2>2. CASE i <= Len(s) /\ j > Len(s)
    <3>1. i \in 1 .. Len(s) /\ u[j] = t[j - Len(s)] /\ j - Len(s) \in 1 .. Len(t)
      BY <1>0, <1>1, <2>2
    <3> QED
      BY <1>0, <3>1
  <2>3. CASE i > Len(s)
    <3>1. /\ i - Len(s) < j - Len(s) /\ i - Len(s) \in 1 .. Len(t) /\ j - Len(s) \in 1 .. Len(t)
          /\ u[i] = t[i - Len(s)] /\ u[j] = t[j - Len(s)]
      BY <1>0, <1>1, <2>3
    <3> QED
      BY <3>1 DEF Increasing
  <2> QED
    BY <1>0, <1>1, <2>1, <2>2, <2>3
<1>2. Increasing(u)
  BY <1>0, <1>1 DEF Increasing
<1> QED
  BY <1>2 DEF u

LEMMA LeadConcat ==
  ASSUME NEW a \in Nat, NEW b \in Nat, NEW c \in Nat, NEW d \in Nat, b < c, a <= c, b <= d,
         NEW s, NEW t, Lead(s, a, b), Lead(t, c, d)
  PROVE  Lead(s \o t, a, d)
<1> DEFINE u == s \o t
<1>0. s \in Seq(Steps) /\ t \in Seq(Steps)
  BY DEF Lead
<1>1. /\ u \in Seq(Steps)
      /\ Len(u) = Len(s) + Len(t) /\ Len(s) \in Nat /\ Len(t) \in Nat
      /\ \A i \in 1 .. Len(s) : u[i] = s[i]
      /\ \A i \in 1 .. Len(s) + Len(t) :
            i > Len(s) => u[i] = t[i - Len(s)] /\ i - Len(s) \in 1 .. Len(t)
      /\ \A i \in 1 .. Len(t) : u[i + Len(s)] = t[i]
  BY <1>0, ConcatIs
<1>2. \A i \in 1 .. Len(s) : Rank[s[i]] \in 1 .. 6 /\ a <= Rank[s[i]] /\ Rank[s[i]] <= b
  BY <1>0, <1>1, RankIs DEF Lead
<1>3. \A i \in 1 .. Len(t) : Rank[t[i]] \in 1 .. 6 /\ c <= Rank[t[i]] /\ Rank[t[i]] <= d
  BY <1>0, <1>1, RankIs DEF Lead
<1>4. Increasing(u)
  <2>1. ASSUME NEW i \in 1 .. Len(s), NEW j \in 1 .. Len(t) PROVE Rank[s[i]] < Rank[t[j]]
    <3>1. Rank[s[i]] \in Int /\ Rank[s[i]] <= b /\ Rank[t[j]] \in Int /\ c <= Rank[t[j]]
      BY <1>2, <1>3
    <3> QED
      BY <3>1
  <2>2. Increasing(s) /\ Increasing(t)
    BY DEF Lead
  <2> QED
    BY <1>0, <2>1, <2>2, IncreasingConcat
<1> HIDE DEF u
<1>5. ASSUME NEW i \in 1 .. Len(s) + Len(t) PROVE a <= Rank[u[i]] /\ Rank[u[i]] <= d
  <2>1. CASE i <= Len(s)
    <3>1. i \in 1 .. Len(s) /\ u[i] = s[i]
      BY <1>1, <2>1
    <3>2. Rank[s[i]] \in Int /\ a <= Rank[s[i]] /\ Rank[s[i]] <= b
      BY <1>2, <3>1
    <3> QED
      BY <3>1, <3>2
  <2>2. CASE i > Len(s)
    <3>1. i - Len(s) \in 1 .. Len(t) /\ u[i] = t[i - Len(s)]
      BY <1>1, <2>2
    <3> DEFINE k == i - Len(s)
    <3>2. \A j \in 1 .. Len(t) : Rank[t[j]] \in Int /\ c <= Rank[t[j]] /\ Rank[t[j]] <= d
      BY <1>3
    <3>3. k \in 1 .. Len(t) /\ u[i] = t[k]
      BY <3>1
    <3> HIDE DEF k
    <3>4. Rank[t[k]] \in Int /\ c <= Rank[t[k]] /\ Rank[t[k]] <= d
      BY <3>2, <3>3
    <3> QED
      BY <1>3, <3>3, <3>4
  <2> QED
    BY <1>1, <2>1, <2>2
<1>6. ASSUME NEW i \in 1 .. Len(s) + Len(t), u[i] = "filter"
      PROVE  i > 1 /\ u[i - 1] = "setsource"
  <2>1. CASE i <= Len(s)
    <3>1. i \in 1 .. Len(s)
      BY <1>1, <2>1
    <3>2. i > 1 /\ s[i - 1] = "setsource" /\ i - 1 \in 1 .. Len(s)
      BY <1>1, <1>6, <3>1 DEF Lead
    <3> QED
      BY <1>1, <3>2
  <2>2. CASE i > Len(s)
    <3> DEFINE k == i - Len(s)
    <3>1. k \in 1 .. Len(t) /\ t[k] = "filter"
      BY <1>1, <1>6, <2>2
    <3>2. k > 1 /\ t[k - 1] = "setsource"
      BY <3>1 DEF Lead
    <3>3. k - 1 \in 1 .. Len(t) /\ (k - 1) + Len(s) = i - 1 /\ i > 1
      BY <1>1, <3>1, <3>2
    <3>4. u[(k - 1) + Len(s)] = t[k - 1]
      BY <1>1, <3>3
    <3> QED
      BY <3>2, <3>3, <3>4
  <2> QED
    BY <1>1, <2>1, <2>2
<1>7. Lead(u, a, d)
  BY <1>1, <1>4, <1>5, <1>6 DEF Lead
<1> QED
  BY <1>7 DEF u

LEMMA PairIs ==
  ASSUME NEW a \in Steps, NEW b \in Steps
  PROVE  /\ <<a, b>> \in Seq(Steps) /\ Len(<<a, b>>) = 2 /\ <<a, b>>[1] = a /\ <<a, b>>[2] = b
         /\ <<a, b>> # <<>> /\ Head(<<a, b>>) = a
         /\ \A x : Has(<<a, b>>, x) <=> x \in {a, b}
<1>1. /\ <<a, b>> \in Seq(Steps) /\ Len(<<a, b>>) = 2 /\ <<a, b>>[1] = a /\ <<a, b>>[2] = b
      /\ <<a, b>> # <<>> /\ Head(<<a, b>>) = a
  OBVIOUS
<1> QED
  BY <1>1 DEF Has

LEMMA OneIs ==
  ASSUME NEW a \in Steps
  PROVE  /\ <<a>> \in Seq(Steps) /\ Len(<<a>>) = 1 /\ <<a>>[1] = a
         /\ <<a>> # <<>> /\ Head(<<a>>) = a
         /\ \A x : Has(<<a>>, x) <=> x = a
<1>1. /\ <<a>> \in Seq(Steps) /\ Len(<<a>>) = 1 /\ <<a>>[1] = a
      /\ <<a>> # <<>> /\ Head(<<a>>) = a
  OBVIOUS
<1> QED
  BY <1>1 DEF Has

LEMMA EmptyIs == Course(<<>>) /\ Lead(<<>>, 1, 1) /\ Lead(<<>>, 2, 3) /\ Lead(<<>>, 4, 4) /\ \A x : ~Has(<<>>, x)
BY DEF Course, Lead, Increasing, Has

\* The plans of requests: steps before the last two, and the last two.
LEMMA CourseOf ==
  ASSUME NEW s, Lead(s, 1, 4), NEW last \in {"reload", "start"}, s = <<>> \/ last = "reload"
  PROVE  /\ Course(s \o <<"read", last>>)
<1> DEFINE t == <<"read", last>>
<1>1. /\ s \in Seq(Steps) /\ t \in Seq(Steps) /\ Len(t) = 2 /\ t[1] = "read" /\ t[2] = last
      /\ last \in Steps /\ last # "rollback" /\ last # "filter"
  BY PairIs DEF Lead, Steps
<1> HIDE DEF t
<1>2. \A i \in 1 .. Len(s) : s[i] \in Steps /\ Rank[s[i]] \in 1 .. 4
  <2>1. \A i \in 1 .. Len(s) : s[i] \in Steps /\ 1 <= Rank[s[i]] /\ Rank[s[i]] <= 4
    BY <1>1 DEF Lead
  <2> QED
    BY <2>1, RankIs
<1>3. \A i \in 1 .. Len(s) : s[i] \notin {"reload", "start", "rollback", "read"}
  BY <1>2, RankIs
<1>4. \A j \in 1 .. Len(t) : Rank[t[j]] >= 5 /\ Rank[t[j]] \in Nat
  BY <1>1, RankIs DEF Steps
<1>5. Increasing(t)
  <2>1. Rank["read"] = 5 /\ Rank[last] = 6
    BY DEF Rank
  <2> QED
    BY <1>1, <2>1 DEF Increasing
<1>6. \A i \in 1 .. Len(s), j \in 1 .. Len(t) : Rank[s[i]] < Rank[t[j]]
  BY <1>2, <1>4
<1>7. Increasing(s \o t)
  BY <1>1, <1>5, <1>6, Lead(s, 1, 4), IncreasingConcat DEF Lead
<1>8. \A i \in 1 .. Len(s) + 2 :
          /\ i <= Len(s) => (s \o t)[i] = s[i] /\ i \in 1 .. Len(s)
          /\ i = Len(s) + 1 => (s \o t)[i] = "read"
          /\ i = Len(s) + 2 => (s \o t)[i] = last
          /\ i <= Len(s) \/ i = Len(s) + 1 \/ i = Len(s) + 2
  <2>0. s \in Seq(Steps) /\ t \in Seq(Steps) /\ Len(t) = 2 /\ Len(s) \in Nat
    BY <1>1
  <2>1. Len(s) \in Nat /\ \A i \in 1 .. Len(s) + 2 : (s \o t)[i] = IF i <= Len(s) THEN s[i] ELSE t[i - Len(s)]
    <3>1. \A i \in 1 .. Len(s) + Len(t) : (s \o t)[i] = IF i <= Len(s) THEN s[i] ELSE t[i - Len(s)]
      BY <2>0, ConcatIs
    <3> QED
      BY <2>0, <3>1
  <2>2. (Len(s) + 1) - Len(s) = 1 /\ (Len(s) + 2) - Len(s) = 2
    BY <2>1
  <2> DEFINE u == s \o t
  <2>a. \A i \in 1 .. Len(s) + 2 : u[i] = IF i <= Len(s) THEN s[i] ELSE t[i - Len(s)]
    BY <2>1
  <2> HIDE DEF u
  <2>3. \A i \in 1 .. Len(s) + 2 :
          /\ i <= Len(s) => u[i] = s[i] /\ i \in 1 .. Len(s)
          /\ i = Len(s) + 1 => u[i] = "read"
          /\ i = Len(s) + 2 => u[i] = last
          /\ i <= Len(s) \/ i = Len(s) + 1 \/ i = Len(s) + 2
    <3>1. ASSUME NEW i \in 1 .. Len(s) + 2
          PROVE  u[i] = IF i <= Len(s) THEN s[i] ELSE t[i - Len(s)]
      BY <2>a
    <3>2. ASSUME NEW i \in 1 .. Len(s) + 2
          PROVE  /\ i <= Len(s) => i \in 1 .. Len(s)
                 /\ i = Len(s) + 1 => ~(i <= Len(s)) /\ i - Len(s) = 1
                 /\ i = Len(s) + 2 => ~(i <= Len(s)) /\ i - Len(s) = 2
                 /\ i <= Len(s) \/ i = Len(s) + 1 \/ i = Len(s) + 2
      BY <2>1
    <3> QED
      BY <1>1, <3>1, <3>2
  <2> QED
    BY <2>3 DEF u
<1>9. Len(s \o t) = Len(s) + 2 /\ s \o t \in Seq(Steps) /\ Len(s) \in Nat
  <2>1. Len(s \o t) = Len(s) + Len(t) /\ s \o t \in Seq(Steps) /\ Len(s) \in Nat
    BY <1>1, ConcatIs
  <2> QED
    BY <1>1, <2>1
<1>10. ASSUME NEW i \in 1 .. Len(s) + 2
       PROVE  /\ (s \o t)[i] = "rollback" => FALSE
              /\ (s \o t)[i] \in {"reload", "start"} /\ i > 1 => (s \o t)[i - 1] = "read"
              /\ (s \o t)[i] = "filter" /\ i > 1 => (s \o t)[i - 1] = "setsource"
              /\ i = Len(s) + 2 => (s \o t)[i] \in {"reload", "start", "rollback"}
  <2>1. CASE i <= Len(s)
    <3>1. i \in 1 .. Len(s) /\ (s \o t)[i] = s[i]
      BY <1>8, <1>9, <2>1
    <3>2. s[i] = "filter" => i - 1 \in 1 .. Len(s) /\ s[i - 1] = "setsource" /\ i - 1 \in 1 .. Len(s) + 2 /\ i - 1 <= Len(s)
      BY <1>9, <3>1 DEF Lead
    <3> QED
      BY <1>3, <1>8, <1>9, <2>1, <3>1, <3>2
  <2>2. CASE i = Len(s) + 1
    BY <1>8, <1>9, <2>2
  <2>3. CASE i = Len(s) + 2
    <3>1. i - 1 = Len(s) + 1 /\ i - 1 \in 1 .. Len(s) + 2
      BY <1>9, <2>3
    <3> QED
      BY <1>1, <1>8, <1>9, <2>3, <3>1
  <2> QED
    BY <1>8, <2>1, <2>2, <2>3
<1>12. ASSUME NEW i \in 1 .. Len(s) + 2, (s \o t)[i] = "start"
       PROVE  (s \o t)[1] = "read"
  <2>1. s = <<>>
    <3>1. last = "start"
      BY <1>1, <1>3, <1>8, <1>12
    <3> QED
      BY <3>1
  <2>2. 1 = Len(s) + 1 /\ 1 \in 1 .. Len(s) + 2
    BY <2>1
  <2> DEFINE u == s \o t
  <2>3. \A j \in 1 .. Len(s) + 2 : j = Len(s) + 1 => u[j] = "read"
    BY <1>8
  <2> HIDE DEF u
  <2>4. u[1] = "read"
    BY <2>2, <2>3
  <2> QED
    BY <2>4 DEF u
<1>11. Course(s \o t)
  <2> DEFINE u == s \o t
  <2>1. u \in Seq(Steps) /\ Len(u) = Len(s) + 2 /\ Increasing(u)
    BY <1>7, <1>9
  <2>2. \A i \in 1 .. Len(s) + 2 :
          /\ u[i] = "rollback" => FALSE
          /\ u[i] \in {"reload", "start"} /\ i > 1 => u[i - 1] = "read"
          /\ u[i] = "filter" /\ i > 1 => u[i - 1] = "setsource"
          /\ u[i] = "start" => u[1] = "read"
          /\ i = Len(s) + 2 => u[i] \in {"reload", "start", "rollback"}
    BY <1>10, <1>12
  <2> HIDE DEF u
  <2>3. Course(u)
    BY <2>1, <2>2 DEF Course
  <2> QED
    BY <2>3 DEF u
<1> QED
  BY <1>11 DEF t

IsPlan(s, a, b, c, last) ==
    /\ Course(s) /\ s # <<>>
    /\ Head(s) \in {"setca", "setsource", "save", "read"}
    /\ Head(s) = "setca" <=> a # <<>>
    /\ Has(s, "setsource") <=> b # <<>>
    /\ Has(s, "save") <=> c # <<>>
    /\ Has(s, "start") <=> last = "start"

\* The steps of UpdateSettings, AddTunnel and DelTunnel, of Reload and of Start.
LEMMA LeadOf ==
  \A a \in {<<>>, <<"setca">>}, b \in {<<>>, <<"setsource", "filter">>},
     c \in {<<>>, <<"save">>}, last \in {"reload", "start"} :
        last = "reload" \/ (a = <<>> /\ b = <<>> /\ c = <<>>) =>
            IsPlan(a \o b \o c \o <<"read", last>>, a, b, c, last)
<1> TAKE a \in {<<>>, <<"setca">>}, b \in {<<>>, <<"setsource", "filter">>},
         c \in {<<>>, <<"save">>}, last \in {"reload", "start"}
<1> HAVE last = "reload" \/ (a = <<>> /\ b = <<>> /\ c = <<>>)
<1> DEFINE d == <<"read", last>>
           s == a \o b \o c \o d
<1>0. /\ "setca" \in Steps /\ "setsource" \in Steps /\ "filter" \in Steps /\ "save" \in Steps
      /\ "read" \in Steps /\ last \in Steps
      /\ Rank["setca"] = 1 /\ Rank["setsource"] = 2 /\ Rank["filter"] = 3 /\ Rank["save"] = 4
  BY DEF Steps, Rank
<1>1. Lead(a, 1, 1) /\ a \in Seq(Steps) /\ (\A x : Has(a, x) <=> x = "setca" /\ a # <<>>) /\ (a # <<>> => Head(a) = "setca")
  <2>1. Lead(<<"setca">>, 1, 1)
    BY <1>0, OneIs DEF Lead, Increasing
  <2>2. CASE a = <<>>
    BY <2>2, EmptyIs DEF Lead
  <2>3. CASE a = <<"setca">>
    BY <1>0, <2>1, <2>3, OneIs
  <2> QED
    BY <2>2, <2>3
<1>2. Lead(b, 2, 3) /\ b \in Seq(Steps) /\ (\A x : Has(b, x) <=> x \in {"setsource", "filter"} /\ b # <<>>) /\ (b # <<>> => Head(b) = "setsource")
  <2>1. Lead(<<"setsource", "filter">>, 2, 3)
    BY <1>0, PairIs DEF Lead, Increasing
  <2>2. CASE b = <<>>
    BY <2>2, EmptyIs DEF Lead
  <2>3. CASE b = <<"setsource", "filter">>
    BY <1>0, <2>1, <2>3, PairIs
  <2> QED
    BY <2>2, <2>3
<1>3. Lead(c, 4, 4) /\ c \in Seq(Steps) /\ (\A x : Has(c, x) <=> x = "save" /\ c # <<>>) /\ (c # <<>> => Head(c) = "save")
  <2>1. Lead(<<"save">>, 4, 4)
    BY <1>0, OneIs DEF Lead, Increasing
  <2>2. CASE c = <<>>
    BY <2>2, EmptyIs DEF Lead
  <2>3. CASE c = <<"save">>
    BY <1>0, <2>1, <2>3, OneIs
  <2> QED
    BY <2>2, <2>3
<1>4. d \in Seq(Steps) /\ (\A x : Has(d, x) <=> x \in {"read", last}) /\ d # <<>> /\ Head(d) = "read"
  BY <1>0, PairIs
<1> HIDE DEF d
<1>5. Lead(a \o b, 1, 3) /\ a \o b \in Seq(Steps)
  <2>1. Lead(a, 1, 1) /\ Lead(b, 2, 3)
    BY <1>1, <1>2
  <2>2. Lead(a \o b, 1, 3)
    BY ONLY <2>1, LeadConcat
  <2> QED
    BY <2>2 DEF Lead
<1>6. Lead(a \o b \o c, 1, 4) /\ a \o b \o c \in Seq(Steps)
  <2>1. Lead(a \o b, 1, 3) /\ Lead(c, 4, 4)
    BY <1>3, <1>5
  <2>2. Lead((a \o b) \o c, 1, 4)
    BY ONLY <2>1, LeadConcat
  <2> QED
    BY <2>2 DEF Lead
<1>8. \A x : Has(s, x) <=> Has(a, x) \/ Has(b, x) \/ Has(c, x) \/ Has(d, x)
  BY <1>1, <1>2, <1>3, <1>4, <1>5, <1>6, HasConcat
<1>9. /\ a # <<>> => a \o b # <<>> /\ Head(a \o b) = "setca"
      /\ a = <<>> => a \o b = b
  BY <1>1, <1>2, HasConcat
<1>10. /\ a \o b # <<>> => a \o b \o c # <<>> /\ Head(a \o b \o c) = Head(a \o b)
       /\ a \o b = <<>> => a \o b \o c = c
  BY <1>3, <1>5, HasConcat
<1>7. Course(s)
  <2>1. last = "reload" \/ a \o b \o c = <<>>
    BY <1>9, <1>10
  <2> QED
    BY <1>6, <2>1, CourseOf DEF d
<1>11. /\ a \o b \o c # <<>> => s # <<>> /\ Head(s) = Head(a \o b \o c)
       /\ a \o b \o c = <<>> => s = d
  BY <1>4, <1>6, HasConcat
<1> HIDE DEF s
<1>12. /\ Course(s) /\ s # <<>>
       /\ Head(s) \in {"setca", "setsource", "save", "read"}
       /\ Head(s) = "setca" <=> a # <<>>
       /\ Has(s, "setsource") <=> b # <<>>
       /\ Has(s, "save") <=> c # <<>>
       /\ Has(s, "start") <=> last = "start"
  <2>1. s # <<>> /\ Head(s) = IF a # <<>> THEN "setca" ELSE IF b # <<>> THEN "setsource" ELSE IF c # <<>> THEN "save" ELSE "read"
    BY <1>2, <1>3, <1>4, <1>9, <1>10, <1>11
  <2>2. /\ Has(s, "setsource") <=> b # <<>>
        /\ Has(s, "save") <=> c # <<>>
        /\ Has(s, "start") <=> last = "start"
    <3>1. /\ "setsource" \notin {"setca", "save", "read", last}
          /\ "save" \notin {"setca", "setsource", "filter", "read", last}
          /\ "start" \notin {"setca", "setsource", "filter", "save", "read"}
      OBVIOUS
    <3>2. /\ Has(s, "setsource") <=> Has(b, "setsource")
          /\ Has(s, "save") <=> Has(c, "save")
          /\ Has(s, "start") <=> Has(d, "start")
      BY <1>1, <1>2, <1>3, <1>4, <1>8, <3>1
    <3> QED
      BY <1>2, <1>3, <1>4, <3>2
  <2> QED
    BY <1>7, <2>1, <2>2
<1> QED
  BY <1>12 DEF s, d, IsPlan

-----------------------------------------------------------------------------
LEMMA IdleIs ==
  /\ \A q \in Ops : todo[q] = <<>> => \A x : ~At(q, x) /\ ~Pending(q, x)
  /\ \A q \in Ops : todo'[q] = <<>> => \A x : ~At(q, x)' /\ ~Pending(q, x)'
BY EmptyIs DEF At, Pending

LEMMA DoneFacts ==
  ASSUME Courses, NEW o \in Ops, NEW step, Done(o, step)
  PROVE  /\ Courses' /\ todo[o] # <<>> /\ step \in Steps
         /\ \A q \in Ops \ {o} : todo'[q] = todo[q]
         /\ \A x : Pending(o, x)' <=> Pending(o, x) /\ x # step
         /\ \A x : Pending(o, x)' => Rank[step] < Rank[x]
         /\ \A x : At(o, x)' => /\ x \notin {"setca", "rollback"}
                                /\ x \in {"reload", "start"} => step = "read"
                                /\ x = "filter" => step = "setsource"
         /\ todo'[o] = <<>> <=> step \in {"reload", "start", "rollback"}
         /\ Pending(o, step) /\ (Pending(o, "start") => step \in {"read", "start"})
<1>1. todo[o] # <<>> /\ Head(todo[o]) = step /\ todo' = [todo EXCEPT ![o] = Tail(todo[o])]
  BY DEF Done, At
<1>2. todo'[o] = Tail(todo[o]) /\ (\A q \in Ops \ {o} : todo'[q] = todo[q]) /\ Course(todo[o])
  BY <1>1 DEF Courses
<1>3. Courses'
  BY <1>1, <1>2, CourseTail DEF Courses
<1> QED
  BY <1>1, <1>2, <1>3, CourseTail DEF Pending, At

LEMMA BeginsFacts ==
  ASSUME Courses, NEW o \in Ops, NEW steps, Begins(o, steps), Course(steps)
  PROVE  /\ Courses' /\ todo[o] = <<>> /\ todo'[o] = steps
         /\ \A q \in Ops \ {o} : todo'[q] = todo[q]
<1>1. todo[o] = <<>> /\ todo' = [todo EXCEPT ![o] = steps]
  BY DEF Begins
<1> QED
  BY <1>1 DEF Courses

\* Memory and Effective stay with the configuration and the flags.
LEMMA MemoryKeeps ==
  /\ UNCHANGED cfg => Memory' = Memory
  /\ UNCHANGED <<cfg, flags>> => Effective' = Effective
BY DEF Memory, Effective, Value

LEMMA EffectiveIs ==
  /\ Effective = [server |-> IF flags.server = NoServer THEN cfg.server ELSE flags.server,
                  ca |-> cfg.ca, dir |-> cfg.dir, tunnels |-> cfg.tunnels]
  /\ Memory.dir = cfg.dir /\ Memory = Value(Memory) /\ Effective = Value(Effective)
BY DEF Effective, Memory, Value

-----------------------------------------------------------------------------
\* The shapes of configurations.
LEMMA InArrayIs ==
  ASSUME NEW d, d = Value(d), NEW a
  PROVE  /\ DOMAIN InArray(d, a) = Fields /\ Value(InArray(d, a)) = d
         /\ InArray(d, a).server = d.server /\ InArray(d, a).ca = d.ca
         /\ InArray(d, a).dir = d.dir /\ InArray(d, a).tunnels = d.tunnels
<1>1. DOMAIN d = {"server", "ca", "dir", "tunnels"}
  BY DEF Value
<1>2. /\ DOMAIN InArray(d, a) = Fields
      /\ \A x \in {"server", "ca", "dir", "tunnels"} : InArray(d, a)[x] = d[x]
  BY <1>1 DEF InArray, Fields
<1> QED
  BY <1>2 DEF Value

LEMMA FirstIs == First = Value(First) /\ DOMAIN InArray(First, 0) = Fields
<1>1. First = Value(First)
  BY DEF First, Value
<1> QED
  BY <1>1, InArrayIs

LEMMA ShapesInit == Init => Shapes
<1> SUFFICES ASSUME Init PROVE Shapes
  OBVIOUS
<1>1. disk = Value(disk)
  BY ManagerAssumption DEF Init, Value
<1>2. cfg = InArray(disk, 0) /\ old = NoOld /\ snap = NoCopy
  BY DEF Init
<1> QED
  BY <1>1, <1>2, InArrayIs, FirstIs DEF Shapes, NoOld, NoCopy

LEMMA ShapesNext == Shapes /\ [Next]_vars => Shapes'
<1> SUFFICES ASSUME Shapes, [Next]_vars PROVE Shapes'
  OBVIOUS
<1>0. Memory = Value(Memory) /\ Effective = Value(Effective) /\ Memory' = Value(Memory')
  BY DEF Memory, Effective, Value
<1>1. ASSUME NEW o \in Ops, NEW steps, Changes(o, steps), DOMAIN cfg' = Fields,
             old' = [q \in Ops |-> old'[q]] /\ \A q \in Ops : DOMAIN old'[q] = Fields
      PROVE  Shapes'
  BY <1>0, <1>1 DEF Changes, Shapes
<1>2. ASSUME NEW elems, WriteArray(elems)
      PROVE  old' = [q \in Ops |-> old'[q]] /\ \A q \in Ops : DOMAIN old'[q] = Fields
  BY <1>2 DEF WriteArray, Shapes
<1>add. ASSUME NEW o \in Ops, NEW t \in Tunnels, AddTunnel(o, t) PROVE Shapes'
  <2>1. DOMAIN cfg' = Fields
    BY <1>add DEF AddTunnel, Upsert, Shapes
  <2>2. (\E elems : WriteArray(elems)) \/ UNCHANGED old
    BY <1>add DEF AddTunnel, Upsert
  <2>3. old' = [q \in Ops |-> old'[q]] /\ \A q \in Ops : DOMAIN old'[q] = Fields
    BY <1>2, <2>2 DEF Shapes
  <2> QED
    BY <1>1, <1>add, <2>1, <2>3 DEF AddTunnel
<1>del. ASSUME NEW o \in Ops, NEW id \in Ids, DelTunnel(o, id) PROVE Shapes'
  <2>1. DOMAIN cfg' = Fields
    BY <1>del DEF DelTunnel, Cut, Shapes
  <2>2. \E elems : WriteArray(elems)
    BY <1>del DEF DelTunnel, Cut
  <2>3. old' = [q \in Ops |-> old'[q]] /\ \A q \in Ops : DOMAIN old'[q] = Fields
    BY <1>2, <2>2
  <2> QED
    BY <1>1, <1>del, <2>1, <2>3 DEF DelTunnel
<1>set. ASSUME NEW o \in Ops, NEW p \in Patches, UpdateSettings(o, p) PROVE Shapes'
  <2>1. DOMAIN cfg' = Fields
    BY <1>set DEF UpdateSettings, Shapes
  <2>2. old' = [old EXCEPT ![o] = cfg] \/ old' = old
    BY <1>set DEF UpdateSettings
  <2>3. old' = [q \in Ops |-> old'[q]] /\ \A q \in Ops : DOMAIN old'[q] = Fields
    BY <2>2 DEF Shapes
  <2> QED
    BY <1>1, <1>set, <2>1, <2>3 DEF UpdateSettings
<1>3. ASSUME NEW o \in Ops, SetServerCA(o) PROVE Shapes'
  <2>1. UNCHANGED <<cfg, disk, snap>> /\ (old' = [old EXCEPT ![o] = InArray(First, 0)] \/ old' = old)
    BY <1>3 DEF SetServerCA
  <2> QED
    BY <2>1, FirstIs DEF Shapes, Value
<1>4. ASSUME NEW o \in Ops, SetSource(o) \/ FilterSource(o) \/ Reload(o) \/ Start(o) PROVE Shapes'
  BY <1>4 DEF SetSource, FilterSource, Reload, Start, Shapes, Value
<1>5. ASSUME NEW o \in Ops, Rollback(o) \/ RelayReload(o) \/ RelayStart(o) PROVE Shapes'
  <2>1. /\ snap' = [snap EXCEPT ![o] = First] /\ disk' = disk
        /\ old' = [old EXCEPT ![o] = InArray(First, 0)]
        /\ cfg' \in {cfg, old[o], [old[o] EXCEPT !.arr = 0]}
    BY <1>5 DEF Rollback, RelayReload, RelayStart, Ends
  <2>2. DOMAIN cfg' = Fields
    BY <2>1 DEF Shapes
  <2> QED
    BY <2>1, <2>2, FirstIs DEF Shapes, Value
<1>6. ASSUME NEW o \in Ops, Save(o) PROVE Shapes'
  <2>1. /\ snap' = [snap EXCEPT ![o] = First] /\ (disk' = disk \/ disk' = snap[o])
        /\ UNCHANGED <<cfg, old>>
    BY <1>6 DEF Save
  <2>2. disk' = Value(disk')
    BY <2>1 DEF Shapes
  <2> QED
    BY <2>1, <2>2, FirstIs DEF Shapes
<1>7. ASSUME NEW o \in Ops, ReadConfig(o) PROVE Shapes'
  BY <1>0, <1>7 DEF ReadConfig, Shapes, Value
<1>8. CASE Restart
  <2>1. disk' = Value(disk')
    BY <1>8 DEF Restart, Shapes, Value
  <2>2. cfg' = InArray(disk', 0) /\ old' = NoOld /\ snap' = NoCopy
    BY <1>8 DEF Restart
  <2> QED
    BY <2>1, <2>2, InArrayIs, FirstIs DEF Shapes, NoOld, NoCopy
<1>9. CASE Stop \/ Fetch \/ UNCHANGED vars
  BY <1>9 DEF Stop, Fetch, vars, local, Shapes, Value
<1> QED
  BY <1>add, <1>del, <1>set, <1>3, <1>4, <1>5, <1>6, <1>7, <1>8, <1>9 DEF Next

-----------------------------------------------------------------------------
LEMMA AInvInit == Init => AInv
<1> SUFFICES ASSUME Init PROVE AInv
  OBVIOUS
<1>1. Courses
  BY EmptyIs DEF Init, Courses
<1>2. Shapes
  BY ShapesInit
<1>3. (\A o \in Ops : todo[o] = <<>>) /\ \A o \in Ops : \A x : ~At(o, x) /\ ~Pending(o, x)
  BY IdleIs DEF Init
<1>4. Solitude
  BY <1>3 DEF Init, Solitude
<1>5. /\ disk = Value(disk) /\ cfg = InArray(disk, 0) /\ fetches = {}
      /\ addr = Effective.server /\ ca = disk.ca /\ given = disk.tunnels
      /\ source = Filtered(NewSource(disk.dir), disk.ca)
  BY <1>2 DEF Init, Shapes
<1>6. Memory = disk /\ cfg.server = disk.server /\ cfg.ca = disk.ca /\ cfg.dir = disk.dir /\ cfg.tunnels = disk.tunnels
  BY <1>5, InArrayIs DEF Memory
<1>7. source.dir = disk.dir
  BY <1>5, NewIs, FilteredIs
<1>8. source.dir = SystemStore /\ ca # NoCA => source.filter = ca
  BY <1>5, NewIs, FilteredIs
<1>9. FileSettled
  BY <1>3, <1>6 DEF FileSettled, Undo
<1>10. SourceSettled
  BY <1>3, <1>6, <1>7, EffectiveIs DEF SourceSettled, Undo
<1>11. RelaySettled
  BY <1>3, <1>5, <1>6, EffectiveIs DEF RelaySettled, RelayHas, Undo
<1>12. FilterSettled
  BY <1>5, <1>8 DEF FilterSettled, CurrentFilters
<1> QED
  BY <1>1, <1>2, <1>4, <1>5, <1>9, <1>10, <1>11, <1>12 DEF AInv, Harmony

\* A step of a request, or the beginning of one, while nobody else is under way.
LEMMA OnlyIs ==
  ASSUME NEW o \in Ops, IdleOps(o), \A q \in Ops \ {o} : todo'[q] = todo[q]
  PROVE  /\ IdleOps(o)'
         /\ \A q \in Ops \ {o} : \A x : ~At(q, x) /\ ~Pending(q, x) /\ ~At(q, x)' /\ ~Pending(q, x)'
BY IdleIs DEF IdleOps

-----------------------------------------------------------------------------
\* A request that begins, in a course that has nothing to hand over yet.
LEMMA SolitudeBegins ==
  ASSUME Courses, Solitude, NEW o \in Ops, NEW steps, Begins(o, steps), Course(steps),
         Head(steps) \in {"setca", "setsource", "save", "read"}
  PROVE  Solitude' /\ (settled' => settled /\ IdleOps(o))
<1>1. todo[o] = <<>> /\ todo'[o] = steps /\ \A q \in Ops \ {o} : todo'[q] = todo[q]
  BY BeginsFacts
<1>2. alone' = [q \in Ops |-> q = o /\ IdleOps(o)] /\ settled' = (settled /\ IdleOps(o))
  BY DEF Begins
<1>3. IdleOps(o) => IdleOps(o)'
  BY <1>1 DEF IdleOps
<1>4. ~At(o, "reload")' /\ ~At(o, "start")'
  BY <1>1 DEF At
<1>5. \A q \in Ops : alone'[q] => q = o /\ IdleOps(o)
  BY <1>2
<1>6. ASSUME settled', NEW q \in Ops, todo'[q] # <<>> PROVE alone'[q]
  BY <1>1, <1>2, <1>6 DEF IdleOps
<1> QED
  BY <1>2, <1>3, <1>4, <1>5, <1>6 DEF Solitude

\* A step that is not the last one.
LEMMA SolitudeDone ==
  ASSUME Courses, Solitude, NEW o \in Ops, NEW step, Done(o, step),
         UNCHANGED <<cfg, flags, alone>>, settled' => settled,
         step = "read" => snap'[o] = Effective
  PROVE  Solitude'
<1>1. /\ todo[o] # <<>> /\ \A q \in Ops \ {o} : todo'[q] = todo[q]
      /\ At(o, "reload")' \/ At(o, "start")' => step = "read"
  BY DoneFacts
<1>2. \A q \in Ops : alone[q] => q = o /\ IdleOps(o)
  BY <1>1 DEF Solitude, IdleOps
<1>3. IdleOps(o) => IdleOps(o)'
  BY <1>1 DEF IdleOps
<1>4. \A q \in Ops : alone'[q] =>
          IdleOps(q)' /\ (At(q, "reload")' \/ At(q, "start")' => snap'[q] = Effective')
  BY <1>1, <1>2, <1>3, MemoryKeeps
<1>5. ASSUME settled', NEW q \in Ops, todo'[q] # <<>> PROVE alone'[q]
  BY <1>1, <1>5 DEF Solitude
<1> QED
  BY <1>4, <1>5 DEF Solitude

\* The last step of a request.
LEMMA SolitudeEnds ==
  ASSUME Courses, Solitude, NEW o \in Ops, NEW step, Ends(o, step),
         step \in {"reload", "start", "rollback"}, settled' => settled \/ alone[o]
  PROVE  /\ Solitude' /\ (settled' => \A q \in Ops : todo'[q] = <<>>)
         /\ (settled' => IdleOps(o) /\ alone[o])
<1>1. /\ todo[o] # <<>> /\ todo'[o] = <<>> /\ \A q \in Ops \ {o} : todo'[q] = todo[q]
  BY DoneFacts DEF Ends
<1>2. \A q \in Ops : alone[q] => q = o /\ IdleOps(o)
  BY <1>1 DEF Solitude, IdleOps
<1>3. alone' = [alone EXCEPT ![o] = FALSE]
  BY DEF Ends
<1>4. \A q \in Ops : ~alone'[q]
  BY <1>2, <1>3 DEF Solitude
<1>5. settled' => IdleOps(o) /\ alone[o]
  BY <1>1, <1>2 DEF Solitude
<1>6. settled' => \A q \in Ops : todo'[q] = <<>>
  BY <1>1, <1>5 DEF IdleOps
<1> QED
  BY <1>3, <1>4, <1>5, <1>6 DEF Solitude

-----------------------------------------------------------------------------
\* A request changes the configuration and is going to bring it everywhere.
LEMMA HarmonyChanges ==
  ASSUME AInv, NEW o \in Ops, NEW steps, Begins(o, steps), Course(steps), steps # <<>>,
         Head(steps) \in {"setca", "setsource", "save", "read"},
         snap' = [snap EXCEPT ![o] = Memory'],
         UNCHANGED <<sourceVars, disk, flags, started, given>>,
         ~flags.noPersist => Has(steps, "save"), ~Has(steps, "start"),
         Head(steps) = "setca" => old'[o] = cfg,
         Memory'.dir = cfg.dir \/ Has(steps, "setsource")
  PROVE  Harmony'
<1> SUFFICES ASSUME settled' PROVE FileSettled' /\ SourceSettled' /\ RelaySettled' /\ FilterSettled'
  BY DEF Harmony
<1>1. settled /\ IdleOps(o)
  BY SolitudeBegins DEF AInv
<1>2. /\ todo[o] = <<>> /\ todo'[o] = steps /\ \A q \in Ops \ {o} : todo'[q] = todo[q]
  BY BeginsFacts DEF AInv
<1>3. /\ \A q \in Ops : \A x : ~At(q, x) /\ ~Pending(q, x)
      /\ \A q \in Ops \ {o} : \A x : ~At(q, x)' /\ ~Pending(q, x)'
      /\ \A q \in Ops : todo[q] = <<>>
  BY <1>1, <1>2, OnlyIs, IdleIs DEF IdleOps
<1>4. /\ \A x : At(o, x)' <=> x = Head(steps)
      /\ \A x : Pending(o, x)' <=> Has(steps, x)
  BY <1>2 DEF At, Pending
<1>5. /\ flags.noPersist \/ disk = Memory
      /\ source.dir = cfg.dir
      /\ started => RelayHas(cfg)
  BY <1>1, <1>3, EffectiveIs DEF AInv, Harmony, FileSettled, SourceSettled, RelaySettled
<1>6. \A q \in Ops : Undo(q)' => q = o /\ old'[o] = cfg
  BY <1>3, <1>4 DEF Undo
<1>7. FileSettled'
  <2>1. snap'[o] = Memory'
    BY DEF AInv, Shapes
  <2>2. \A q \in Ops : Pending(q, "save")' \/ Pending(q, "setsource")' => snap'[q] = Memory'
    BY <1>3, <2>1
  <2>3. flags'.noPersist \/ Pending(o, "save")'
    BY <1>4
  <2>4. \A q \in Ops : Undo(q)' => flags'.noPersist \/ disk' = Value(old'[q])
    BY <1>5, <1>6 DEF Memory
  <2> QED
    BY <2>2, <2>3, <2>4 DEF FileSettled
<1>8. SourceSettled'
  <2>1. source' = source /\ ca' = ca
    BY DEF sourceVars
  <2>2. source'.dir = Memory'.dir \/ Pending(o, "setsource")'
    BY <1>4, <1>5, <2>1
  <2>3. \A q \in Ops : ~At(q, "filter")'
    BY <1>3, <1>4
  <2>4. \A q \in Ops : Undo(q)' => source'.dir = old'[q].dir
    BY <1>5, <1>6, <2>1
  <2> QED
    BY <2>2, <2>3, <2>4 DEF SourceSettled
<1>9. RelaySettled'
  <2>1. addr' = addr /\ ca' = ca
    BY DEF sourceVars
  <2>2. ~(todo'[o] = <<>> \/ Pending(o, "start")')
    BY <1>2, <1>4
  <2>3. ASSUME started', NEW q \in Ops, Undo(q)' PROVE RelayHas(old[q])'
    BY <1>5, <1>6, <2>1, <2>3 DEF RelayHas
  <2> QED
    BY <2>2, <2>3 DEF RelaySettled
<1>10. FilterSettled'
  BY <1>1, <1>3 DEF AInv, Harmony, FilterSettled, CurrentFilters, sourceVars
<1> QED
  BY <1>7, <1>8, <1>9, <1>10

\* POST /api/reload and /api/start.
LEMMA HarmonyAsks ==
  ASSUME AInv, NEW o \in Ops, Reload(o) \/ Start(o) PROVE Solitude' /\ Harmony' /\ Courses'
<1>0. PICK last \in {"reload", "start"} : Begins(o, <<"read", last>>)
  BY DEF Reload, Start
<1> DEFINE steps == <<"read", last>>
<1>1. /\ Course(steps) /\ steps # <<>> /\ Head(steps) = "read"
      /\ ~Has(steps, "save") /\ ~Has(steps, "setsource")
  <2>1. /\ steps = <<>> \o <<>> \o <<>> \o <<"read", last>>
    OBVIOUS
  <2>2. last \in Steps /\ "read" \in Steps
    BY DEF Steps
  <2>3. Head(steps) = "read" /\ \A x : Has(steps, x) <=> x \in {"read", last}
    BY <2>2, PairIs
  <2> QED
    BY <2>1, <2>3, LeadOf DEF IsPlan
<1> HIDE DEF steps
<1>2. Begins(o, steps) /\ UNCHANGED <<sourceVars, cfg, disk, flags, started, given, old, snap, subject>>
  BY <1>0 DEF Reload, Start, steps
<1>3. Solitude' /\ (settled' => settled /\ IdleOps(o))
  BY <1>1, <1>2, SolitudeBegins DEF AInv
<1>4. /\ Courses' /\ todo[o] = <<>> /\ todo'[o] = steps /\ \A q \in Ops \ {o} : todo'[q] = todo[q]
  BY <1>1, <1>2, BeginsFacts DEF AInv
<1>5. ASSUME settled' PROVE FileSettled' /\ SourceSettled' /\ RelaySettled' /\ FilterSettled'
  <2>1. settled /\ \A q \in Ops : todo[q] = <<>> /\ \A x : ~At(q, x) /\ ~Pending(q, x)
    BY <1>3, <1>4, <1>5, IdleIs DEF IdleOps
  <2>2. \A q \in Ops : \A x \in {"setca", "rollback", "filter"} : ~At(q, x)'
    <3>1. \A q \in Ops \ {o} : \A x : ~At(q, x)'
      BY <1>4, <2>1, IdleIs
    <3>2. \A x : At(o, x)' => x = "read"
      BY <1>1, <1>4 DEF At
    <3> QED
      BY <3>1, <3>2
  <2>3. \A q \in Ops : ~Pending(q, "save")' /\ ~Pending(q, "setsource")'
    BY <1>1, <1>4, <2>1 DEF Pending
  <2>4. Memory' = Memory
    BY <1>2, MemoryKeeps
  <2>5. FileSettled'
    BY <1>2, <2>1, <2>2, <2>3, <2>4 DEF AInv, Harmony, FileSettled, Undo
  <2>6. SourceSettled'
    BY <1>2, <2>1, <2>2, <2>4 DEF AInv, Harmony, SourceSettled, Undo, sourceVars
  <2>7. RelaySettled'
    BY <1>2, <2>1, <2>2 DEF AInv, Harmony, RelaySettled, RelayHas, Undo, sourceVars
  <2>8. FilterSettled'
    BY <1>2, <2>1 DEF AInv, Harmony, FilterSettled, CurrentFilters, sourceVars
  <2> QED
    BY <2>5, <2>6, <2>7, <2>8
<1> QED
  BY <1>3, <1>4, <1>5 DEF Harmony

-----------------------------------------------------------------------------
\* The steps of a request under way.  What is said of every request is said of
\* this one, as nobody else is under way.
LEMMA SettledDone ==
  ASSUME Courses, Solitude, settled, NEW o \in Ops, NEW step, Done(o, step)
  PROVE  /\ \A q \in Ops \ {o} : \A x : ~At(q, x) /\ ~Pending(q, x) /\ ~At(q, x)' /\ ~Pending(q, x)'
         /\ \A x : At(o, x) => x = step
         /\ \A q \in Ops : ~Undo(q)'
         /\ todo'[o] = <<>> \/ Pending(o, "start")' => step \in {"reload", "start", "rollback", "read"}
<1>1. /\ todo[o] # <<>> /\ step \in Steps
      /\ \A q \in Ops \ {o} : todo'[q] = todo[q]
      /\ \A x : At(o, x)' => x \notin {"setca", "rollback"}
      /\ todo'[o] = <<>> => step \in {"reload", "start", "rollback"}
      /\ Pending(o, "start")' => step \in {"read", "start"}
  BY DoneFacts
<1>2. IdleOps(o)
  BY <1>1 DEF Solitude
<1>3. \A q \in Ops \ {o} : \A x : ~At(q, x) /\ ~Pending(q, x) /\ ~At(q, x)' /\ ~Pending(q, x)'
  BY <1>1, <1>2, OnlyIs
<1> QED
  BY <1>1, <1>3 DEF Done, At, Undo

LEMMA HarmonySetCA ==
  ASSUME AInv, NEW o \in Ops, SetServerCA(o) PROVE Courses' /\ Solitude' /\ Harmony'
<1>0. UNCHANGED <<addr, fetches, cfg, disk, flags, started, given, snap, subject, alone, settled>>
  BY DEF SetServerCA
<1>1. CASE ApplyServerCA(snap[o].ca) /\ Done(o, "setca")
  <2>1. Courses' /\ Solitude'
    BY <1>0, <1>1, DoneFacts, SolitudeDone DEF AInv
  <2>2. ASSUME settled' PROVE FileSettled' /\ SourceSettled' /\ RelaySettled' /\ FilterSettled'
    <3>0. settled /\ Memory' = Memory
      BY <1>0, <2>2, MemoryKeeps
    <3>1. /\ \A q \in Ops \ {o} : \A x : ~At(q, x) /\ ~Pending(q, x) /\ ~At(q, x)' /\ ~Pending(q, x)'
          /\ \A x : At(o, x) => x = "setca"
          /\ \A q \in Ops : ~Undo(q)'
          /\ todo'[o] # <<>> /\ ~Pending(o, "start")'
      BY <1>1, <3>0, SettledDone DEF AInv
    <3>2. /\ \A x \in {"save", "setsource"} : Pending(o, x)' <=> Pending(o, x)
          /\ ~At(o, "filter")'
      BY <1>1, DoneFacts DEF AInv
    <3>3. FileSettled'
      BY <1>0, <3>0, <3>1, <3>2 DEF AInv, Harmony, FileSettled
    <3>4. source'.dir = source.dir /\ (ca' # NoCA /\ source'.dir = SystemStore => source'.filter = ca')
      BY <1>1, FilteredIs DEF AInv, FInv, ApplyServerCA, Filtered
    <3>5. SourceSettled'
      BY <1>0, <3>0, <3>1, <3>2, <3>4 DEF AInv, Harmony, SourceSettled
    <3>6. RelaySettled'
      BY <3>1 DEF RelaySettled
    <3>7. FilterSettled'
      BY <1>0, <3>0, <3>4 DEF AInv, Harmony, FilterSettled, CurrentFilters
    <3> QED
      BY <3>3, <3>5, <3>6, <3>7
  <2> QED
    BY <2>1, <2>2 DEF Harmony
<1>2. CASE /\ RefuseServerCA(snap[o].ca) /\ At(o, "setca")
           /\ todo' = [todo EXCEPT ![o] = <<"rollback">>] /\ UNCHANGED old
  <2>0. "rollback" \in Steps
    BY DEF Steps
  <2>1. /\ todo[o] # <<>> /\ todo'[o] = <<"rollback">> /\ \A q \in Ops \ {o} : todo'[q] = todo[q]
        /\ \A x : At(o, x) => x = "setca"
        /\ \A x : At(o, x)' <=> x = "rollback"
        /\ \A x : Pending(o, x)' <=> x = "rollback"
    BY <1>2, <2>0, OneIs DEF At, Pending, AInv, Courses
  <2>2. Courses'
    <3>1. Course(<<"rollback">>)
      BY <2>0, OneIs DEF Course, Increasing
    <3> QED
      BY <1>2, <3>1 DEF AInv, Courses
  <2>3. \A q \in Ops : alone[q] => q = o /\ IdleOps(o)
    BY <2>1 DEF AInv, Solitude, IdleOps
  <2>4. Solitude'
    <3>1. IdleOps(o) => IdleOps(o)'
      BY <2>1 DEF IdleOps
    <3>2. \A q \in Ops : alone'[q] =>
              IdleOps(q)' /\ (At(q, "reload")' \/ At(q, "start")' => snap'[q] = Effective')
      BY <1>0, <2>1, <2>3, <3>1
    <3>3. ASSUME settled', NEW q \in Ops, todo'[q] # <<>> PROVE alone'[q]
      BY <1>0, <2>1, <3>3 DEF AInv, Solitude
    <3> QED
      BY <1>0, <3>2, <3>3 DEF AInv, Solitude
  <2>5. ASSUME settled' PROVE FileSettled' /\ SourceSettled' /\ RelaySettled' /\ FilterSettled'
    <3>0. settled /\ Memory' = Memory /\ UNCHANGED <<ca, source, old>>
      BY <1>0, <1>2, <2>5, MemoryKeeps DEF RefuseServerCA
    <3>1. \A q \in Ops \ {o} : \A x : ~At(q, x) /\ ~Pending(q, x) /\ ~At(q, x)' /\ ~Pending(q, x)'
      <4>1. IdleOps(o)
        BY <2>1, <3>0 DEF AInv, Solitude
      <4> QED
        BY <2>1, <4>1, OnlyIs
    <3>2. Undo(o) /\ Undo(o)' /\ \A q \in Ops : Undo(q)' => q = o
      BY <1>2, <2>1, <3>1 DEF Undo
    <3>3. FileSettled'
      BY <1>0, <2>1, <3>0, <3>1, <3>2 DEF AInv, Harmony, FileSettled
    <3>4. SourceSettled'
      BY <1>0, <2>1, <3>0, <3>1, <3>2 DEF AInv, Harmony, SourceSettled
    <3>5. RelaySettled'
      BY <1>0, <2>1, <3>0, <3>2 DEF AInv, Harmony, RelaySettled, RelayHas
    <3>6. FilterSettled'
      BY <1>0, <2>1, <3>0, <3>1 DEF AInv, Harmony, FilterSettled, CurrentFilters
    <3> QED
      BY <3>3, <3>4, <3>5, <3>6
  <2> QED
    BY <2>2, <2>4, <2>5 DEF Harmony
<1> QED
  BY <1>1, <1>2 DEF SetServerCA

\* A new source, and its filter.
LEMMA HarmonySource ==
  ASSUME AInv, FInv, NEW o \in Ops, SetSource(o) \/ FilterSource(o)
  PROVE  Courses' /\ Solitude' /\ Harmony'
<1>0. UNCHANGED <<addr, ca, cfg, disk, flags, started, given, old, snap, alone, settled>>
  BY DEF SetSource, FilterSource
<1>1. PICK step \in {"setsource", "filter"} :
        /\ Done(o, step)
        /\ step = "setsource" => SetSource(o)
        /\ step = "filter" => FilterSource(o)
  BY DEF SetSource, FilterSource
<1>2. Courses' /\ Solitude'
  BY <1>0, <1>1, DoneFacts, SolitudeDone DEF AInv
<1>3. ASSUME settled' PROVE FileSettled' /\ SourceSettled' /\ RelaySettled' /\ FilterSettled'
  <2>0. settled /\ Memory' = Memory
    BY <1>0, <1>3, MemoryKeeps
  <2>1. /\ \A q \in Ops \ {o} : \A x : ~At(q, x) /\ ~Pending(q, x) /\ ~At(q, x)' /\ ~Pending(q, x)'
        /\ \A x : At(o, x) => x = step
        /\ \A q \in Ops : ~Undo(q)'
        /\ todo'[o] # <<>> /\ ~Pending(o, "start")'
    BY <1>1, <2>0, SettledDone DEF AInv
  <2>2. /\ Pending(o, step) /\ \A x : Pending(o, x)' <=> Pending(o, x) /\ x # step
        /\ \A x : Pending(o, x)' => Rank[step] < Rank[x]
        /\ At(o, "filter")' => step = "setsource"
    BY <1>1, DoneFacts DEF AInv
  <2>3. FileSettled'
    <3>1. Pending(o, "save")' <=> Pending(o, "save")
      BY <1>1, <2>2
    <3>2. Pending(o, "setsource")' => Pending(o, "setsource")
      BY <2>2
    <3>3. ~At(o, "rollback")
      BY <1>1, <2>1
    <3> QED
      BY <1>0, <2>0, <2>1, <3>1, <3>2, <3>3 DEF AInv, Harmony, FileSettled
  <2>4. RelaySettled'
    BY <2>1 DEF RelaySettled
  <2>5. CASE SetSource(o) /\ step = "setsource"
    <3>1. snap[o] = Memory
      BY <2>0, <2>2, <2>5 DEF AInv, Harmony, FileSettled
    <3>2. source'.dir = snap[o].dir /\ subject'[o] = ca /\ fetches' = {}
      BY <2>5, NewIs DEF SetSource
    <3>3. At(o, "filter")'
      BY <2>5, DoneKeeps DEF SetSource
    <3>4. SourceSettled'
      BY <1>0, <2>0, <2>1, <3>1, <3>2 DEF SourceSettled
    <3>5. FilterSettled'
      BY <3>2, <3>3 DEF FilterSettled
    <3> QED
      BY <2>3, <2>4, <3>4, <3>5
  <2>6. CASE FilterSource(o) /\ step = "filter"
    <3>1. subject[o] = ca
      BY <1>1, <2>0, <2>6 DEF AInv, Harmony, SourceSettled, Done
    <3>2. /\ source'.dir = source.dir /\ fetches' = fetches
          /\ ca # NoCA /\ source'.dir = SystemStore => source'.filter = ca
      BY <2>6, <3>1, FilteredIs DEF FilterSource, FInv, StoreFiltered
    <3>3. ~At(o, "filter")' /\ (Pending(o, "setsource") => Pending(o, "setsource")') /\ ~At(o, "rollback")
      BY <2>1, <2>2, <2>6
    <3>4. SourceSettled'
      BY <1>0, <2>0, <2>1, <3>2, <3>3 DEF AInv, Harmony, SourceSettled
    <3>5. FilterSettled'
      BY <1>0, <2>0, <3>2 DEF AInv, Harmony, FilterSettled, CurrentFilters
    <3> QED
      BY <2>3, <2>4, <3>4, <3>5
  <2> QED
    BY <1>1, <2>5, <2>6
<1> QED
  BY <1>2, <1>3 DEF Harmony

LEMMA HarmonySave ==
  ASSUME AInv, NEW o \in Ops, Save(o) PROVE Courses' /\ Solitude' /\ Harmony'
<1>0. /\ UNCHANGED <<sourceVars, cfg, flags, started, given, old, subject, alone>>
      /\ Done(o, "save")
      /\ (disk' = snap[o] /\ settled' = settled) \/ settled' = FALSE
      /\ snap' = [snap EXCEPT ![o] = First]
  BY DEF Save
<1>1. Courses' /\ Solitude'
  BY <1>0, DoneFacts, SolitudeDone DEF AInv
<1>2. ASSUME settled' PROVE FileSettled' /\ SourceSettled' /\ RelaySettled' /\ FilterSettled'
  <2>0. settled /\ Memory' = Memory /\ disk' = snap[o]
    BY <1>0, <1>2, MemoryKeeps
  <2>1. /\ \A q \in Ops \ {o} : \A x : ~At(q, x) /\ ~Pending(q, x) /\ ~At(q, x)' /\ ~Pending(q, x)'
        /\ \A x : At(o, x) => x = "save"
        /\ \A q \in Ops : ~Undo(q)'
        /\ todo'[o] # <<>> /\ ~Pending(o, "start")'
    BY <1>0, <2>0, SettledDone DEF AInv
  <2>2. /\ Pending(o, "save") /\ ~At(o, "filter")'
        /\ ~Pending(o, "save")' /\ ~Pending(o, "setsource")' /\ ~Pending(o, "setsource")
    <3>1. /\ Pending(o, "save") /\ ~At(o, "filter")'
          /\ \A x : Pending(o, x)' <=> Pending(o, x) /\ x # "save"
          /\ \A x : Pending(o, x)' => Rank["save"] < Rank[x]
      BY <1>0, DoneFacts DEF AInv
    <3>2. ~(Rank["save"] < Rank["setsource"])
      BY DEF Rank
    <3> QED
      BY <3>1, <3>2
  <2>3. FileSettled'
    <3>1. disk' = Memory'
      BY <2>0, <2>2 DEF AInv, Harmony, FileSettled
    <3> QED
      BY <2>1, <2>2, <3>1 DEF FileSettled
  <2>4. SourceSettled'
    BY <1>0, <2>0, <2>1, <2>2 DEF AInv, Harmony, SourceSettled, sourceVars
  <2>5. RelaySettled'
    BY <2>1 DEF RelaySettled
  <2>6. FilterSettled'
    BY <1>0, <2>0, <2>1 DEF AInv, Harmony, FilterSettled, CurrentFilters, sourceVars
  <2> QED
    BY <2>3, <2>4, <2>5, <2>6
<1> QED
  BY <1>1, <1>2 DEF Harmony

LEMMA HarmonyRead ==
  ASSUME AInv, NEW o \in Ops, ReadConfig(o) PROVE Courses' /\ Solitude' /\ Harmony'
<1>0. /\ UNCHANGED <<sourceVars, cfg, disk, flags, started, given, old, subject, alone, settled>>
      /\ Done(o, "read") /\ snap' = [snap EXCEPT ![o] = Effective]
  BY DEF ReadConfig
<1>1. Courses' /\ Solitude'
  <2>1. snap'[o] = Effective
    BY <1>0 DEF AInv, Shapes
  <2> QED
    BY <1>0, <2>1, DoneFacts, SolitudeDone DEF AInv
<1>2. ASSUME settled' PROVE FileSettled' /\ SourceSettled' /\ RelaySettled' /\ FilterSettled'
  <2>0. settled /\ Memory' = Memory
    BY <1>0, <1>2, MemoryKeeps
  <2>1. /\ \A q \in Ops \ {o} : \A x : ~At(q, x) /\ ~Pending(q, x) /\ ~At(q, x)' /\ ~Pending(q, x)'
        /\ \A x : At(o, x) => x = "read"
        /\ \A q \in Ops : ~Undo(q)'
    BY <1>0, <2>0, SettledDone DEF AInv
  <2>2. /\ ~At(o, "filter")' /\ todo'[o] # <<>>
        /\ \A x \in {"save", "setsource"} : ~Pending(o, x) /\ ~Pending(o, x)'
        /\ Pending(o, "start")' => Pending(o, "start")
    <3>1. /\ ~At(o, "filter")' /\ todo'[o] # <<>>
          /\ \A x : Pending(o, x)' <=> Pending(o, x) /\ x # "read"
          /\ \A x : Pending(o, x)' => Rank["read"] < Rank[x]
      BY <1>0, DoneFacts DEF AInv
    <3>2. ~(Rank["read"] < Rank["setsource"]) /\ ~(Rank["read"] < Rank["save"])
      BY DEF Rank
    <3> QED
      BY <3>1, <3>2
  <2>3. FileSettled'
    BY <1>0, <2>0, <2>1, <2>2 DEF AInv, Harmony, FileSettled
  <2>4. SourceSettled'
    BY <1>0, <2>0, <2>1, <2>2 DEF AInv, Harmony, SourceSettled, sourceVars
  <2>5. RelaySettled'
    <3>1. ASSUME started', \A q \in Ops : todo'[q] = <<>> \/ Pending(q, "start")' PROVE RelayHas(cfg)'
      <4>1. \A q \in Ops : todo[q] = <<>> \/ Pending(q, "start")
        BY <1>0, <2>1, <2>2, <3>1, DoneFacts DEF AInv
      <4>2. started /\ RelayHas(cfg)
        BY <1>0, <2>0, <3>1, <4>1 DEF AInv, Harmony, RelaySettled
      <4> QED
        BY <1>0, <4>2 DEF RelayHas, sourceVars
    <3> QED
      BY <2>1, <3>1 DEF RelaySettled
  <2>6. FilterSettled'
    BY <1>0, <2>0, <2>1 DEF AInv, Harmony, FilterSettled, CurrentFilters, sourceVars
  <2> QED
    BY <2>3, <2>4, <2>5, <2>6
<1> QED
  BY <1>1, <1>2 DEF Harmony

\* What was found comes back.
LEMMA HarmonyRollback ==
  ASSUME AInv, NEW o \in Ops, Rollback(o) PROVE Courses' /\ Solitude' /\ Harmony'
<1>0. /\ UNCHANGED <<sourceVars, disk, flags, started, given, settled>>
      /\ Ends(o, "rollback") /\ Done(o, "rollback") /\ At(o, "rollback")
      /\ cfg' \in {old[o], [old[o] EXCEPT !.arr = 0]}
  BY DEF Rollback, Ends, Done
<1>1. /\ Courses' /\ Solitude'
      /\ settled' => \A q \in Ops : todo'[q] = <<>>
  BY <1>0, DoneFacts, SolitudeEnds DEF AInv
<1>2. ASSUME settled' PROVE FileSettled' /\ SourceSettled' /\ RelaySettled' /\ FilterSettled'
  <2>1. /\ cfg'.server = old[o].server /\ cfg'.ca = old[o].ca
        /\ cfg'.dir = old[o].dir /\ cfg'.tunnels = old[o].tunnels
    BY <1>0 DEF AInv, Shapes, Fields
  <2>2. Memory' = Value(old[o]) /\ Memory'.dir = old[o].dir
    BY <2>1 DEF Memory, Value
  <2>3. \A q \in Ops : \A x : ~At(q, x)' /\ ~Pending(q, x)'
    BY <1>1, <1>2, IdleIs
  <2>4. settled /\ Undo(o)
    BY <1>0, <1>2 DEF Undo
  <2>5. FileSettled'
    BY <1>0, <2>2, <2>3, <2>4 DEF AInv, Harmony, FileSettled, Undo
  <2>6. SourceSettled'
    BY <1>0, <2>2, <2>3, <2>4 DEF AInv, Harmony, SourceSettled, Undo, sourceVars
  <2>7. RelaySettled'
    BY <1>0, <2>1, <2>3, <2>4 DEF AInv, Harmony, RelaySettled, RelayHas, Undo, sourceVars
  <2>8. FilterSettled'
    <3>1. \A q \in Ops : ~At(q, "filter")
      BY <1>0, <2>4, SettledDone DEF AInv
    <3> QED
      BY <1>0, <2>4, <3>1 DEF AInv, Harmony, FilterSettled, CurrentFilters, sourceVars
  <2> QED
    BY <2>5, <2>6, <2>7, <2>8
<1> QED
  BY <1>1, <1>2 DEF Harmony

\* The relay takes the configuration that was read, or refuses it.
LEMMA HarmonyReload ==
  ASSUME AInv, FInv, NEW o \in Ops, RelayReload(o) PROVE Courses' /\ Solitude' /\ Harmony'
<1>0. /\ UNCHANGED <<cfg, fetches, disk, flags, started>>
      /\ Ends(o, "reload") /\ Done(o, "reload") /\ At(o, "reload")
      /\ settled' => settled \/ alone[o]
  <2>1. /\ UNCHANGED <<cfg, fetches, disk, flags, started>>
        /\ Ends(o, "reload") /\ Done(o, "reload") /\ At(o, "reload")
    BY DEF RelayReload, Ends, Done
  <2>2. settled' => settled \/ alone[o]
    BY Zenon DEF RelayReload
  <2> QED
    BY <2>1, <2>2
<1>1. /\ Courses' /\ Solitude'
      /\ settled' => /\ \A q \in Ops : todo'[q] = <<>>
                     /\ IdleOps(o) /\ alone[o]
  BY <1>0, DoneFacts, SolitudeEnds DEF AInv
<1>2. ASSUME settled' PROVE FileSettled' /\ SourceSettled' /\ RelaySettled' /\ FilterSettled'
  <2>1. snap[o] = Effective /\ Memory' = Memory
    BY <1>0, <1>1, <1>2, MemoryKeeps DEF AInv, Solitude
  <2>2. \A q \in Ops : \A x : ~At(q, x)' /\ ~Pending(q, x)'
    BY <1>1, <1>2, IdleIs
  <2>3. ASSUME settled PROVE (flags.noPersist \/ disk = Memory) /\ source.dir = Memory.dir
    <3>1. \A q \in Ops : ~Pending(q, "save") /\ ~Pending(q, "setsource") /\ ~At(q, "rollback")
      <4>1. /\ \A q \in Ops \ {o} : \A x : ~At(q, x) /\ ~Pending(q, x)
            /\ \A x : At(o, x) => x = "reload"
        BY <1>0, <2>3, SettledDone DEF AInv
      <4>2. \A x : Pending(o, x)' <=> Pending(o, x) /\ x # "reload"
        BY <1>0, DoneFacts DEF AInv
      <4> QED
        BY <2>2, <4>1, <4>2
    <3> QED
      BY <2>3, <3>1 DEF AInv, Harmony, FileSettled, SourceSettled
  <2>4. /\ flags.noPersist \/ disk = Memory
        /\ source.dir = Memory.dir
        /\ source'.dir = source.dir
        /\ started => /\ addr' = snap[o].server /\ ca' = snap[o].ca /\ given' = snap[o].tunnels
                      /\ fetches' \subseteq {addr'}
                      /\ ca' # NoCA /\ source'.dir = SystemStore => source'.filter = ca'
    <3>1. CASE ~started /\ UNCHANGED <<source, settled>>
      BY <1>2, <2>3, <3>1
    <3>2. CASE /\ started /\ addr' = snap[o].server /\ ApplyServerCA(snap[o].ca) /\ given' = snap[o].tunnels
               /\ settled' = /\ fetches \subseteq {addr'}
                             /\ settled \/ /\ alone[o]
                                           /\ flags.noPersist \/ disk = Memory
                                           /\ source.dir = snap[o].dir
      <4>1. fetches \subseteq {addr'} /\ (flags.noPersist \/ disk = Memory) /\ source.dir = Memory.dir
        <5>1. /\ fetches \subseteq {addr'}
              /\ settled \/ ((flags.noPersist \/ disk = Memory) /\ source.dir = snap[o].dir)
          BY <1>2, <3>2, Zenon
        <5>2. snap[o].dir = Memory.dir
          BY <2>1, EffectiveIs
        <5> QED
          BY <2>3, <5>1, <5>2
      <4>2. /\ ca' = snap[o].ca /\ source'.dir = source.dir
            /\ ca' # NoCA /\ source'.dir = SystemStore => source'.filter = ca'
        BY <3>2, FilteredIs DEF ApplyServerCA, FInv, StoreFiltered
      <4> QED
        BY <1>0, <3>2, <4>1, <4>2
    <3> QED
      BY <1>2, <3>1, <3>2 DEF RelayReload
  <2>5. FileSettled' /\ SourceSettled'
    BY <1>0, <2>1, <2>2, <2>4 DEF FileSettled, SourceSettled, Undo
  <2>6. RelaySettled'
    BY <1>0, <2>1, <2>2, <2>4, EffectiveIs DEF RelaySettled, RelayHas, Undo
  <2>7. FilterSettled'
    BY <1>0, <2>4 DEF FilterSettled, CurrentFilters
  <2> QED
    BY <2>5, <2>6, <2>7
<1> QED
  BY <1>1, <1>2 DEF Harmony

\* Start likewise; a relay that runs has the configuration already.
LEMMA HarmonyStart ==
  ASSUME AInv, FInv, NEW o \in Ops, RelayStart(o) PROVE Courses' /\ Solitude' /\ Harmony'
<1>0. /\ UNCHANGED <<cfg, fetches, disk, flags>>
      /\ Ends(o, "start") /\ Done(o, "start") /\ At(o, "start")
      /\ settled' => settled
  <2>1. /\ UNCHANGED <<cfg, fetches, disk, flags>>
        /\ Ends(o, "start") /\ Done(o, "start") /\ At(o, "start")
    BY DEF RelayStart, Ends, Done
  <2>2. settled' => settled
    BY Zenon DEF RelayStart
  <2> QED
    BY <2>1, <2>2
<1>1. /\ Courses' /\ Solitude'
      /\ settled' => /\ \A q \in Ops : todo'[q] = <<>>
                     /\ IdleOps(o) /\ alone[o]
  BY <1>0, DoneFacts, SolitudeEnds DEF AInv
<1>2. ASSUME settled' PROVE FileSettled' /\ SourceSettled' /\ RelaySettled' /\ FilterSettled'
  <2>1. snap[o] = Effective /\ Memory' = Memory /\ settled
    BY <1>0, <1>1, <1>2, MemoryKeeps DEF AInv, Solitude
  <2>2. \A q \in Ops : \A x : ~At(q, x)' /\ ~Pending(q, x)'
    BY <1>1, <1>2, IdleIs
  <2>3. /\ \A q \in Ops \ {o} : todo[q] = <<>>
        /\ \A q \in Ops : ~Pending(q, "save") /\ ~Pending(q, "setsource") /\ ~At(q, "rollback") /\ ~At(q, "filter")
        /\ Pending(o, "start")
    <3>1. /\ \A q \in Ops \ {o} : \A x : ~At(q, x) /\ ~Pending(q, x)
          /\ \A x : At(o, x) => x = "start"
      BY <1>0, <2>1, SettledDone DEF AInv
    <3>2. (\A x : Pending(o, x)' <=> Pending(o, x) /\ x # "start") /\ Pending(o, "start")
      BY <1>0, DoneFacts DEF AInv
    <3> QED
      BY <1>1, <1>2, <2>2, <3>1, <3>2 DEF IdleOps
  <2>4. /\ flags.noPersist \/ disk = Memory
        /\ source.dir = Memory.dir
        /\ started => RelayHas(cfg)
    BY <2>1, <2>3 DEF AInv, Harmony, FileSettled, SourceSettled, RelaySettled
  <2>5. /\ source'.dir = source.dir
        /\ started' => RelayHas(cfg)' /\ FilterSettled'
    <3>1. CASE started /\ UNCHANGED <<addr, ca, source, waiting, started, given, settled>>
      BY <1>0, <2>1, <2>3, <2>4, <3>1 DEF RelayHas, AInv, Harmony, FilterSettled, CurrentFilters
    <3>2. CASE /\ ~started /\ addr' = snap[o].server /\ ApplyServerCA(snap[o].ca)
               /\ settled' = (settled /\ fetches \subseteq {addr'})
               /\ started' => given' = snap[o].tunnels
      <4>1. /\ ca' = snap[o].ca /\ source'.dir = source.dir
            /\ ca' # NoCA /\ source'.dir = SystemStore => source'.filter = ca'
        BY <3>2, FilteredIs DEF ApplyServerCA, FInv, StoreFiltered
      <4>2. fetches \subseteq {addr'}
        BY <1>2, <3>2, Zenon
      <4> QED
        BY <1>0, <2>1, <3>2, <4>1, <4>2, EffectiveIs DEF RelayHas, FilterSettled, CurrentFilters
    <3>3. CASE /\ ~started /\ RefuseServerCA(snap[o].ca) /\ UNCHANGED <<started, given, settled>>
      BY <3>3 DEF RefuseServerCA
    <3> QED
      BY <3>1, <3>2, <3>3 DEF RelayStart
  <2>6. FileSettled' /\ SourceSettled'
    BY <1>0, <2>1, <2>2, <2>4, <2>5 DEF FileSettled, SourceSettled, Undo
  <2>7. RelaySettled' /\ FilterSettled'
    BY <2>2, <2>5 DEF RelaySettled, FilterSettled, Undo
  <2> QED
    BY <2>6, <2>7
<1> QED
  BY <1>1, <1>2 DEF Harmony

-----------------------------------------------------------------------------
\* A new process has the configuration of the file.
LEMMA HarmonyRestart == ASSUME AInv, Restart PROVE Courses' /\ Solitude' /\ Harmony'
<1>1. /\ disk' = Value(disk') /\ cfg' = InArray(disk', 0) /\ fetches' = {}
      /\ addr' = Effective'.server /\ ca' = disk'.ca
      /\ source' = Filtered(NewSource(disk'.dir), disk'.ca)
      /\ started' => given' = disk'.tunnels
      /\ todo' = [o \in Ops |-> <<>>] /\ alone' = [o \in Ops |-> FALSE]
  BY DEF Restart, AInv, Shapes, Value
<1>2. /\ Memory' = disk' /\ cfg'.server = disk'.server /\ cfg'.ca = disk'.ca
      /\ cfg'.dir = disk'.dir /\ cfg'.tunnels = disk'.tunnels
  BY <1>1, InArrayIs DEF Memory
<1>3. \A o \in Ops : todo'[o] = <<>> /\ \A x : ~At(o, x)' /\ ~Pending(o, x)'
  BY <1>1, IdleIs
<1>4. Courses' /\ Solitude'
  BY <1>1, <1>3, EmptyIs DEF Courses, Solitude
<1>5. source'.dir = disk'.dir /\ (source'.dir = SystemStore /\ ca' # NoCA => source'.filter = ca')
  BY <1>1, NewIs, FilteredIs
<1>6. addr' = IF flags'.server = NoServer THEN cfg'.server ELSE flags'.server
  BY <1>1 DEF Effective, Memory, Value
<1>7. FileSettled' /\ SourceSettled'
  BY <1>2, <1>3, <1>5 DEF FileSettled, SourceSettled, Undo
<1>8. RelaySettled'
  BY <1>1, <1>2, <1>3, <1>6 DEF RelaySettled, RelayHas, Undo
<1>9. FilterSettled'
  BY <1>1, <1>5 DEF FilterSettled, CurrentFilters
<1> QED
  BY <1>4, <1>7, <1>8, <1>9 DEF Harmony

\* A gateway is asked for its CA, or answers.
LEMMA HarmonyFetch == ASSUME AInv, FInv, Fetch PROVE Courses' /\ Solitude' /\ Harmony' /\ NoServer \notin fetches'
<1>1. UNCHANGED <<addr, ca, cfg, disk, flags, started, given, todo, old, snap, subject, alone, settled>>
  BY DEF Fetch, FetchAsks, FetchEnds, local
<1>2. Memory' = Memory /\ Effective' = Effective
  BY <1>1, MemoryKeeps
<1>3. /\ source'.dir = source.dir /\ NoServer \notin fetches'
      /\ fetches \subseteq {addr} => fetches' \subseteq {addr}
      /\ \/ source'.filter = source.filter
         \/ \E a \in fetches : source'.filter = Serves[a]
  <2>1. CASE FetchAsks
    BY <2>1 DEF FetchAsks, AInv
  <2>2. CASE FetchEnds
    BY <2>2, FilteredIs DEF FetchEnds, AInv, FInv, StoreFiltered
  <2> QED
    BY <2>1, <2>2 DEF Fetch
<1>4. Courses' /\ Solitude'
  BY <1>1, <1>2 DEF AInv, Courses, Solitude, IdleOps, At
<1>5. ASSUME settled' PROVE FileSettled' /\ SourceSettled' /\ RelaySettled' /\ FilterSettled'
  <2>1. FileSettled /\ SourceSettled /\ RelaySettled /\ FilterSettled
    BY <1>1, <1>5 DEF AInv, Harmony
  <2>2. FileSettled'
    BY <1>1, <1>2, <2>1 DEF FileSettled, Pending, At, Undo
  <2>3. SourceSettled'
    BY <1>1, <1>2, <1>3, <2>1 DEF SourceSettled, Pending, At, Undo
  <2>4. RelaySettled'
    BY <1>1, <1>2, <2>1 DEF RelaySettled, RelayHas, Pending, At, Undo
  <2>5. FilterSettled'
    <3>1. CASE source'.filter = source.filter
      BY <1>1, <1>3, <2>1, <3>1 DEF FilterSettled, CurrentFilters, At
    <3>2. ASSUME NEW a \in fetches, source'.filter = Serves[a] PROVE FilterSettled'
      BY <1>1, <1>3, <2>1, <3>2 DEF FilterSettled, CurrentFilters, AInv
    <3> QED
      BY <1>3, <3>1, <3>2
  <2> QED
    BY <2>2, <2>3, <2>4, <2>5
<1> QED
  BY <1>3, <1>4, <1>5 DEF Harmony

LEMMA HarmonyStop == ASSUME AInv, Stop PROVE Courses' /\ Solitude' /\ Harmony'
<1>1. /\ UNCHANGED <<addr, ca, source, cfg, disk, flags, todo, old, snap, subject, alone, settled>>
      /\ ~started'
  BY DEF Stop, local, sourceVars
<1>2. Memory' = Memory /\ Effective' = Effective
  BY <1>1, MemoryKeeps
<1>3. Courses' /\ Solitude'
  BY <1>1, <1>2 DEF AInv, Courses, Solitude, IdleOps, At
<1>4. settled' => FileSettled'
  BY <1>1, <1>2 DEF AInv, Harmony, FileSettled, Pending, At, Undo
<1>5. settled' => SourceSettled'
  BY <1>1, <1>2 DEF AInv, Harmony, SourceSettled, Pending, At, Undo
<1>6. RelaySettled' /\ FilterSettled'
  BY <1>1 DEF RelaySettled, FilterSettled
<1> QED
  BY <1>3, <1>4, <1>5, <1>6 DEF Harmony

\* The changes of tunnels and settings.
LEMMA HarmonyTunnels ==
  ASSUME AInv, NEW o \in Ops,
         (\E t \in Tunnels : AddTunnel(o, t)) \/ (\E id \in Ids : DelTunnel(o, id))
  PROVE  Courses' /\ Solitude' /\ Harmony'
<1> DEFINE steps == <<>> \o Saves \o <<"read", "reload">>
<1>1. Changes(o, <<>>) /\ cfg'.dir = cfg.dir
  BY DEF AddTunnel, DelTunnel, Upsert, Cut, AInv, Shapes, Fields
<1>2. steps = <<>> \o <<>> \o Saves \o <<"read", "reload">> /\ Saves \in {<<>>, <<"save">>}
  BY DEF Saves
<1>3. /\ Course(steps) /\ steps # <<>> /\ Head(steps) \in {"setca", "setsource", "save", "read"}
      /\ Head(steps) # "setca" /\ (Has(steps, "save") <=> Saves # <<>>) /\ ~Has(steps, "start")
  <2>1. \A c \in {<<>>, <<"save">>} : IsPlan(<<>> \o <<>> \o c \o <<"read", "reload">>, <<>>, <<>>, c, "reload")
    BY LeadOf, Zenon
  <2> HIDE DEF steps
  <2>2. IsPlan(steps, <<>>, <<>>, Saves, "reload")
    BY <1>2, <2>1
  <2> QED
    BY <2>2 DEF IsPlan
<1>4. /\ Begins(o, steps) /\ snap' = [snap EXCEPT ![o] = Memory']
      /\ UNCHANGED <<sourceVars, disk, flags, started, given, subject>>
  BY <1>1 DEF Changes
<1>5. ~flags.noPersist => Saves # <<>>
  BY DEF Saves
<1> HIDE DEF steps
<1>6. Courses' /\ Solitude'
  BY <1>3, <1>4, BeginsFacts, SolitudeBegins DEF AInv
<1>7. Memory'.dir = cfg.dir
  BY <1>1 DEF Memory, Value
<1>8. Harmony'
  BY <1>3, <1>4, <1>5, <1>7, HarmonyChanges
<1> QED
  BY <1>6, <1>8

LEMMA HarmonySettings ==
  ASSUME AInv, NEW o \in Ops, NEW p \in Patches, UpdateSettings(o, p)
  PROVE  Courses' /\ Solitude' /\ Harmony'
<1> DEFINE setca == IF "ca" \in DOMAIN p THEN <<"setca">> ELSE <<>>
           setdir == IF "dir" \in DOMAIN p THEN <<"setsource", "filter">> ELSE <<>>
           steps == setca \o setdir \o Saves \o <<"read", "reload">>
<1>1. /\ Begins(o, steps) /\ snap' = [snap EXCEPT ![o] = Memory']
      /\ UNCHANGED <<sourceVars, disk, flags, started, given, subject>>
  BY DEF UpdateSettings, Changes
<1>2. /\ setca \in {<<>>, <<"setca">>} /\ setdir \in {<<>>, <<"setsource", "filter">>}
      /\ Saves \in {<<>>, <<"save">>}
      /\ (setca # <<>> <=> "ca" \in DOMAIN p) /\ (setdir # <<>> <=> "dir" \in DOMAIN p)
      /\ ~flags.noPersist => Saves # <<>>
  BY DEF Saves
<1>3. /\ Course(steps) /\ steps # <<>> /\ Head(steps) \in {"setca", "setsource", "save", "read"}
      /\ Head(steps) = "setca" <=> "ca" \in DOMAIN p
      /\ Has(steps, "setsource") <=> "dir" \in DOMAIN p
      /\ ~flags.noPersist => Has(steps, "save")
      /\ ~Has(steps, "start")
  <2>1. \A a \in {<<>>, <<"setca">>}, b \in {<<>>, <<"setsource", "filter">>}, c \in {<<>>, <<"save">>} :
           IsPlan(a \o b \o c \o <<"read", "reload">>, a, b, c, "reload")
    BY LeadOf, Zenon
  <2> HIDE DEF setca, setdir
  <2>2. IsPlan(setca \o setdir \o Saves \o <<"read", "reload">>, setca, setdir, Saves, "reload")
    BY <1>2, <2>1
  <2> HIDE DEF steps
  <2>3. IsPlan(steps, setca, setdir, Saves, "reload")
    BY <2>2 DEF steps
  <2> QED
    BY <1>2, <2>3 DEF IsPlan
<1> HIDE DEF steps
<1>4. Courses' /\ Solitude'
  BY <1>1, <1>3, BeginsFacts, SolitudeBegins DEF AInv
<1>5. "dir" \in DOMAIN p \/ Memory'.dir = cfg.dir
  BY DEF UpdateSettings, Memory, Value, AInv, Shapes, Fields
<1>6. Head(steps) = "setca" => old'[o] = cfg
  BY <1>3 DEF UpdateSettings, AInv, Shapes
<1>7. Harmony'
  BY <1>1, <1>3, <1>5, <1>6, HarmonyChanges
<1> QED
  BY <1>4, <1>7

LEMMA AInvNext == FInv /\ AInv /\ [Next]_vars => AInv'
<1> SUFFICES ASSUME FInv, AInv, [Next]_vars PROVE AInv'
  OBVIOUS
<1>1. Shapes'
  BY ShapesNext DEF AInv
<1>2. Courses' /\ Solitude' /\ Harmony'
  <2>1. CASE UNCHANGED vars
    <3>1. /\ UNCHANGED <<addr, ca, source, fetches, cfg, disk, flags, started, given>>
          /\ UNCHANGED <<todo, old, snap, subject, alone, settled>>
      BY <2>1 DEF vars, local, sourceVars
    <3>2. Memory' = Memory /\ Effective' = Effective
      BY <3>1, MemoryKeeps
    <3>3. Courses' /\ Solitude'
      BY <3>1, <3>2 DEF AInv, Courses, Solitude, IdleOps, At
    <3>4. settled' => FileSettled'
      BY <3>1, <3>2 DEF AInv, Harmony, FileSettled, Pending, At, Undo
    <3>5. settled' => SourceSettled'
      BY <3>1, <3>2 DEF AInv, Harmony, SourceSettled, Pending, At, Undo
    <3>6. settled' => RelaySettled'
      BY <3>1 DEF AInv, Harmony, RelaySettled, RelayHas, Pending, At, Undo
    <3>7. settled' => FilterSettled'
      BY <3>1 DEF AInv, Harmony, FilterSettled, CurrentFilters, At
    <3> QED
      BY <3>3, <3>4, <3>5, <3>6, <3>7 DEF Harmony
  <2> QED
    BY <2>1, HarmonyTunnels, HarmonySettings, HarmonySetCA, HarmonyRollback, HarmonySource,
       HarmonySave, HarmonyAsks, HarmonyRead, HarmonyReload, HarmonyStart, HarmonyStop,
       HarmonyRestart, HarmonyFetch DEF Next
<1>3. NoServer \notin fetches'
  <2>1. CASE Fetch
    BY <2>1, HarmonyFetch
  <2>2. CASE ~Fetch
    <3>1. fetches' = fetches \/ fetches' = {}
      BY <2>2 DEF Next, vars, sourceVars, AddTunnel, DelTunnel, UpdateSettings, Changes, SetServerCA,
                  Rollback, SetSource, FilterSource, Save, Reload, Start, ReadConfig, RelayReload,
                  RelayStart, Stop, Restart
    <3> QED
      BY <3>1 DEF AInv
  <2> QED
    BY <2>1, <2>2
<1> QED
  BY <1>1, <1>2, <1>3 DEF AInv

\* Changes that did not overlap and failed nowhere, rollbacks included, leave
\* the file, the memory and the running relay with the same configuration and
\* its source with a filter that fits (Agreement): UpdateSettings and its
\* rollback, SaveConfig, SetSource, Relay.Reload and Relay.Start, whatever other
\* requests did before and whenever the gateways answer.
THEOREM AgreementCorrect == Spec => []Agreement
<1>1. AInv => Agreement
  <2> SUFFICES ASSUME AInv, Quiet, settled PROVE Agreement
    BY DEF Agreement
  <2>1. \A o \in Ops : todo[o] = <<>> /\ \A x : ~At(o, x) /\ ~Pending(o, x)
    BY IdleIs DEF Quiet
  <2>2. FileSettled /\ SourceSettled /\ RelaySettled /\ FilterSettled
    BY DEF AInv, Harmony
  <2>3. (flags.noPersist \/ disk = Memory) /\ source.dir = Memory.dir
    BY <2>1, <2>2 DEF FileSettled, SourceSettled
  <2>4. started => RelayHas(cfg) /\ (source.dir = SystemStore /\ ca # NoCA => source.filter \in CurrentFilters)
    BY <2>1, <2>2 DEF RelaySettled, FilterSettled
  <2> QED
    BY <2>3, <2>4, EffectiveIs DEF Agreement, RelayHas
<1> QED
  BY FInvInit, FInvNext, RecordedInit, RecordedNext, AInvInit, AInvNext, <1>1, PTL DEF Spec
=============================================================================
