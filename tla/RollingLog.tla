------------------------------ MODULE RollingLog ------------------------------
(***************************************************************************)
(* What a rolling log promises (internal/eventlog): a log that can be read *)
(* back without its oldest files.  An entry, <<n, k>>, is the line with    *)
(* the number n or what a failing write has left of it, k bytes long.  It  *)
(* is added at the end, once and in the order of the lines, or not at all; *)
(* making room loses one file, the oldest where files can be renamed, and  *)
(* never the latest.                                                       *)
(***************************************************************************)
EXTENDS Integers, Sequences

CONSTANTS Loggers, Entries

VARIABLES
    past,   \* past[l]: the entries that were ever written
    log,    \* log[l]: the files that can be read back, each with its entries
    intact  \* loggers whose files can be renamed

vars == <<past, log, intact>>

Init ==
    /\ past = [l \in Loggers |-> <<>>]
    /\ log = [l \in Loggers |-> <<>>]
    /\ intact \subseteq Loggers

\* A later line than all before, in the latest file or in a new one.
Add(l) ==
    /\ \E e \in Entries :
          /\ \A i \in DOMAIN past[l] : past[l][i][1] < e[1]
          /\ past' = [past EXCEPT ![l] = Append(@, e)]
          /\ \/ log' = [log EXCEPT ![l] = Append(@, <<e>>)]
             \/ /\ log[l] # <<>>
                /\ log' = [log EXCEPT ![l][Len(log[l])] = Append(@, e)]
    /\ UNCHANGED intact

\* One file is lost: the first one of an intact log, and never the last.
Lose(l) ==
    /\ \E i \in 1 .. Len(log[l]) - 1 :
          /\ l \in intact => i = 1
          /\ log' = [log EXCEPT ![l] = SubSeq(@, 1, i - 1) \o SubSeq(@, i + 1, Len(@))]
    /\ UNCHANGED <<past, intact>>

Next == \E l \in Loggers : Add(l) \/ Lose(l)

Spec == Init /\ [][Next]_vars
=============================================================================
