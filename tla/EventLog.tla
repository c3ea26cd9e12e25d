------------------------------- MODULE EventLog -------------------------------
(***************************************************************************)
(* The rolling logs of internal/eventlog, as the processes use them: the   *)
(* event and access logs, and the standard log, which package log writes   *)
(* into through TextWriter.  A logger's mutex covers a whole line with the *)
(* rotation before it; package log has a mutex of its own, held while the  *)
(* standard logger writes.                                                 *)
(*                                                                         *)
(* What goes wrong in a rotation is reported with log.Printf, that is,     *)
(* through the standard logger.  A crash may come between any two          *)
(* operations on files.                                                    *)
(***************************************************************************)
EXTENDS Integers, Sequences, FiniteSets, SequencesExt

CONSTANTS
    Loggers,   \* the loggers of a process, Std among them
    Std,       \* the standard logger
    Nobody,
    App,       \* a goroutine that logs
    Missing,   \* a file that does not exist
    MaxFile,   \* log_max_files
    MaxSize,   \* log_max_size
    SizeOf,    \* SizeOf[k]: the size of lines with a number of residue k
    MaxLines,  \* MaxLines[l], bound: lines logged to l
    MaxCount,  \* bound: lines of one logger, reports of failures included
    MaxCrash,  \* bound: crashes
    FaultSets  \* sets of <<l, operation>>: what may fail, for which logger

FaultKinds == {"remove", "rename", "open", "write"}

\* The lines of a logger are numbered.
Lines == 1 .. MaxCount

LineSize(n) == SizeOf[(n % Len(SizeOf)) + 1]

\* <<n, k>>: the line n, or what a short write has left of it, k bytes long. The
\* next entry follows it without a break.
Entries == {e \in Lines \X (1 .. MaxSize) : e[2] <= LineSize(e[1])}

\* (No line is longer than log_max_size: the paths of requests, the longest that
\* is logged, are bounded by Go's server well below its default.)
ASSUME LogAssumption ==
    /\ Std \in Loggers
    /\ App \notin Loggers /\ Nobody \notin Loggers \cup {App}
    /\ MaxFile \in Nat /\ MaxSize \in Nat \ {0} /\ MaxCount \in Nat /\ MaxCrash \in Nat
    /\ MaxLines \in [Loggers -> 0 .. MaxCount]
    /\ Missing \notin Seq(Entries)
    /\ SizeOf \in Seq(1 .. MaxSize) /\ Len(SizeOf) > 0
    /\ FaultSets \subseteq SUBSET (Loggers \X FaultKinds)

VARIABLES
    files,   \* files[l][i]: the entries in the file .i; 0 is the current one
    handle,  \* the file is open (f is not nil)
    size,    \* Logger.size
    at,      \* where the holder of the logger's mutex is
    next,    \* where it goes on after it has reported a failure
    nth,     \* the file it shifts next
    count,   \* lines that were to be logged
    written, \* entries that were written
    out,     \* who holds the mutex of package log
    crashes,
    faults   \* what may fail in this environment: one of FaultSets

disk  == <<files, written>>
mem   == <<handle, size, nth>>
vars  == <<files, handle, size, at, next, nth, count, written, out, crashes, faults>>

-----------------------------------------------------------------------------
Numbers == 0 .. MaxFile + 1

Bytes(e) == e[2]

\* The size of a file: that of its entries, one after another.
Total(f) ==
    LET upto[i \in 0 .. Len(f)] == IF i = 0 THEN 0 ELSE upto[i - 1] + Bytes(f[i])
    IN IF f = Missing THEN 0 ELSE upto[Len(f)]

Content(f) == IF f = Missing THEN <<>> ELSE f

\* os.OpenFile with O_TRUNC, for comparison.
OpenedEmpty(f) == <<>>

\* os.OpenFile with O_APPEND and O_CREATE.
OpenedFile(f) == Content(f)

May(l, kind) == <<l, kind>> \in faults

Init ==
    /\ files = [l \in Loggers |-> [i \in Numbers |-> IF i = 0 THEN <<>> ELSE Missing]]
    /\ handle = [l \in Loggers |-> TRUE]
    /\ size = [l \in Loggers |-> 0]
    /\ at = [l \in Loggers |-> "free"]
    /\ next = [l \in Loggers |-> "unlock"]
    /\ nth = [l \in Loggers |-> 0]
    /\ count = [l \in Loggers |-> 0]
    /\ written = [l \in Loggers |-> <<>>]
    /\ out = Nobody /\ crashes = 0
    /\ faults \in FaultSets

Goes(l, from, to) ==
    /\ at[l] = from
    /\ at' = [at EXCEPT ![l] = to]
    /\ UNCHANGED next

\* The failure is reported before the logger goes on.
Fails(l, from, to) ==
    /\ at[l] = from
    /\ at' = [at EXCEPT ![l] = "complain"]
    /\ next' = [next EXCEPT ![l] = to]

\* Write or WriteString: the logger's mutex is taken; for the standard logger
\* that is inside log.Printf.
Log(l) ==
    /\ count[l] < MaxLines[l]
    /\ l = Std => out = Nobody
    /\ Goes(l, "free", "append")
    /\ out' = IF l = Std THEN App ELSE out
    /\ count' = [count EXCEPT ![l] = @ + 1]
    /\ UNCHANGED <<disk, mem, crashes>>

\* Logger.open: append to what is there, or a new file.
Open(l) ==
    /\ handle' = [handle EXCEPT ![l] = TRUE]
    /\ files' = [files EXCEPT ![l][0] = OpenedFile(@)]
    /\ size' = [size EXCEPT ![l] = Total(files'[l][0])]

\* The limit compared before the line is added, for comparison.
FullLate(l, s) == s >= MaxSize + 1

Full(l, s) == s + LineSize(count[l]) > MaxSize

\* appendLine: a logger that lost its file tries again, without a report.
AppendLine(l) ==
    /\ \/ /\ handle[l]
          /\ Goes(l, "append", IF Full(l, size[l]) THEN "remove" ELSE "write")
          /\ UNCHANGED <<files, handle, size>>
       \/ /\ ~handle[l]
          /\ Open(l)
          /\ Goes(l, "append", IF Full(l, size'[l]) THEN "remove" ELSE "write")
       \/ /\ ~handle[l] /\ May(l, "open")
          /\ Goes(l, "append", "unlock")
          /\ UNCHANGED <<files, handle, size>>
    /\ UNCHANGED <<nth, written, count, out, crashes>>

-----------------------------------------------------------------------------
(* rotate *)

AfterShift(i) == IF i >= 1 THEN "shift" ELSE "rename"

\* The oldest file goes, if there is one to keep at all.
RemoveOldest(l) ==
    LET i == MaxFile - 1 IN
    /\ nth' = [nth EXCEPT ![l] = i]
    /\ \/ /\ Goes(l, "remove", AfterShift(i))
          /\ files' = IF MaxFile > 0 THEN [files EXCEPT ![l][MaxFile] = Missing] ELSE files
       \/ /\ MaxFile > 0 /\ files[l][MaxFile] # Missing /\ May(l, "remove")
          /\ Fails(l, "remove", AfterShift(i))
          /\ UNCHANGED files
    /\ UNCHANGED <<handle, size, written, count, out, crashes>>

\* Renaming upwards from the youngest, for comparison.
ShiftUpwards(l) ==
    LET first == files[l][1] IN
    /\ Goes(l, "shift", "rename")
    /\ files' = [files EXCEPT ![l] = [i \in Numbers |->
                    IF i = MaxFile THEN first ELSE IF i \in 1 .. MaxFile - 1 THEN Missing ELSE @[i]]]
    /\ UNCHANGED <<mem, written, count, out, crashes>>

\* os.Rename replaces a file that is there; one that is not there is skipped.
Move(l, i, j) == files' = IF files[l][i] = Missing THEN files
                          ELSE [files EXCEPT ![l][j] = files[l][i], ![l][i] = Missing]

Shift(l) ==
    LET i == nth[l] IN
    /\ at[l] = "shift"
    /\ nth' = [nth EXCEPT ![l] = i - 1]
    /\ \/ Goes(l, "shift", AfterShift(i - 1)) /\ Move(l, i, i + 1)
       \/ /\ files[l][i] # Missing /\ May(l, "rename")
          /\ Fails(l, "shift", AfterShift(i - 1)) /\ UNCHANGED files
    /\ UNCHANGED <<handle, size, written, count, out, crashes>>

RenameCurrent(l) ==
    /\ \/ Goes(l, "rename", "reopen") /\ Move(l, 0, 1)
       \/ /\ files[l][0] # Missing /\ May(l, "rename")
          /\ Fails(l, "rename", "reopen") /\ UNCHANGED files
    /\ UNCHANGED <<mem, written, count, out, crashes>>

\* A logger that cannot open its file drops the line and keeps no file.
Reopen(l) ==
    /\ \/ Goes(l, "reopen", "write") /\ Open(l)
       \/ /\ May(l, "open")
          /\ Fails(l, "reopen", "unlock")
          /\ handle' = [handle EXCEPT ![l] = FALSE]
          /\ UNCHANGED <<files, size>>
    /\ UNCHANGED <<nth, written, count, out, crashes>>

-----------------------------------------------------------------------------
\* What reaches the file of the line, and is counted by size.
Put(l, k) ==
    /\ size' = [size EXCEPT ![l] = @ + k]
    /\ IF k = 0
       THEN UNCHANGED disk
       ELSE /\ files' = [files EXCEPT ![l][0] = Append(Content(@), <<count[l], k>>)]
            /\ written' = [written EXCEPT ![l] = Append(@, <<count[l], k>>)]

\* The line is written, or less of it than there is.
WriteLine(l) ==
    /\ \/ Goes(l, "write", "unlock") /\ Put(l, LineSize(count[l]))
       \/ /\ May(l, "write")
          /\ Fails(l, "write", "unlock")
          /\ \E k \in 0 .. LineSize(count[l]) - 1 : Put(l, k)
    /\ UNCHANGED <<handle, nth, count, out, crashes>>

\* log.Printf by the holder of a logger's mutex: another line for the standard
\* logger.
Complain(l) ==
    /\ at[l] = "complain" /\ out = Nobody /\ count[Std] < MaxCount
    /\ out' = l
    /\ at' = [at EXCEPT ![Std] = "append"]
    /\ count' = [count EXCEPT ![Std] = @ + 1]
    /\ UNCHANGED <<disk, mem, next, crashes>>

\* A return that keeps the mutex of a logger without a file, for comparison.
UnlockForgotten(l) ==
    /\ at[l] = "unlock" /\ handle[l]
    /\ at' = [k \in Loggers |-> IF k = l THEN "free"
                                ELSE IF l = Std /\ k = out THEN next[k] ELSE at[k]]
    /\ out' = IF l = Std THEN Nobody ELSE out
    /\ UNCHANGED <<disk, mem, next, count, crashes>>

\* appendLine returns, and with it log.Printf; who reported a failure goes on.
Unlock(l) ==
    /\ at[l] = "unlock"
    /\ at' = [k \in Loggers |-> IF k = l THEN "free"
                                ELSE IF l = Std /\ k = out THEN next[k] ELSE at[k]]
    /\ out' = IF l = Std THEN Nobody ELSE out
    /\ UNCHANGED <<disk, mem, next, count, crashes>>

\* The process dies and a new one opens the files.
Restart ==
    /\ crashes < MaxCrash
    /\ crashes' = crashes + 1
    /\ files' = [l \in Loggers |-> [files[l] EXCEPT ![0] = OpenedFile(@)]]
    /\ handle' = [l \in Loggers |-> TRUE]
    /\ size' = [l \in Loggers |-> Total(files'[l][0])]
    /\ at' = [l \in Loggers |-> "free"]
    /\ out' = Nobody
    /\ UNCHANGED <<next, nth, count, written>>

Step(l) ==
    /\ \/ AppendLine(l)
       \/ RemoveOldest(l) \/ Shift(l) \/ RenameCurrent(l) \/ Reopen(l)
       \/ WriteLine(l) \/ Complain(l) \/ Unlock(l)
    /\ UNCHANGED faults

Next ==
    \/ \E l \in Loggers : Log(l) /\ UNCHANGED faults
    \/ \E l \in Loggers : Step(l)
    \/ Restart /\ UNCHANGED faults

Spec == Init /\ [][Next]_vars

\* A goroutine inside appendLine runs on.
Fairness == \A l \in Loggers : WF_vars(Step(l))

FairSpec == Spec /\ Fairness

-----------------------------------------------------------------------------
\* What the files of a logger hold, the oldest file first: one after another,
\* and each for itself if it holds anything.
Joined(blocks) == FlattenSeq([k \in 1 .. MaxFile + 2 |-> blocks[MaxFile + 2 - k]])

Wrap(f) == IF Content(f) = <<>> THEN <<>> ELSE <<Content(f)>>

Text(l) == Joined([i \in Numbers |-> Content(files[l][i])])
Kept(l) == Joined([i \in Numbers |-> Wrap(files[l][i])])

Renames(l) == ~May(l, "rename")

\* A logger implements the abstract rolling log: through rotations, crashes in
\* the middle of one, and operations on files that fail at any step, a line is
\* added once and in order, whole or, by a failing write, in part or not at all;
\* each step loses the lines of one file at the most, and the latest file can
\* always be read back.  Where renaming works only the oldest file is lost, so
\* what is left has no gap.
Rolling == INSTANCE RollingLog WITH
    past <- written,
    log <- [l \in Loggers |-> Kept(l)],
    intact <- {l \in Loggers : Renames(l)}

LogRefines == Rolling!Spec

\* None is lost before log_max_files files of history are there, unless a crash
\* left a hole among them.
HistoryFull ==
    \A l \in Loggers : Renames(l) /\ at[l] = "free" /\ crashes = 0 /\ Text(l) # written[l]
                      => \A i \in 1 .. MaxFile : files[l][i] # Missing

\* No file grows beyond log_max_size, reopened ones included.
SizeBound == \A l \in Loggers, i \in Numbers : Renames(l) => Total(files[l][i]) <= MaxSize

\* rotate's comment: log_max_files of history and the current file.  (With
\* log_max_files = 0 one file of history is kept all the same.)
KeepsMaxFile ==
    \A l \in Loggers : Cardinality({i \in Numbers : files[l][i] # Missing}) <= MaxFile + 1

\* A call that logs comes back though operations on the file of another logger
\* fail: rotate reports them through the standard logger and goes on.  (When the
\* standard logger's own file fails it waits for itself.)
WriteEnds == \A l \in Loggers : at[l] # "free" ~> at[l] = "free"

=============================================================================
