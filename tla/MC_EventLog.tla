------------------------------ MODULE MC_EventLog ------------------------------
(* EventLog for TLC. *)
EXTENDS EventLog

\* A file of two lines, then files of one.
MCSizeOf == <<2, 1, 1, 2, 2, 2, 2>>

\* Some lines of the standard log besides those that report failures.
MCMaxLines == [l \in Loggers |-> IF l = Std THEN 1 ELSE 6]

\* The event log cannot always open or write, or it cannot always change the
\* names of its files.
MCFaultSets == {{"events"} \X {"open", "write"}, {"events"} \X {"remove", "rename"}}
=============================================================================
