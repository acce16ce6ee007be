---------------------------- MODULE StdioServer ----------------------------
(***************************************************************************)
(* aetheris_stdio_server behind its two pipes: it prints one line for      *)
(* every line it reads, in order, whatever the request (an error is a line *)
(* too), and leaves after quit or at the end of its input.  A line names   *)
(* the call it belongs to; the program's lines do not.                     *)
(***************************************************************************)
EXTENDS Naturals, Sequences, FiniteSets, SequencesExt

CONSTANTS
    Requests,       \* calls of ping, version and session_snapshot
    Quit,           \* the call of quit
    MaxProcesses,   \* bound on the server processes started
    MaxCrashes      \* bound on those that crash or cannot be started

Calls == Requests \cup {Quit}

(* The states of a call, and "free" of a lock, are no calls.               *)
ASSUME ServerAssumption ==
    /\ Quit \notin Requests /\ MaxProcesses \in Nat \ {0} /\ MaxCrashes \in Nat
    /\ Calls \cap {"unasked", "waiting", "pending", "failed", "free"} = {}

Processes == 1..MaxProcesses

VARIABLES
    process,    \* the state of every server process
    stdin,      \* lines written to a process and not yet read by it
    eof,        \* processes whose stdin was closed
    stdout,     \* lines printed by a process and not yet read by the client
    result      \* what each call of the client has come to: a state or an answer

server_vars == <<process, stdin, eof, stdout, result>>

ServerInit ==
    /\ process = [p \in Processes |-> "none"]
    /\ stdin = [p \in Processes |-> <<>>]
    /\ eof = {}
    /\ stdout = [p \in Processes |-> <<>>]
    /\ result = [c \in Calls |-> "unasked"]

Answered(c) == result[c] \in Calls
Crashes == Cardinality({p \in Processes : process[p] \in {"crashed", "failed"}})

handle(p) ==
    /\ process[p] = "running" /\ stdin[p] # <<>>
    /\ stdin' = [stdin EXCEPT ![p] = Tail(@)]
    /\ stdout' = [stdout EXCEPT ![p] = Append(@, Head(stdin[p]))]
    /\ process' = [process EXCEPT ![p] = IF Head(stdin[p]) = Quit THEN "leaving" ELSE @]
    /\ UNCHANGED <<eof, result>>

(* Faulty variant: the end of the input is looked at before the input.     *)
Leave_early(p) ==
    /\ process[p] = "leaving" \/ (process[p] = "running" /\ p \in eof)
    /\ process' = [process EXCEPT ![p] = "exited"]
    /\ UNCHANGED <<stdin, eof, stdout, result>>

Leave(p) ==
    /\ process[p] = "leaving" \/ (process[p] = "running" /\ stdin[p] = <<>> /\ p \in eof)
    /\ process' = [process EXCEPT ![p] = "exited"]
    /\ UNCHANGED <<stdin, eof, stdout, result>>

Crash(p) ==
    /\ process[p] \in {"running", "leaving"} /\ Crashes < MaxCrashes
    /\ process' = [process EXCEPT ![p] = "crashed"]
    /\ UNCHANGED <<stdin, eof, stdout, result>>

ServerNext == \E p \in Processes : handle(p) \/ Leave(p) \/ Crash(p)

-----------------------------------------------------------------------------
ServerTypeOK ==
    /\ process \in [Processes -> {"none", "failed", "running", "leaving", "exited", "crashed"}]
    /\ stdin \in [Processes -> Seq(Calls)] /\ stdout \in [Processes -> Seq(Calls)]
    /\ eof \subseteq Processes
    /\ result \in [Calls -> Calls \cup {"unasked", "waiting", "pending", "failed"}]
=============================================================================
