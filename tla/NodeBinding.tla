---------------------------- MODULE NodeBinding ----------------------------
(***************************************************************************)
(* AetherisClient of bindings/node: requests are queued and the lines of   *)
(* the server are handed to them first in, first out.  The queue belongs   *)
(* to the client, not to the process.  The embedding calls what it likes   *)
(* at any time, but awaits close() before it connects again.  A write to a *)
(* process that is gone reaches nobody.                                    *)
(***************************************************************************)
EXTENDS StdioServer

VARIABLES
    proc,       \* the current process, 0 before the first connect
    connected,
    pending,    \* calls whose resolve function is queued
    closing,    \* where close() is: "no", "quit" or "waiting"
    closed      \* processes whose 'close' event was emitted

node_vars == <<proc, connected, pending, closing, closed>>

NodeInit ==
    /\ proc = 0 /\ connected = FALSE /\ pending = <<>>
    /\ closing = "no" /\ closed = {}

connect ==
    /\ ~connected /\ closing = "no" /\ proc < MaxProcesses
    /\ proc' = proc + 1
    /\ connected' = TRUE
    /\ \E s \in {"running"} \cup (IF Crashes < MaxCrashes THEN {"failed"} ELSE {}) :
           process' = [process EXCEPT ![proc + 1] = s]
    /\ UNCHANGED <<stdin, eof, stdout, result, pending, closing, closed>>

(* #request: it refuses at once when the client is not connected.          *)
request(c) ==
    /\ c # Quit /\ result[c] = "unasked"
    /\ IF connected
       THEN /\ pending' = Append(pending, c)
            /\ result' = [result EXCEPT ![c] = "pending"]
            /\ stdin' = IF process[proc] = "running" THEN [stdin EXCEPT ![proc] = Append(@, c)]
                                                     ELSE stdin
       ELSE /\ result' = [result EXCEPT ![c] = "failed"]
            /\ UNCHANGED <<pending, stdin>>
    /\ UNCHANGED <<process, eof, stdout, proc, connected, closing, closed>>

(* The 'line' event.                                                       *)
line(p) ==
    /\ stdout[p] # <<>>
    /\ stdout' = [stdout EXCEPT ![p] = Tail(@)]
    /\ IF pending = <<>>
       THEN UNCHANGED <<pending, result>>
       ELSE /\ pending' = Tail(pending)
            /\ result' = [result EXCEPT ![Head(pending)] = Head(stdout[p])]
    /\ UNCHANGED <<process, stdin, eof, proc, connected, closing, closed>>

(* The 'error' event of a process that could not be started.               *)
process_error(p) ==
    /\ process[p] = "failed"
    /\ process' = [process EXCEPT ![p] = "crashed"]
    /\ pending' = <<>>
    /\ result' = [c \in Calls |-> IF c \in Range(pending) THEN "failed" ELSE result[c]]
    /\ UNCHANGED <<stdin, eof, stdout, proc, connected, closing, closed>>

(* close() up to its first await: the request for quit is refused, because *)
(* the client counts as disconnected already.                              *)
close ==
    /\ connected
    /\ connected' = FALSE
    /\ closing' = "quit"
    /\ UNCHANGED <<server_vars, proc, pending, closed>>

close_input ==
    /\ closing = "quit"
    /\ eof' = eof \cup {proc}
    /\ closing' = "waiting"
    /\ UNCHANGED <<process, stdin, stdout, result, proc, connected, pending, closed>>

(* The 'close' event: the process is gone and its output was read.  One    *)
(* that is emitted before close() listens is missed.                       *)
process_close(p) ==
    /\ process[p] \in {"exited", "crashed"} /\ stdout[p] = <<>> /\ p \notin closed
    /\ closed' = closed \cup {p}
    /\ closing' = IF p = proc /\ closing = "waiting" THEN "no" ELSE closing
    /\ UNCHANGED <<server_vars, proc, connected, pending>>

NodeNext ==
    \/ ServerNext /\ UNCHANGED node_vars
    \/ connect \/ close \/ close_input
    \/ \E c \in Calls : request(c)
    \/ \E p \in Processes : line(p) \/ process_error(p) \/ process_close(p)

-----------------------------------------------------------------------------
NodeTypeOK ==
    /\ proc \in 0..MaxProcesses /\ connected \in BOOLEAN
    /\ pending \in Seq(Requests) /\ closing \in {"no", "quit", "waiting"}
    /\ closed \subseteq Processes

(* A request gets another one's answer only after a server went down with  *)
(* requests open and the client, closed meanwhile, was connected again:    *)
(* the queue is not emptied.                                               *)
NodeAnswers ==
    \A c \in Calls : Answered(c) /\ result[c] # c => \E p \in 1..(proc - 1) : process[p] = "crashed"

(* close() ends after every answer, although quit is never sent.           *)
CloseDrains ==
    ~connected /\ closing = "no" /\ (\A p \in Processes : process[p] # "crashed") => pending = <<>>
=============================================================================
