------------------------------ MODULE AuditLog ------------------------------
(***************************************************************************)
(* A process that records decisions through an AuditChainBuilder and a     *)
(* FileAuditSink, the file it leaves behind and the audit-verify tool that *)
(* reads it.  append() is several system calls: write() until the whole    *)
(* line is out, then fsync(); each can fail, and the process can crash     *)
(* between any two of them.                                                *)
(*                                                                         *)
(* The file is a sequence of fragments, one per attempt to write a line: a *)
(* "part" of the JSON text, "all" of it without the newline, or the whole  *)
(* "line".  O_APPEND puts every new fragment behind the last one, so a     *)
(* fragment that does not end in a newline runs into its successor.        *)
(***************************************************************************)
EXTENDS AuditChain, FiniteSets

CONSTANTS
    MaxRestarts,        \* bound on restarts after a crash
    MaxFailures,        \* bound on write() and fsync() calls that fail
    Retries,            \* a caller hands a refused node to append() again
    Opened              \* what the fd_ of a newly opened sink can refer to

ASSUME LogAssumption ==
    /\ MaxRestarts \in Nat
    /\ MaxFailures \in Nat
    /\ Retries \in BOOLEAN
    /\ Opened \subseteq {"none", "file"}

VARIABLES
    file,      \* the fragments of the audit file
    synced,    \* how many of them are on stable storage
    fd,        \* what fd_ refers to: "none", the "file" or an "other" file
    builder,   \* the AuditChainBuilder
    pc,        \* "idle", "write", "sync", "failed" or "down"
    node,      \* the node append() was last called with, or <<>>
    acked,     \* the nodes append() has returned Ok for
    elsewhere, \* history: the nodes written to another file
    built,     \* every node built so far, with the run of the process it is of
    restarts,
    failures

vars == <<file, synced, fd, builder, pc, node, acked, elsewhere, built, restarts, failures>>

Written == {"part", "all", "line"}

Longer(from) ==
    CASE from = "part" -> {"all", "line"} [] from = "all" -> {"line"} [] from = "line" -> {}

(* FileAuditSink::open returns a local object by value through Result<>,   *)
(* so it is moved.  The defaulted move constructor copies fd_, and the     *)
(* destructor of the moved-from object closes that same descriptor: as the *)
(* code stands, Opened is {"none"}.  "file" is the sink whose descriptor   *)
(* was still open, for what append() is worth apart from that defect.      *)
Init ==
    /\ file = <<>> /\ synced = 0
    /\ fd \in Opened
    /\ builder = new_builder
    /\ pc = "idle" /\ node = <<>>
    /\ acked = {} /\ elsewhere = {} /\ built = {}
    /\ restarts = 0 /\ failures = 0

-----------------------------------------------------------------------------
(* A decision is final: its record goes into the chain, and append() is    *)
(* called with the new node, also after an earlier node was refused.       *)
Decide(record) ==
    /\ pc \in {"idle", "failed"}
    /\ \A b \in built : b.node.record # record
    /\ node' = built_node(builder, record)
    /\ built' = built \cup {[node |-> node', run |-> restarts]}
    /\ builder' = advanced(builder, record)
    /\ pc' = "write"
    /\ UNCHANGED <<file, synced, fd, acked, elsewhere, restarts, failures>>

Retry ==
    /\ Retries
    /\ pc = "failed"
    /\ pc' = "write"
    /\ UNCHANGED <<file, synced, fd, builder, node, acked, elsewhere, built, restarts, failures>>

(* The file after a write() of the call in progress has returned a count:  *)
(* one more fragment, or more of the one the call has begun.               *)
Begun == file # <<>> /\ file[Len(file)].by = "this"

serialize_audit_node_json(n, w) == [node |-> n, written |-> w, by |-> "this"]

WriteOutcomes ==
    IF Begun
    THEN {[file EXCEPT ![Len(file)].written = w] : w \in Longer(file[Len(file)].written)}
    ELSE {Append(file, serialize_audit_node_json(node, w)) : w \in Written}

(* The call is over: its fragment, if there is one, stays as it is.        *)
Ended(f) == [k \in DOMAIN f |-> [f[k] EXCEPT !.by = "past"]]

(* Faulty variant: the newline is not waited for.                          *)
WriteShort ==
    /\ pc = "write" /\ fd = "file"
    /\ file' \in WriteOutcomes
    /\ pc' = IF file'[Len(file')].written = "part" THEN "write" ELSE "sync"
    /\ UNCHANGED <<synced, fd, builder, node, acked, elsewhere, built, restarts, failures>>

Write ==
    /\ pc = "write" /\ fd = "file"
    /\ file' \in WriteOutcomes
    /\ pc' = IF file'[Len(file')].written = "line" THEN "sync" ELSE "write"
    /\ UNCHANGED <<synced, fd, builder, node, acked, elsewhere, built, restarts, failures>>

(* The descriptor number now belongs to another open file of the process.  *)
WriteElsewhere ==
    /\ pc = "write" /\ fd = "other"
    /\ elsewhere' = elsewhere \cup {node}
    /\ pc' = "sync"
    /\ UNCHANGED <<file, synced, fd, builder, node, acked, built, restarts, failures>>

Fails == failures < MaxFailures /\ failures' = failures + 1

WriteFails ==
    /\ pc = "write"
    /\ IF fd = "none" THEN UNCHANGED failures ELSE Fails
    /\ file' = Ended(file)
    /\ pc' = "failed"
    /\ UNCHANGED <<synced, fd, builder, node, acked, elsewhere, built, restarts>>

(* Faulty variant: Ok is returned without fsync().                         *)
SyncSkipped ==
    /\ pc = "sync"
    /\ file' = Ended(file)
    /\ acked' = acked \cup {node}
    /\ pc' = "idle"
    /\ UNCHANGED <<synced, fd, builder, node, elsewhere, built, restarts, failures>>

Sync ==
    /\ pc = "sync"
    /\ synced' = IF fd = "file" THEN Len(file) ELSE synced
    /\ file' = Ended(file)
    /\ acked' = acked \cup {node}
    /\ pc' = "idle"
    /\ UNCHANGED <<fd, builder, node, elsewhere, built, restarts, failures>>

SyncFails ==
    /\ pc = "sync"
    /\ Fails
    /\ file' = Ended(file)
    /\ pc' = "failed"
    /\ UNCHANGED <<synced, fd, builder, node, acked, elsewhere, built, restarts>>

(* Some other part of the process opens a file and gets the free number.   *)
OtherOpen ==
    /\ pc # "down" /\ fd = "none"
    /\ fd' = "other"
    /\ UNCHANGED <<file, synced, builder, pc, node, acked, elsewhere, built, restarts, failures>>

(* What is not synced may be lost, from any byte on.                       *)
Survivors ==
    {SubSeq(file, 1, n) : n \in synced..Len(file)}
    \cup UNION {{[SubSeq(file, 1, n) EXCEPT ![n].written = w] :
                    w \in {x \in Written : file[n].written \in Longer(x)}} :
                n \in (synced + 1)..Len(file)}

Crash ==
    /\ pc # "down"
    /\ \E f \in Survivors : file' = Ended(f) /\ synced' = Len(f)
    /\ pc' = "down"
    /\ fd' = "none" /\ node' = <<>>
    /\ UNCHANGED <<builder, acked, elsewhere, built, restarts, failures>>

(* Faulty variant: the file is opened with O_TRUNC.                        *)
RestartTruncating ==
    /\ pc = "down" /\ restarts < MaxRestarts
    /\ restarts' = restarts + 1
    /\ fd' \in Opened
    /\ builder' = new_builder
    /\ pc' = "idle"
    /\ file' = <<>> /\ synced' = 0
    /\ UNCHANGED <<node, acked, elsewhere, built, failures>>

(* A builder can only be default-constructed: the new process starts its   *)
(* chain from genesis, in the file that already holds the old one.         *)
Restart ==
    /\ pc = "down" /\ restarts < MaxRestarts
    /\ restarts' = restarts + 1
    /\ fd' \in Opened
    /\ builder' = new_builder
    /\ pc' = "idle"
    /\ UNCHANGED <<file, synced, node, acked, elsewhere, built, failures>>

Next ==
    \/ \E r \in Records : Decide(r)
    \/ Retry \/ Write \/ WriteElsewhere \/ WriteFails \/ Sync \/ SyncFails
    \/ OtherOpen \/ Crash \/ Restart

Spec == Init /\ [][Next]_vars

-----------------------------------------------------------------------------
(* What audit-verify makes of the file: a line parses when it is one whole *)
(* JSON text; only the last may lack its newline.                          *)
parse_audit_nodes(f) ==
    \A k \in DOMAIN f : f[k].written = "line" \/ (k = Len(f) /\ f[k].written = "all")

verify_stream(f) ==
    parse_audit_nodes(f) /\ verify_audit_chain([k \in DOMAIN f |-> f[k].node])

(* The line that a reader gets for fragment k alone.                       *)
Readable(f, k) == f[k].written = "line" /\ (k = 1 \/ f[k - 1].written = "line")

-----------------------------------------------------------------------------
TypeOK ==
    /\ \A k \in DOMAIN file : /\ file[k].written \in Written
                              /\ file[k].by = "this" => k = Len(file) /\ pc \in {"write", "sync"}
                              /\ \E b \in built : b.node = file[k].node
    /\ synced \in 0..Len(file)
    /\ fd \in {"none", "file", "other"}
    /\ pc \in {"idle", "write", "sync", "failed", "down"}
    /\ builder.next_sequence \in 0..Cardinality(built)
    /\ restarts \in 0..MaxRestarts /\ failures \in 0..MaxFailures

OnDisk(n) == \E k \in 1..synced : file[k].node = n /\ file[k].written = "line"

InFile(n) == \E k \in DOMAIN file : file[k].node = n

(* audit_sink_port.hpp:12, "once append() returns Ok, the node survives a  *)
(* crash": it is on stable storage as a complete line.                     *)
AckedOnDisk == \A n \in acked : OnDisk(n)

(* Apart from nodes that went to another file through a descriptor number  *)
(* used again, every acknowledged node is on stable storage as a complete  *)
(* line, whatever failed, was retried or crashed.                          *)
LossNeedsReuse == \A n \in acked \ elsewhere : OnDisk(n)

(* A file audit-verify accepts has no holes: with its last line it has     *)
(* every decision the same run of the process took before, although        *)
(* refused appends, retries, torn lines and restarts can leave any of them *)
(* out or append it twice.                                                 *)
VerifiedIsComplete ==
    verify_stream(file) =>
        \A b \in built, last \in built :
            /\ file # <<>> /\ last.node = file[Len(file)].node
            /\ b.run = last.run
            /\ b.node.sequence_number < last.node.sequence_number
            => InFile(b.node)

(* Every line comes from the builder, and no line that verification would  *)
(* miss is missing.                                                        *)
LogInv == TypeOK /\ VerifiedIsComplete

(* Acknowledged lines are append-only: no later call, error, crash or      *)
(* restart moves, changes or removes what was on stable storage.           *)
SyncedNeverChanges ==
    [][/\ synced' >= synced
       /\ SubSeq(file', 1, synced) = SubSeq(file, 1, synced)]_vars

(* audit.hpp:117, "Sequence numbers are consecutive starting from 0": what *)
(* is in the file, up to a line in progress, verifies.                     *)
FileVerifies ==
    \E f \in {file, SubSeq(file, 1, Len(file) - 1)} : verify_stream(f)

(* One process without write errors leaves, crashed or not, a file that    *)
(* verifies up to a torn last line and in which every acknowledged node is *)
(* a line of its own.                                                      *)
CleanRunIsReadable ==
    restarts = 0 /\ failures = 0 =>
        /\ FileVerifies
        /\ \A n \in acked \ elsewhere :
               \E k \in DOMAIN file : file[k].node = n /\ Readable(file, k)
=============================================================================
