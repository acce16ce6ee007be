----------------------------- MODULE AuditSinks -----------------------------
(***************************************************************************)
(* A process records its decisions in one of the two implementations of    *)
(* AuditSinkPort, the one in memory or the file.                           *)
(***************************************************************************)
EXTENDS AuditTrail, AuditLog

VARIABLE sink  \* which of the two it is

SinkInit == TrailInit /\ Init /\ sink \in {"memory", "file"}

Memory == sink = "memory" /\ TrailNext /\ UNCHANGED <<sink, vars>>
File == sink = "file" /\ Next /\ UNCHANGED <<sink, trail_vars>>

SinkNext == Memory \/ File

SinkSpec == SinkInit /\ [][SinkNext]_<<sink, trail_vars, vars>>
=============================================================================
