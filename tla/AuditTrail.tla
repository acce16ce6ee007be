----------------------------- MODULE AuditTrail -----------------------------
(***************************************************************************)
(* Decisions recorded through an AuditChainBuilder into a MemoryAuditSink, *)
(* and what verify_audit_chain can then tell.  The builder and the sink    *)
(* are separate objects: a caller may hand a node over late, twice or not  *)
(* at all.  Alter stands for any later change of the stored trail, the     *)
(* mutations ADR-0005 wants verification to notice.                        *)
(***************************************************************************)
EXTENDS AuditChain

CONSTANTS MaxNodes, MaxAlterations

ASSUME TrailAssumption == MaxNodes \in Nat /\ MaxAlterations \in Nat

VARIABLES
    trail_builder,  \* the AuditChainBuilder
    produced,       \* every node it has returned
    nodes,          \* MemoryAuditSink::nodes_
    altered         \* number of changes made to the stored trail

trail_vars == <<trail_builder, produced, nodes, altered>>

TrailInit ==
    /\ trail_builder = new_builder
    /\ produced = <<>>
    /\ nodes = <<>>
    /\ altered = 0

Build(record) ==
    /\ Len(produced) < MaxNodes
    /\ produced' = Append(produced, built_node(trail_builder, record))
    /\ trail_builder' = advanced(trail_builder, record)
    /\ UNCHANGED <<nodes, altered>>

(* MemoryAuditSink::append refuses a sequence number that is not larger    *)
(* than the last one; a gap is accepted.                                   *)
accepts(stored, node) ==
    stored # <<>> => node.sequence_number > stored[Len(stored)].sequence_number

Deliver(k) ==
    /\ altered = 0
    /\ accepts(nodes, produced[k])
    /\ nodes' = Append(nodes, produced[k])
    /\ UNCHANGED <<trail_builder, produced, altered>>

(* One field of one stored node takes a value it could have elsewhere, or  *)
(* the tail from a node on is cut off.                                     *)
Hashes == {chain_hash_genesis} \cup {produced[k].chain_hash : k \in DOMAIN produced}

Alterations(k) ==
    {[nodes EXCEPT ![k].record = r] : r \in Records}
    \cup {[nodes EXCEPT ![k].record = r, ![k].record_hash = compute_record_hash(r)] :
             r \in Records}
    \cup {[nodes EXCEPT ![k].sequence_number = q] : q \in 0..MaxNodes}
    \cup {[nodes EXCEPT ![k].prev_chain_hash = h] : h \in Hashes}
    \cup {[nodes EXCEPT ![k].chain_hash =
               compute_chain_hash(nodes[k].record_hash, nodes[k].prev_chain_hash)]}
    \cup {SubSeq(nodes, 1, k - 1)}
    \cup {SubSeq(nodes, 1, k - 1) \o SubSeq(nodes, k + 1, Len(nodes))}

Alter(k) ==
    /\ altered < MaxAlterations
    /\ nodes' \in Alterations(k) \ {nodes}
    /\ altered' = altered + 1
    /\ UNCHANGED <<trail_builder, produced>>

TrailNext ==
    \/ \E r \in Records : Build(r)
    \/ \E k \in DOMAIN produced : Deliver(k)
    \/ \E k \in DOMAIN nodes : Alter(k)

-----------------------------------------------------------------------------
IsPrefixOf(s, t) == Len(s) <= Len(t) /\ s = SubSeq(t, 1, Len(s))

(* The builder's own chain verifies, and the counters stay in range.       *)
TrailTypeOK ==
    /\ trail_builder.next_sequence = Len(produced)
    /\ produced # <<>> => trail_builder.prev_chain_hash = produced[Len(produced)].chain_hash
    /\ verify_audit_chain(produced)
    /\ altered \in 0..MaxAlterations

(* As delivered, a trail verifies exactly when no node before its last one *)
(* is missing: the gaps MemoryAuditSink lets through are found here.       *)
GapsAreFound ==
    altered = 0 => (verify_audit_chain(nodes) <=> IsPrefixOf(nodes, produced))

(* The builder is in order, and gaps do not go unnoticed.                  *)
TrailInv == TrailTypeOK /\ GapsAreFound

(* ADR-0005, "Any mutation anywhere in the chain breaks verification": one *)
(* change to a stored trail fails verification or leaves the original      *)
(* trail up to some node.                                                  *)
OneChangeIsFound ==
    altered = 1 /\ verify_audit_chain(nodes) => IsPrefixOf(nodes, produced)

(* However often the trail was changed, one that verifies and ends in the  *)
(* builder's current_chain_hash() is the original trail.                   *)
HeadBindsTrail ==
    /\ verify_audit_chain(nodes)
    /\ nodes # <<>> /\ nodes[Len(nodes)].chain_hash = trail_builder.prev_chain_hash
    => nodes = produced
=============================================================================
