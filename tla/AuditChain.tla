----------------------------- MODULE AuditChain -----------------------------
(***************************************************************************)
(* The hash chain of infrastructure/audit_chain.cpp.  SHA-256 is modelled  *)
(* by the term it is applied to: equal hashes mean equal inputs.  For a    *)
(* record this also takes the canonical bytes to be injective, which holds *)
(* while no field contains a raw newline (the comment in                   *)
(* canonical_record_bytes); records are then just members of Records.      *)
(***************************************************************************)
EXTENDS Naturals, Sequences

CONSTANT Records

chain_hash_genesis == <<>>

compute_record_hash(record) == <<"record", record>>

compute_chain_hash(record_hash, prev_chain_hash) == <<record_hash, prev_chain_hash>>

(* AuditChainBuilder: its initial value, the node that append() returns    *)
(* and the builder it leaves behind.                                       *)
new_builder == [next_sequence |-> 0, prev_chain_hash |-> chain_hash_genesis]

built_node(b, record) ==
    [sequence_number |-> b.next_sequence,
     record          |-> record,
     record_hash     |-> compute_record_hash(record),
     chain_hash      |-> compute_chain_hash(compute_record_hash(record), b.prev_chain_hash),
     prev_chain_hash |-> b.prev_chain_hash]

(* Faulty variant: the sequence number skips one.                          *)
advanced_twice(b, record) ==
    [next_sequence   |-> b.next_sequence + 2,
     prev_chain_hash |-> built_node(b, record).chain_hash]

advanced(b, record) ==
    [next_sequence   |-> b.next_sequence + 1,
     prev_chain_hash |-> built_node(b, record).chain_hash]

(* Faulty variants: each node on its own; contents not hashed again; links *)
(* compared without hashing the node again.                                *)
verify_each_node(nodes) ==
    \A i \in DOMAIN nodes :
        /\ nodes[i].record_hash = compute_record_hash(nodes[i].record)
        /\ nodes[i].chain_hash =
               compute_chain_hash(nodes[i].record_hash, nodes[i].prev_chain_hash)

verify_hashes_only(nodes) ==
    \A i \in DOMAIN nodes :
        /\ nodes[i].sequence_number = i - 1
        /\ nodes[i].prev_chain_hash =
               IF i = 1 THEN chain_hash_genesis ELSE nodes[i - 1].chain_hash
        /\ nodes[i].chain_hash =
               compute_chain_hash(nodes[i].record_hash, nodes[i].prev_chain_hash)

verify_links_only(nodes) ==
    \A i \in DOMAIN nodes :
        /\ nodes[i].sequence_number = i - 1
        /\ nodes[i].prev_chain_hash =
               IF i = 1 THEN chain_hash_genesis ELSE nodes[i - 1].chain_hash
        /\ nodes[i].record_hash = compute_record_hash(nodes[i].record)

verify_audit_chain(nodes) ==
    \A i \in DOMAIN nodes :
        /\ nodes[i].sequence_number = i - 1
        /\ nodes[i].prev_chain_hash =
               IF i = 1 THEN chain_hash_genesis ELSE nodes[i - 1].chain_hash
        /\ nodes[i].record_hash = compute_record_hash(nodes[i].record)
        /\ nodes[i].chain_hash =
               compute_chain_hash(nodes[i].record_hash, nodes[i].prev_chain_hash)
=============================================================================
