-------------------------- MODULE AuditSinks_proofs --------------------------
(***************************************************************************)
(* What the hash chain and the two audit sinks promise for trails and      *)
(* files of every length, whatever is delivered late, altered, retried,    *)
(* torn or lost.  Two facts about hashes carry the proofs: a chain hash    *)
(* determines the record and the previous chain hash it was computed from, *)
(* and it is never the genesis value.                                      *)
(***************************************************************************)
EXTENDS AuditSinks, SequenceTheorems, FiniteSetTheorems, WellFoundedInduction, TLAPS

-----------------------------------------------------------------------------
(* Natural numbers *)

LEMMA LeastNat ==
    ASSUME NEW T, T \subseteq Nat, T # {}
    PROVE  \E x \in T : \A y \in T : x <= y
<1>1. PICK x \in T : \A y \in T : ~(<<y, x>> \in OpToRel(<, Nat))
  BY NatLessThanWellFounded, WFMin
<1>2. \A y \in T : ~(y < x)
  BY <1>1 DEF OpToRel
<1> QED
  BY <1>2

(* Induction for a set of numbers.                                         *)
LEMMA NatInductionSet ==
    ASSUME NEW T, 0 \in T, \A n \in Nat : n \in T => n + 1 \in T
    PROVE  Nat \subseteq T
<1> SUFFICES ASSUME Nat \ T # {} PROVE FALSE
  OBVIOUS
<1>1. PICK x \in Nat \ T : \A y \in Nat \ T : x <= y
  BY LeastNat
<1>2. x # 0 /\ x - 1 \in Nat /\ x - 1 \in T
  BY <1>1
<1> QED
  BY <1>1, <1>2

-----------------------------------------------------------------------------
(* Sequences whose elements are of no type in particular *)

IsSequence(s) == s \in Seq({s[k] : k \in DOMAIN s})

LEMMA SeqIsSequence ==
    ASSUME NEW S, NEW s \in Seq(S)
    PROVE  IsSequence(s)
<1>1. Len(s) \in Nat /\ DOMAIN s = 1..Len(s) /\ s \in [1..Len(s) -> S]
  BY LenProperties
<1> DEFINE R == {s[k] : k \in DOMAIN s}
<1>2. s \in [1..Len(s) -> R]
  BY <1>1
<1>3. s \in Seq(R)
  BY <1>1, <1>2, SeqDef
<1> QED
  BY <1>3 DEF IsSequence

LEMMA SequenceDomain ==
    ASSUME NEW s, IsSequence(s)
    PROVE  Len(s) \in Nat /\ DOMAIN s = 1..Len(s) /\ (s = <<>> <=> Len(s) = 0)
<1>1. s \in Seq({s[k] : k \in DOMAIN s})
  BY DEF IsSequence
<1> QED
  BY <1>1, LenProperties, EmptySeq

LEMMA AppendSequence ==
    ASSUME NEW s, IsSequence(s), NEW e
    PROVE  /\ IsSequence(Append(s, e)) /\ Len(Append(s, e)) = Len(s) + 1
           /\ Append(s, e)[Len(s) + 1] = e /\ Append(s, e) # <<>>
           /\ \A k \in 1..Len(s) : Append(s, e)[k] = s[k]
<1> DEFINE S == {s[k] : k \in DOMAIN s} \cup {e}
<1>1. s \in Seq(S)
  BY SeqMonotonic DEF IsSequence
<1>2. e \in S
  OBVIOUS
<1> HIDE DEF S
<1>3. /\ Append(s, e) \in Seq(S) /\ Append(s, e) # <<>> /\ Len(Append(s, e)) = Len(s) + 1
      /\ \A k \in 1..Len(s) : Append(s, e)[k] = s[k] /\ Append(s, e)[Len(s) + 1] = e
  BY <1>1, <1>2, AppendProperties
<1>4. Append(s, e)[Len(s) + 1] = e
  BY <1>1, <1>2, AppendProperties
<1> QED
  BY <1>3, <1>4, SeqIsSequence

LEMMA ExceptSequence ==
    ASSUME NEW s, IsSequence(s), NEW i \in DOMAIN s, NEW e
    PROVE  /\ IsSequence([s EXCEPT ![i] = e]) /\ Len([s EXCEPT ![i] = e]) = Len(s)
           /\ [s EXCEPT ![i] = e][i] = e
           /\ \A k \in DOMAIN s \ {i} : [s EXCEPT ![i] = e][k] = s[k]
<1> DEFINE S == {s[k] : k \in DOMAIN s} \cup {e}
<1>1. s \in Seq(S)
  BY SeqMonotonic DEF IsSequence
<1>2. e \in S /\ i \in 1..Len(s)
  BY SequenceDomain
<1> HIDE DEF S
<1>3. /\ [s EXCEPT ![i] = e] \in Seq(S) /\ Len([s EXCEPT ![i] = e]) = Len(s)
  BY <1>1, <1>2, ExceptSeq
<1>4. IsSequence([s EXCEPT ![i] = e])
  BY <1>3, SeqIsSequence
<1> QED
  BY <1>3, <1>4

LEMMA PrefixSequence ==
    ASSUME NEW s, IsSequence(s), NEW n \in 0..Len(s)
    PROVE  /\ IsSequence(SubSeq(s, 1, n)) /\ Len(SubSeq(s, 1, n)) = n
           /\ \A k \in 1..n : SubSeq(s, 1, n)[k] = s[k]
<1> DEFINE S == {s[k] : k \in DOMAIN s}
<1>1. s \in Seq(S) /\ Len(s) \in Nat
  BY SequenceDomain DEF IsSequence
<1>2. \A i \in 1..n : s[i] \in S
  BY SequenceDomain
<1> HIDE DEF S
<1>3. /\ SubSeq(s, 1, n) \in Seq(S) /\ Len(SubSeq(s, 1, n)) = n
      /\ \A k \in 1..n : SubSeq(s, 1, n)[k] = s[k]
  BY <1>1, <1>2
<1> QED
  BY <1>3, SeqIsSequence

LEMMA SequencesEqual ==
    ASSUME NEW s, IsSequence(s), NEW t, IsSequence(t), Len(s) = Len(t),
           \A k \in 1..Len(s) : s[k] = t[k]
    PROVE  s = t
<1> DEFINE S == {s[k] : k \in DOMAIN s} \cup {t[k] : k \in DOMAIN t}
<1>1. s \in Seq(S) /\ t \in Seq(S)
  BY SeqMonotonic DEF IsSequence
<1> HIDE DEF S
<1> QED
  BY <1>1, SeqEqual

LEMMA MappedSequence ==
    ASSUME NEW s, IsSequence(s), NEW f, DOMAIN f = DOMAIN s, f = [k \in DOMAIN s |-> f[k]]
    PROVE  IsSequence(f) /\ Len(f) = Len(s)
<1> DEFINE S == {f[k] : k \in DOMAIN f}
<1>1. Len(s) \in Nat /\ DOMAIN f = 1..Len(s)
  BY SequenceDomain
<1>2. f \in [1..Len(s) -> S]
  BY <1>1
<1> HIDE DEF S
<1>3. f \in Seq(S)
  BY <1>1, <1>2, SeqDef
<1>4. Len(f) \in Nat /\ DOMAIN f = 1..Len(f)
  BY <1>3, LenProperties
<1>5. Len(f) = Len(s)
  BY <1>1, <1>4
<1> QED
  BY <1>3, <1>5, SeqIsSequence

-----------------------------------------------------------------------------
(* Chains *)

IsNode(n) ==
    n = [sequence_number |-> n.sequence_number, record |-> n.record,
         record_hash |-> n.record_hash, chain_hash |-> n.chain_hash,
         prev_chain_hash |-> n.prev_chain_hash]

IsTrail(s) == IsSequence(s) /\ \A k \in DOMAIN s : IsNode(s[k])

(* What verification asks of the node at k, whatever precedes it.          *)
Hashed(n) ==
    /\ n.record_hash = compute_record_hash(n.record)
    /\ n.chain_hash = compute_chain_hash(n.record_hash, n.prev_chain_hash)

LEMMA HashInjective ==
    /\ \A a, b, c, d : compute_chain_hash(a, b) = compute_chain_hash(c, d) => a = c /\ b = d
    /\ \A a, b : compute_chain_hash(a, b) # chain_hash_genesis
    /\ \A a, b : compute_record_hash(a) = compute_record_hash(b) => a = b
<1>1. \A a, b, c, d : compute_chain_hash(a, b) = compute_chain_hash(c, d) => a = c /\ b = d
  BY DEF compute_chain_hash
<1>2. \A a, b : compute_chain_hash(a, b) # chain_hash_genesis
  BY DEF compute_chain_hash, chain_hash_genesis
<1>3. \A a, b : compute_record_hash(a) = compute_record_hash(b) => a = b
  BY DEF compute_record_hash
<1> QED
  BY <1>1, <1>2, <1>3

(* Equal chain hashes of nodes that verify bind all of the two nodes but   *)
(* their sequence numbers.                                                 *)
LEMMA ChainHashBinds ==
    ASSUME NEW m, NEW n, Hashed(m), Hashed(n), m.chain_hash = n.chain_hash
    PROVE  /\ m.record = n.record /\ m.record_hash = n.record_hash
           /\ m.prev_chain_hash = n.prev_chain_hash
<1>1. compute_chain_hash(m.record_hash, m.prev_chain_hash)
          = compute_chain_hash(n.record_hash, n.prev_chain_hash)
  BY DEF Hashed
<1>2. m.record_hash = n.record_hash /\ m.prev_chain_hash = n.prev_chain_hash
  BY <1>1, HashInjective
<1>3. compute_record_hash(m.record) = compute_record_hash(n.record)
  BY <1>2 DEF Hashed
<1> QED
  BY <1>2, <1>3, HashInjective

LEMMA VerifiedNode ==
    ASSUME NEW s, IsTrail(s), verify_audit_chain(s), NEW k \in DOMAIN s
    PROVE  /\ k \in Nat /\ k >= 1 /\ k <= Len(s)
           /\ Hashed(s[k]) /\ IsNode(s[k]) /\ s[k].sequence_number = k - 1
           /\ k = 1 => s[k].prev_chain_hash = chain_hash_genesis
           /\ k # 1 => k - 1 \in DOMAIN s /\ s[k].prev_chain_hash = s[k - 1].chain_hash
           /\ s[k].chain_hash # chain_hash_genesis
<1>1. Len(s) \in Nat /\ DOMAIN s = 1..Len(s)
  BY SequenceDomain DEF IsTrail
<1>2. Hashed(s[k])
  BY DEF verify_audit_chain, Hashed
<1>3. s[k].chain_hash # chain_hash_genesis
  BY <1>2, HashInjective DEF Hashed
<1> QED
  BY <1>1, <1>2, <1>3 DEF verify_audit_chain, IsTrail

LEMMA LinkBinds ==
    ASSUME NEW s, IsTrail(s), verify_audit_chain(s), NEW j \in DOMAIN s,
           NEW t, IsTrail(t), verify_audit_chain(t), NEW k \in DOMAIN t,
           s[j].chain_hash = t[k].chain_hash
    PROVE  /\ j # 1 /\ k # 1 => s[j - 1].chain_hash = t[k - 1].chain_hash
           /\ j = 1 => k = 1
<1>1. /\ Hashed(s[j])
      /\ j = 1 => s[j].prev_chain_hash = chain_hash_genesis
      /\ j # 1 => s[j].prev_chain_hash = s[j - 1].chain_hash
  BY VerifiedNode
<1>2. /\ Hashed(t[k])
      /\ k # 1 => k - 1 \in DOMAIN t /\ t[k].prev_chain_hash = t[k - 1].chain_hash
  BY VerifiedNode
<1>3. k # 1 => t[k - 1].chain_hash # chain_hash_genesis
  BY <1>2, VerifiedNode
<1>4. s[j].prev_chain_hash = t[k].prev_chain_hash
  BY <1>1, <1>2, ChainHashBinds
<1> QED
  BY <1>1, <1>2, <1>3, <1>4

LEMMA FirstBinds ==
    ASSUME NEW s, IsTrail(s), verify_audit_chain(s), 1 \in DOMAIN s,
           NEW t, IsTrail(t), verify_audit_chain(t), NEW k \in DOMAIN t,
           s[1].chain_hash = t[k].chain_hash
    PROVE  k = 1
<1>1. PICK j \in DOMAIN s : j = 1
  OBVIOUS
<1>2. s[j].chain_hash = t[k].chain_hash
  BY <1>1
<1> QED
  BY <1>1, <1>2, LinkBinds

(* Two verified chains that end in the same hash are the same chain: hash  *)
(* by hash backwards from the last, they agree, and neither begins before  *)
(* the other.                                                              *)
LEMMA HeadBinds ==
    ASSUME NEW s, IsTrail(s), verify_audit_chain(s), s # <<>>,
           NEW t, IsTrail(t), verify_audit_chain(t), t # <<>>,
           s[Len(s)].chain_hash = t[Len(t)].chain_hash
    PROVE  s = t
<1>1. PICK m \in Nat, n \in Nat : /\ m = Len(s) /\ m # 0 /\ DOMAIN s = 1..m
                                  /\ n = Len(t) /\ n # 0 /\ DOMAIN t = 1..n
  BY SequenceDomain DEF IsTrail
<1> DEFINE T == {i \in Nat : i < m /\ i < n => s[m - i].chain_hash = t[n - i].chain_hash}
<1>2. 0 \in T
  BY <1>1
<1>3. ASSUME NEW i \in Nat, i \in T PROVE i + 1 \in T
  <2> SUFFICES ASSUME i + 1 < m, i + 1 < n
               PROVE  s[m - (i + 1)].chain_hash = t[n - (i + 1)].chain_hash
    OBVIOUS
  <2>1. PICK j \in DOMAIN s, k \in DOMAIN t : j = m - i /\ k = n - i
    BY <1>1
  <2>2. s[j].chain_hash = t[k].chain_hash
    BY <1>1, <1>3, <2>1
  <2>3. j # 1 /\ k # 1 /\ j - 1 = m - (i + 1) /\ k - 1 = n - (i + 1)
    BY <1>1, <2>1
  <2>4. s[j - 1].chain_hash = t[k - 1].chain_hash
    BY <2>2, <2>3, LinkBinds
  <2> QED
    BY <2>3, <2>4
<1>4. Nat \subseteq T
  <2> HIDE DEF T
  <2> QED
    BY <1>2, <1>3, NatInductionSet
<1>5. ASSUME NEW i \in Nat, i < m, i < n PROVE s[m - i].chain_hash = t[n - i].chain_hash
  BY <1>4, <1>5
<1>6. ~(m < n)
  <2> SUFFICES ASSUME m < n PROVE FALSE
    OBVIOUS
  <2>1. m - 1 \in Nat /\ m - 1 < m /\ m - 1 < n /\ m - (m - 1) = 1
    BY <1>1
  <2>2. PICK k \in DOMAIN t : k = n - (m - 1) /\ k # 1
    BY <1>1
  <2>3. 1 \in DOMAIN s /\ s[1].chain_hash = t[k].chain_hash
    BY <1>1, <1>5, <2>1, <2>2
  <2>4. k = 1
    BY <2>3, FirstBinds
  <2> QED
    BY <2>2, <2>4
<1>7. ~(n < m)
  <2> SUFFICES ASSUME n < m PROVE FALSE
    OBVIOUS
  <2>1. n - 1 \in Nat /\ n - 1 < m /\ n - 1 < n /\ n - (n - 1) = 1
    BY <1>1
  <2>2. PICK k \in DOMAIN s : k = m - (n - 1) /\ k # 1
    BY <1>1
  <2>3. 1 \in DOMAIN t /\ t[1].chain_hash = s[k].chain_hash
    BY <1>1, <1>5, <2>1, <2>2
  <2>4. k = 1
    BY <2>3, FirstBinds
  <2> QED
    BY <2>2, <2>4
<1>8. m = n
  BY <1>1, <1>6, <1>7
<1>9. ASSUME NEW k \in 1..m PROVE s[k] = t[k]
  <2>1. m - k \in Nat /\ m - k < m /\ m - k < n /\ m - (m - k) = k /\ n - (m - k) = k
    BY <1>1, <1>8
  <2>2. s[k].chain_hash = t[k].chain_hash
    BY <1>5, <2>1
  <2>3. k \in DOMAIN s /\ k \in DOMAIN t
    BY <1>1, <1>8
  <2>4. Hashed(s[k]) /\ IsNode(s[k]) /\ s[k].sequence_number = k - 1
    BY <2>3, VerifiedNode
  <2>5. Hashed(t[k]) /\ IsNode(t[k]) /\ t[k].sequence_number = k - 1
    BY <2>3, VerifiedNode
  <2>6. /\ s[k].record = t[k].record /\ s[k].record_hash = t[k].record_hash
        /\ s[k].prev_chain_hash = t[k].prev_chain_hash
    BY <2>2, <2>4, <2>5, ChainHashBinds
  <2> QED
    BY <2>2, <2>4, <2>5, <2>6 DEF IsNode
<1>10. IsSequence(s) /\ IsSequence(t) /\ Len(s) = Len(t) /\ \A k \in 1..Len(s) : s[k] = t[k]
  BY <1>1, <1>8, <1>9 DEF IsTrail
<1> HIDE DEF T
<1> QED
  BY <1>10, SequencesEqual

-----------------------------------------------------------------------------
(* The trail in memory *)

(* Every element of s is a node the builder produced.                      *)
Delivered(s) == \A j \in DOMAIN s : \E i \in DOMAIN produced : s[j] = produced[i]

(* The builder's chain verifies, and no two of its nodes hash alike.       *)
BuilderSound ==
    /\ IsTrail(produced) /\ verify_audit_chain(produced)
    /\ trail_builder.next_sequence = Len(produced)
    /\ trail_builder.prev_chain_hash =
           IF produced = <<>> THEN chain_hash_genesis ELSE produced[Len(produced)].chain_hash
    /\ \A i, j \in DOMAIN produced : produced[i].chain_hash = produced[j].chain_hash => i = j

(* The inductive invariant of the trail.                                   *)
TrailSound ==
    /\ BuilderSound
    /\ IsTrail(nodes)
    /\ altered \in 0..MaxAlterations
    /\ altered = 0 => Delivered(nodes)
    /\ OneChangeIsFound

LEMMA TrailDomain ==
    ASSUME NEW s, IsTrail(s)
    PROVE  IsSequence(s) /\ Len(s) \in Nat /\ DOMAIN s = 1..Len(s) /\ (s = <<>> <=> Len(s) = 0)
BY SequenceDomain DEF IsTrail

(* A prefix of a trail has its nodes, and verifies with it.                *)
LEMMA PrefixVerifies ==
    ASSUME NEW s, NEW t, IsTrail(t), verify_audit_chain(t), IsSequence(s), IsPrefixOf(s, t)
    PROVE  verify_audit_chain(s) /\ \A j \in DOMAIN s : s[j] = t[j]
<1>1. /\ Len(s) \in Nat /\ DOMAIN s = 1..Len(s) /\ Len(s) <= Len(t) /\ Len(t) \in Nat
      /\ DOMAIN t = 1..Len(t) /\ s = SubSeq(t, 1, Len(s)) /\ IsSequence(t)
  BY SequenceDomain, TrailDomain DEF IsPrefixOf
<1>2. \A j \in 1..Len(s) : SubSeq(t, 1, Len(s))[j] = t[j]
  BY <1>1, PrefixSequence
<1>3. \A j \in DOMAIN s : s[j] = t[j]
  BY <1>1, <1>2
<1> QED
  BY <1>1, <1>3 DEF verify_audit_chain

LEMMA AgreeingIsPrefix ==
    ASSUME NEW s, NEW t, IsSequence(s), IsTrail(t), \A j \in DOMAIN s : j \in DOMAIN t /\ s[j] = t[j]
    PROVE  IsPrefixOf(s, t)
<1>1. PICK m \in Nat, n \in Nat : /\ m = Len(s) /\ DOMAIN s = 1..m
                                  /\ n = Len(t) /\ DOMAIN t = 1..n /\ IsSequence(t)
  BY SequenceDomain, TrailDomain
<1>2. m <= n
  BY <1>1
<1>3. /\ IsSequence(SubSeq(t, 1, m)) /\ Len(SubSeq(t, 1, m)) = m
      /\ \A j \in 1..m : SubSeq(t, 1, m)[j] = t[j]
  BY <1>1, <1>2, PrefixSequence
<1>4. s = SubSeq(t, 1, m)
  BY <1>1, <1>3, SequencesEqual
<1> QED
  BY <1>1, <1>2, <1>4 DEF IsPrefixOf

(* Delivered nodes are where their sequence numbers say once they verify.  *)
LEMMA DeliveredInPlace ==
    ASSUME BuilderSound, NEW s, NEW j \in DOMAIN s, NEW i \in DOMAIN produced, s[j] = produced[i],
           j \in Nat, s[j].sequence_number = j - 1
    PROVE  i = j
<1>1. produced[i].sequence_number = i - 1 /\ i \in Nat
  BY VerifiedNode DEF BuilderSound
<1> QED
  BY <1>1

LEMMA DeliveredPrefix ==
    ASSUME BuilderSound, NEW s, IsTrail(s), Delivered(s), verify_audit_chain(s)
    PROVE  IsPrefixOf(s, produced)
<1>1. ASSUME NEW j \in DOMAIN s PROVE j \in DOMAIN produced /\ s[j] = produced[j]
  <2>1. PICK i \in DOMAIN produced : s[j] = produced[i]
    BY DEF Delivered
  <2>2. j \in Nat /\ s[j].sequence_number = j - 1
    BY VerifiedNode
  <2>3. i = j
    BY <2>1, <2>2, DeliveredInPlace
  <2> QED
    BY <2>1, <2>3
<1>2. IsSequence(s) /\ IsTrail(produced)
  BY DEF IsTrail, BuilderSound
<1> QED
  BY <1>1, <1>2, AgreeingIsPrefix

-----------------------------------------------------------------------------
(* Alterations *)

(* One field of a node, or a record and its hash, have changed.            *)
Changed(m, n) ==
    \/ n.chain_hash = m.chain_hash /\ n.sequence_number = m.sequence_number
    \/ /\ n.chain_hash = m.chain_hash /\ n.record_hash = m.record_hash
       /\ n.record = m.record /\ n.prev_chain_hash = m.prev_chain_hash
    \/ /\ n.sequence_number = m.sequence_number /\ n.record_hash = m.record_hash
       /\ n.record = m.record /\ n.prev_chain_hash = m.prev_chain_hash

LEMMA NodeWith ==
    ASSUME NEW m, IsNode(m), NEW v, NEW w
    PROVE  /\ LET n == [m EXCEPT !.record = v] IN IsNode(n) /\ Changed(m, n)
           /\ LET n == [[m EXCEPT !.record = v] EXCEPT !.record_hash = w] IN IsNode(n) /\ Changed(m, n)
           /\ LET n == [m EXCEPT !.sequence_number = v] IN IsNode(n) /\ Changed(m, n)
           /\ LET n == [m EXCEPT !.prev_chain_hash = v] IN IsNode(n) /\ Changed(m, n)
           /\ LET n == [m EXCEPT !.chain_hash = v] IN IsNode(n) /\ Changed(m, n)
<1>1. LET n == [m EXCEPT !.record = v] IN IsNode(n) /\ Changed(m, n)
  BY DEF IsNode, Changed
<1>2. LET n == [[m EXCEPT !.record = v] EXCEPT !.record_hash = w] IN IsNode(n) /\ Changed(m, n)
  <2>1. PICK a : a = [m EXCEPT !.record = v]
    OBVIOUS
  <2>2. IsNode(a) /\ a.chain_hash = m.chain_hash /\ a.sequence_number = m.sequence_number
    BY <2>1 DEF IsNode
  <2>3. PICK n : n = [a EXCEPT !.record_hash = w]
    OBVIOUS
  <2>4. IsNode(n) /\ n.chain_hash = a.chain_hash /\ n.sequence_number = a.sequence_number
    BY <2>2, <2>3 DEF IsNode
  <2>5. [[m EXCEPT !.record = v] EXCEPT !.record_hash = w] = n
    BY <2>1, <2>3
  <2> QED
    BY <2>2, <2>4, <2>5 DEF Changed
<1>3. LET n == [m EXCEPT !.sequence_number = v] IN IsNode(n) /\ Changed(m, n)
  BY DEF IsNode, Changed
<1>4. LET n == [m EXCEPT !.prev_chain_hash = v] IN IsNode(n) /\ Changed(m, n)
  BY DEF IsNode, Changed
<1>5. LET n == [m EXCEPT !.chain_hash = v] IN IsNode(n) /\ Changed(m, n)
  BY DEF IsNode, Changed
<1> QED
  BY <1>1, <1>2, <1>3, <1>4, <1>5

(* The two kinds of alterations: another node at k, or nodes missing.      *)
LEMMA AlterationKinds ==
    ASSUME IsTrail(nodes), NEW k \in DOMAIN nodes, NEW s \in Alterations(k)
    PROVE  \/ \E n : IsNode(n) /\ Changed(nodes[k], n) /\ s = [nodes EXCEPT ![k] = n]
           \/ IsTrail(s) /\ \A j \in DOMAIN s : \E i \in DOMAIN nodes : s[j] = nodes[i]
<1> DEFINE Edited(t) == \E n : IsNode(n) /\ Changed(nodes[k], n) /\ t = [nodes EXCEPT ![k] = n]
<1>1. IsNode(nodes[k]) /\ IsSequence(nodes)
  BY DEF IsTrail
<1>2. ASSUME NEW r PROVE Edited([nodes EXCEPT ![k].record = r])
  BY <1>1, NodeWith
<1>3. ASSUME NEW r, NEW h PROVE Edited([nodes EXCEPT ![k].record = r, ![k].record_hash = h])
  <2>1. [nodes EXCEPT ![k].record = r, ![k].record_hash = h]
            = [nodes EXCEPT ![k] = [[nodes[k] EXCEPT !.record = r] EXCEPT !.record_hash = h]]
    OBVIOUS
  <2> QED
    BY <1>1, <2>1, NodeWith
<1>4. ASSUME NEW q PROVE Edited([nodes EXCEPT ![k].sequence_number = q])
  BY <1>1, NodeWith
<1>5. ASSUME NEW h PROVE Edited([nodes EXCEPT ![k].prev_chain_hash = h])
  BY <1>1, NodeWith
<1>6. ASSUME NEW h PROVE Edited([nodes EXCEPT ![k].chain_hash = h])
  BY <1>1, NodeWith
<1>7. PICK m \in Nat : m = Len(nodes) /\ DOMAIN nodes = 1..m /\ k \in 1..m
  BY TrailDomain
<1>8. /\ IsTrail(SubSeq(nodes, 1, k - 1))
      /\ \A j \in DOMAIN SubSeq(nodes, 1, k - 1) :
             \E i \in DOMAIN nodes : SubSeq(nodes, 1, k - 1)[j] = nodes[i]
  <2>1. /\ IsSequence(SubSeq(nodes, 1, k - 1)) /\ Len(SubSeq(nodes, 1, k - 1)) = k - 1
        /\ \A j \in 1..(k - 1) : SubSeq(nodes, 1, k - 1)[j] = nodes[j]
    BY <1>1, <1>7, PrefixSequence
  <2>2. DOMAIN SubSeq(nodes, 1, k - 1) = 1..(k - 1)
    BY <2>1, SequenceDomain
  <2> QED
    BY <1>7, <2>1, <2>2 DEF IsTrail
<1>9. LET t == SubSeq(nodes, 1, k - 1) \o SubSeq(nodes, k + 1, Len(nodes))
      IN  IsTrail(t) /\ \A j \in DOMAIN t : \E i \in DOMAIN nodes : t[j] = nodes[i]
  <2> DEFINE S == {nodes[i] : i \in DOMAIN nodes}
             a == SubSeq(nodes, 1, k - 1)
             b == SubSeq(nodes, k + 1, Len(nodes))
  <2>1. nodes \in Seq(S)
    BY <1>1 DEF IsSequence
  <2>2. \A x \in S : IsNode(x) /\ \E i \in DOMAIN nodes : x = nodes[i]
    BY DEF IsTrail
  <2> HIDE DEF S
  <2>3. a \in Seq(S) /\ b \in Seq(S)
    BY <1>7, <2>1, SubSeqProperties, ElementOfSeq
  <2> HIDE DEF a, b
  <2>4. a \o b \in Seq(S)
    BY <2>3, ConcatProperties
  <2>5. IsSequence(a \o b) /\ \A j \in DOMAIN (a \o b) : (a \o b)[j] \in S
    BY <2>4, SeqIsSequence, LenProperties, ElementOfSeq
  <2>6. IsTrail(a \o b) /\ \A j \in DOMAIN (a \o b) : \E i \in DOMAIN nodes : (a \o b)[j] = nodes[i]
    BY <2>2, <2>5 DEF IsTrail
  <2> QED
    BY <2>6 DEF a, b
<1> HIDE DEF Edited
<1>10. \/ \E r : s = [nodes EXCEPT ![k].record = r]
       \/ \E r, h : s = [nodes EXCEPT ![k].record = r, ![k].record_hash = h]
       \/ \E q : s = [nodes EXCEPT ![k].sequence_number = q]
       \/ \E h : s = [nodes EXCEPT ![k].prev_chain_hash = h]
       \/ \E h : s = [nodes EXCEPT ![k].chain_hash = h]
       \/ s = SubSeq(nodes, 1, k - 1)
       \/ s = SubSeq(nodes, 1, k - 1) \o SubSeq(nodes, k + 1, Len(nodes))
  BY DEF Alterations
<1>11. Edited(s) \/ (IsTrail(s) /\ \A j \in DOMAIN s : \E i \in DOMAIN nodes : s[j] = nodes[i])
  <2>1. ASSUME NEW r, s = [nodes EXCEPT ![k].record = r] PROVE Edited(s)
    BY <1>2, <2>1
  <2>2. ASSUME NEW r, NEW h, s = [nodes EXCEPT ![k].record = r, ![k].record_hash = h]
        PROVE  Edited(s)
    BY <1>3, <2>2, Zenon
  <2>3. ASSUME NEW q, s = [nodes EXCEPT ![k].sequence_number = q] PROVE Edited(s)
    BY <1>4, <2>3
  <2>4. ASSUME NEW h, s = [nodes EXCEPT ![k].prev_chain_hash = h] PROVE Edited(s)
    BY <1>5, <2>4
  <2>5. ASSUME NEW h, s = [nodes EXCEPT ![k].chain_hash = h] PROVE Edited(s)
    BY <1>6, <2>5
  <2>6. CASE s = SubSeq(nodes, 1, k - 1)
    BY <1>8, <2>6
  <2>7. CASE s = SubSeq(nodes, 1, k - 1) \o SubSeq(nodes, k + 1, Len(nodes))
    BY <1>9, <2>7
  <2> QED
    BY <1>10, <2>1, <2>2, <2>3, <2>4, <2>5, <2>6, <2>7, Zenon
<1> QED
  BY <1>11 DEF Edited

(* A changed node that verifies by itself differs from the delivered one   *)
(* in its sequence number at most.                                         *)
LEMMA ChangeShows ==
    ASSUME NEW m, NEW n, IsNode(m), IsNode(n), Hashed(m), Hashed(n), Changed(m, n)
    PROVE  /\ n.chain_hash = m.chain_hash /\ n.prev_chain_hash = m.prev_chain_hash
           /\ n.sequence_number = m.sequence_number => n = m
<1>1. n.chain_hash = m.chain_hash
  BY DEF Changed, Hashed
<1>2. /\ n.record = m.record /\ n.record_hash = m.record_hash
      /\ n.prev_chain_hash = m.prev_chain_hash
  BY <1>1, ChainHashBinds
<1> QED
  BY <1>1, <1>2 DEF IsNode

(* One alteration of a trail as delivered fails verification or leaves a   *)
(* prefix of the original.  A node with another number would have to sit   *)
(* behind a node that hashes like its predecessor, and no other node does. *)
LEMMA AlterationShows ==
    ASSUME BuilderSound, IsTrail(nodes), Delivered(nodes), NEW k \in DOMAIN nodes,
           NEW s \in Alterations(k), s # nodes
    PROVE  IsTrail(s) /\ (verify_audit_chain(s) => IsPrefixOf(s, produced))
<1>1. CASE IsTrail(s) /\ \A j \in DOMAIN s : \E i \in DOMAIN nodes : s[j] = nodes[i]
  <2>1. Delivered(s)
    BY <1>1 DEF Delivered
  <2> QED
    BY <1>1, <2>1, DeliveredPrefix
<1>2. ASSUME NEW n, IsNode(n), Changed(nodes[k], n), s = [nodes EXCEPT ![k] = n]
      PROVE  IsTrail(s) /\ ~verify_audit_chain(s)
  <2>1. /\ IsSequence(s) /\ Len(s) = Len(nodes) /\ s[k] = n
        /\ \A j \in DOMAIN nodes \ {k} : s[j] = nodes[j]
    <3>1. IsSequence(nodes)
      BY DEF IsTrail
    <3>2. /\ IsSequence([nodes EXCEPT ![k] = n]) /\ Len([nodes EXCEPT ![k] = n]) = Len(nodes)
          /\ [nodes EXCEPT ![k] = n][k] = n
          /\ \A j \in DOMAIN nodes \ {k} : [nodes EXCEPT ![k] = n][j] = nodes[j]
      BY <3>1, ExceptSequence
    <3> QED
      BY <1>2, <3>2
  <2>2. DOMAIN s = DOMAIN nodes
    BY <1>2
  <2>3. IsTrail(s)
    BY <1>2, <2>1, <2>2 DEF IsTrail
  <2> SUFFICES ASSUME verify_audit_chain(s) PROVE FALSE
    BY <2>3
  <2>4. /\ k \in Nat /\ k >= 1 /\ Hashed(n) /\ n.sequence_number = k - 1
        /\ k = 1 => n.prev_chain_hash = chain_hash_genesis
        /\ k # 1 => k - 1 \in DOMAIN s /\ n.prev_chain_hash = s[k - 1].chain_hash
    BY <2>1, <2>2, <2>3, VerifiedNode
  <2>5. PICK i \in DOMAIN produced : nodes[k] = produced[i]
    BY DEF Delivered
  <2>6. /\ i \in Nat /\ Hashed(nodes[k]) /\ nodes[k].sequence_number = i - 1
        /\ i = 1 => nodes[k].prev_chain_hash = chain_hash_genesis
        /\ i # 1 => /\ i - 1 \in DOMAIN produced
                    /\ nodes[k].prev_chain_hash = produced[i - 1].chain_hash
                    /\ produced[i - 1].chain_hash # chain_hash_genesis
    BY <2>5, VerifiedNode DEF BuilderSound
  <2>7. IsNode(nodes[k])
    BY DEF IsTrail
  <2>8. n.prev_chain_hash = nodes[k].prev_chain_hash /\ n # nodes[k]
    <3>1. n.prev_chain_hash = nodes[k].prev_chain_hash
      BY <1>2, <2>4, <2>6, <2>7, ChangeShows
    <3>2. ASSUME n = nodes[k] PROVE s = nodes
      <4>1. IsSequence(nodes) /\ DOMAIN nodes = 1..Len(nodes)
        BY TrailDomain
      <4>2. \A j \in 1..Len(s) : s[j] = nodes[j]
        BY <2>1, <3>2, <4>1
      <4> QED
        BY <2>1, <4>1, <4>2, SequencesEqual
    <3> QED
      BY <3>1, <3>2
  <2>9. i # k
    BY <1>2, <2>4, <2>6, <2>7, <2>8, ChangeShows
  <2>10. ASSUME k # 1
         PROVE  k - 1 \in DOMAIN produced /\ s[k - 1] = produced[k - 1]
    <3>1. PICK j \in DOMAIN s : j = k - 1
      BY <2>4, <2>10
    <3>2. j \in Nat /\ s[j].sequence_number = j - 1
      BY <2>3, VerifiedNode
    <3>3. s[j] = nodes[j]
      BY <2>1, <2>2, <2>4, <3>1
    <3>4. PICK x \in DOMAIN produced : s[j] = produced[x]
      BY <2>2, <3>3 DEF Delivered
    <3>5. x = j
      BY <3>2, <3>4, DeliveredInPlace
    <3> QED
      BY <3>1, <3>4, <3>5
  <2>11. CASE k = 1
    BY <2>4, <2>6, <2>8, <2>9, <2>11
  <2>12. CASE k # 1 /\ i = 1
    <3>1. produced[k - 1].chain_hash # chain_hash_genesis
      BY <2>10, <2>12, VerifiedNode DEF BuilderSound
    <3> QED
      BY <2>4, <2>6, <2>8, <2>10, <2>12, <3>1
  <2>13. CASE k # 1 /\ i # 1
    <3>1. produced[k - 1].chain_hash = produced[i - 1].chain_hash
      BY <2>4, <2>6, <2>8, <2>10, <2>13
    <3>2. k - 1 = i - 1
      BY <2>6, <2>10, <2>13, <3>1 DEF BuilderSound
    <3> QED
      BY <2>4, <2>6, <2>9, <3>2
  <2> QED
    BY <2>11, <2>12, <2>13
<1> QED
  BY <1>1, <1>2, AlterationKinds

-----------------------------------------------------------------------------
(* Steps on the trail *)

LEMMA AppendKeepsPrefix ==
    ASSUME NEW s, IsSequence(s), NEW t, IsTrail(t), NEW n, IsNode(n), IsPrefixOf(s, t)
    PROVE  IsPrefixOf(s, Append(t, n))
<1>1. PICK m \in Nat, l \in Nat : /\ m = Len(s) /\ DOMAIN s = 1..m /\ m <= l
                                  /\ l = Len(t) /\ DOMAIN t = 1..l /\ IsSequence(t)
  BY SequenceDomain, TrailDomain DEF IsPrefixOf
<1>2. /\ IsSequence(Append(t, n)) /\ Len(Append(t, n)) = l + 1
      /\ \A j \in 1..l : Append(t, n)[j] = t[j]
  BY <1>1, AppendSequence
<1>3. /\ IsSequence(SubSeq(t, 1, m)) /\ Len(SubSeq(t, 1, m)) = m
      /\ \A j \in 1..m : SubSeq(t, 1, m)[j] = t[j]
  BY <1>1, PrefixSequence
<1>4. m \in 0..Len(Append(t, n))
  BY <1>1, <1>2
<1>5. /\ IsSequence(SubSeq(Append(t, n), 1, m)) /\ Len(SubSeq(Append(t, n), 1, m)) = m
      /\ \A j \in 1..m : SubSeq(Append(t, n), 1, m)[j] = Append(t, n)[j]
  BY <1>2, <1>4, PrefixSequence
<1>6. SubSeq(Append(t, n), 1, m) = SubSeq(t, 1, m)
  BY <1>1, <1>2, <1>3, <1>5, SequencesEqual
<1> QED
  BY <1>1, <1>2, <1>6 DEF IsPrefixOf

LEMMA AppendTrail ==
    ASSUME NEW s, IsTrail(s), NEW n, IsNode(n)
    PROVE  /\ IsTrail(Append(s, n)) /\ Len(Append(s, n)) = Len(s) + 1 /\ Append(s, n) # <<>>
           /\ Append(s, n)[Len(s) + 1] = n
           /\ \A k \in DOMAIN s : Append(s, n)[k] = s[k]
           /\ \A k \in DOMAIN Append(s, n) : k \in DOMAIN s \/ k = Len(s) + 1
<1>1. IsSequence(s) /\ Len(s) \in Nat /\ DOMAIN s = 1..Len(s)
  BY TrailDomain
<1>2. /\ IsSequence(Append(s, n)) /\ Len(Append(s, n)) = Len(s) + 1
      /\ Append(s, n)[Len(s) + 1] = n /\ Append(s, n) # <<>>
      /\ \A k \in 1..Len(s) : Append(s, n)[k] = s[k]
  BY <1>1, AppendSequence
<1>3. DOMAIN Append(s, n) = 1..(Len(s) + 1)
  BY <1>2, SequenceDomain
<1>4. \A k \in DOMAIN Append(s, n) : k \in DOMAIN s \/ k = Len(s) + 1
  BY <1>1, <1>3
<1> QED
  BY <1>1, <1>2, <1>4 DEF IsTrail

LEMMA BuildKeeps ==
    ASSUME TrailSound, NEW r \in Records, Build(r)
    PROVE  TrailSound'
<1> USE DEF TrailSound
<1>1. PICK n : n = built_node(trail_builder, r)
  OBVIOUS
<1>2. PICK p \in Nat : p = Len(produced) /\ DOMAIN produced = 1..p /\ (produced = <<>> <=> p = 0)
  BY TrailDomain DEF BuilderSound
<1>3. /\ IsNode(n) /\ Hashed(n) /\ n.sequence_number = p
      /\ n.prev_chain_hash = trail_builder.prev_chain_hash
  BY <1>1, <1>2 DEF built_node, IsNode, Hashed, BuilderSound
<1>4. /\ produced' = Append(produced, n)
      /\ trail_builder' = [next_sequence |-> p + 1, prev_chain_hash |-> n.chain_hash]
      /\ UNCHANGED <<nodes, altered>>
  BY <1>1, <1>2 DEF Build, advanced, BuilderSound
<1>5. IsTrail(produced)
  BY DEF BuilderSound
<1>6. /\ IsTrail(produced') /\ Len(produced') = p + 1 /\ produced' # <<>>
      /\ produced'[p + 1] = n
      /\ \A k \in DOMAIN produced : produced'[k] = produced[k]
      /\ \A k \in DOMAIN produced' : k \in DOMAIN produced \/ k = p + 1
  BY <1>2, <1>3, <1>4, <1>5, AppendTrail
<1>7. /\ p = 0 => n.prev_chain_hash = chain_hash_genesis
      /\ p # 0 => p \in DOMAIN produced /\ n.prev_chain_hash = produced[p].chain_hash
  BY <1>2, <1>3 DEF BuilderSound
<1>8. verify_audit_chain(produced')
  <2>1. ASSUME NEW k \in DOMAIN produced
        PROVE  /\ Hashed(produced'[k]) /\ produced'[k].sequence_number = k - 1
               /\ produced'[k].prev_chain_hash =
                      IF k = 1 THEN chain_hash_genesis ELSE produced'[k - 1].chain_hash
    BY <1>6, VerifiedNode DEF BuilderSound
  <2>2. /\ Hashed(n) /\ n.sequence_number = (p + 1) - 1
        /\ n.prev_chain_hash = IF p + 1 = 1 THEN chain_hash_genesis ELSE produced'[p].chain_hash
    BY <1>3, <1>6, <1>7
  <2>3. (p + 1) - 1 = p
    BY <1>2
  <2> QED
    BY <1>6, <2>1, <2>2, <2>3 DEF verify_audit_chain, Hashed
<1>9. ASSUME NEW k \in DOMAIN produced PROVE produced[k].chain_hash # n.chain_hash
  <2> SUFFICES ASSUME produced[k].chain_hash = n.chain_hash PROVE FALSE
    OBVIOUS
  <2>1. /\ k \in Nat /\ k >= 1 /\ k <= p /\ Hashed(produced[k])
        /\ k = 1 => produced[k].prev_chain_hash = chain_hash_genesis
        /\ k # 1 => k - 1 \in DOMAIN produced /\ produced[k].prev_chain_hash = produced[k - 1].chain_hash
    BY <1>2, VerifiedNode DEF BuilderSound
  <2>2. produced[k].prev_chain_hash = produced[p].chain_hash /\ p \in DOMAIN produced
    BY <1>3, <1>7, <2>1, ChainHashBinds
  <2>3. produced[p].chain_hash # chain_hash_genesis
    BY <2>2, VerifiedNode DEF BuilderSound
  <2>4. k # 1 /\ p = k - 1
    BY <2>1, <2>2, <2>3 DEF BuilderSound
  <2> QED
    BY <2>1, <2>4
<1>10. \A i, j \in DOMAIN produced' : produced'[i].chain_hash = produced'[j].chain_hash => i = j
  BY <1>6, <1>9 DEF BuilderSound
<1>11. BuilderSound'
  BY <1>4, <1>6, <1>8, <1>10 DEF BuilderSound
<1>12. (altered = 0 => Delivered(nodes))'
  BY <1>4, <1>6, <1>2 DEF Delivered
<1>13. OneChangeIsFound'
  <2>1. IsSequence(nodes)
    BY DEF IsTrail
  <2>2. IsPrefixOf(nodes, produced) => IsPrefixOf(nodes, produced')
    BY <1>3, <1>4, <1>5, <2>1, AppendKeepsPrefix
  <2> QED
    BY <1>4, <2>2 DEF OneChangeIsFound
<1> QED
  BY <1>4, <1>11, <1>12, <1>13

LEMMA DeliverKeeps ==
    ASSUME TrailSound, NEW k \in DOMAIN produced, Deliver(k)
    PROVE  TrailSound'
<1> USE DEF TrailSound
<1>1. /\ altered = 0 /\ nodes' = Append(nodes, produced[k])
      /\ UNCHANGED <<trail_builder, produced, altered>>
  BY DEF Deliver
<1>2. IsNode(produced[k])
  BY DEF BuilderSound, IsTrail
<1>3. /\ IsTrail(nodes') /\ nodes'[Len(nodes) + 1] = produced[k]
      /\ \A j \in DOMAIN nodes : nodes'[j] = nodes[j]
      /\ \A j \in DOMAIN nodes' : j \in DOMAIN nodes \/ j = Len(nodes) + 1
  BY <1>1, <1>2, AppendTrail
<1>4. Delivered(nodes)'
  BY <1>1, <1>3 DEF Delivered
<1>5. BuilderSound' /\ OneChangeIsFound'
  BY <1>1 DEF BuilderSound, OneChangeIsFound
<1> QED
  BY <1>1, <1>3, <1>4, <1>5

LEMMA AlterKeeps ==
    ASSUME TrailSound, NEW k \in DOMAIN nodes, Alter(k)
    PROVE  TrailSound'
<1> USE DEF TrailSound
<1>1. /\ altered < MaxAlterations /\ altered' = altered + 1 /\ altered \in Nat
      /\ nodes' \in Alterations(k) /\ nodes' # nodes
      /\ UNCHANGED <<trail_builder, produced>>
  BY TrailAssumption DEF Alter
<1>2. altered' \in 0..MaxAlterations /\ altered' # 0
  BY <1>1, TrailAssumption
<1>3. BuilderSound'
  BY <1>1 DEF BuilderSound
<1>4. IsTrail(nodes')
  <2>1. ASSUME NEW n, IsNode(n), nodes' = [nodes EXCEPT ![k] = n] PROVE IsTrail(nodes')
    BY <2>1, ExceptSequence DEF IsTrail
  <2> QED
    BY <1>1, <2>1, AlterationKinds
<1>5. OneChangeIsFound'
  <2>1. altered' = 1 => altered = 0
    BY <1>1
  <2>2. altered = 0 /\ verify_audit_chain(nodes') => IsPrefixOf(nodes', produced)
    BY <1>1, AlterationShows
  <2> QED
    BY <1>1, <2>1, <2>2 DEF OneChangeIsFound
<1> QED
  BY <1>2, <1>3, <1>4, <1>5

-----------------------------------------------------------------------------
(* The audit file *)

Fragment == [node : {b.node : b \in built}, written : Written, by : {"this", "past"}]

(* Only the call in progress can still change its fragment, the last one,  *)
(* and that one is not on stable storage.                                  *)
FileSound ==
    /\ file \in Seq(Fragment)
    /\ synced \in 0..Len(file)
    /\ \A k \in DOMAIN file : file[k].by = "this" =>
           k = Len(file) /\ pc \in {"write", "sync"} /\ k > synced /\ file[k].node = node
    /\ pc \in {"write", "sync", "failed"} => \E b \in built : b.node = node

CountersSound ==
    /\ fd \in {"none", "file", "other"}
    /\ pc \in {"idle", "write", "sync", "failed", "down"}
    /\ fd # "none" => pc # "down"
    /\ restarts \in 0..MaxRestarts /\ failures \in 0..MaxFailures

(* The nodes that were built, run by run: chains without gaps, each node   *)
(* with a record of its own.                                               *)
BuiltSound ==
    /\ IsFiniteSet(built)
    /\ builder.next_sequence \in 0..Cardinality(built)
    /\ builder.next_sequence = 0 => builder.prev_chain_hash = chain_hash_genesis
    /\ builder.next_sequence # 0 =>
           \E c \in built : /\ c.run = restarts
                            /\ c.node.sequence_number = builder.next_sequence - 1
                            /\ c.node.chain_hash = builder.prev_chain_hash
    /\ \A b \in built :
           /\ IsNode(b.node) /\ Hashed(b.node) /\ b.node.sequence_number \in Nat
           /\ b.run \in 0..restarts
           /\ b.run = restarts => b.node.sequence_number < builder.next_sequence
           /\ b.node.sequence_number # 0 =>
                  \E c \in built : /\ c.run = b.run
                                   /\ c.node.sequence_number = b.node.sequence_number - 1
                                   /\ c.node.chain_hash = b.node.prev_chain_hash
    /\ \A b, c \in built : b.node.record = c.node.record => b = c
    /\ \A b, c \in built :
           b.run = c.run /\ b.node.sequence_number = c.node.sequence_number => b = c

(* What is acknowledged is on stable storage, and so will be, once fsync() *)
(* succeeds, what is about to be.                                          *)
DiskSound ==
    /\ LossNeedsReuse
    /\ pc = "sync" => \/ fd = "other" /\ node \in elsewhere
                      \/ /\ fd = "file" /\ file # <<>>
                         /\ file[Len(file)].node = node /\ file[Len(file)].written = "line"

Nodes(f) == [k \in DOMAIN f |-> f[k].node]

HeadOf(f) == IF f = <<>> THEN chain_hash_genesis ELSE f[Len(f)].node.chain_hash

(* In the first run of the process, as long as no call has failed, the     *)
(* file is the builder's chain, line by line.                              *)
CleanFile ==
    /\ verify_audit_chain(Nodes(file))
    /\ \A k \in DOMAIN file : k < Len(file) => file[k].written = "line"
    /\ pc # "down" /\ fd # "file" => file = <<>>

AllLines == \A k \in DOMAIN file : file[k].written = "line"

CleanBuilder ==
    fd = "file" =>
        /\ pc # "failed"
        /\ pc = "write" /\ ~Begun =>
               /\ node.sequence_number = Len(file) /\ node.prev_chain_hash = HeadOf(file)
               /\ builder.next_sequence = Len(file) + 1
               /\ builder.prev_chain_hash = node.chain_hash
               /\ AllLines
        /\ pc # "write" \/ Begun =>
               /\ builder.next_sequence = Len(file)
               /\ builder.prev_chain_hash = HeadOf(file)
        /\ pc # "write" => AllLines

CleanSound == restarts = 0 /\ failures = 0 => CleanFile /\ CleanBuilder

(* The inductive invariant of the file sink.                               *)
LogSound == FileSound /\ CountersSound /\ BuiltSound /\ DiskSound /\ CleanSound

LEMMA FileDomain ==
    ASSUME NEW f \in Seq(Fragment)
    PROVE  /\ Len(f) \in Nat /\ DOMAIN f = 1..Len(f) /\ (f = <<>> <=> Len(f) = 0)
           /\ \A k \in DOMAIN f : f[k] \in Fragment
BY LenProperties, ElementOfSeq, EmptySeq

(* What a successful write() leaves: the fragment of the call in progress  *)
(* at the end, and everything before it as it was.                         *)
LEMMA WriteShape ==
    ASSUME FileSound, pc = "write", file' \in WriteOutcomes
    PROVE  /\ file' \in Seq(Fragment)
           /\ \E n \in 1..Len(file') :
                  /\ n = Len(file') /\ n > synced
                  /\ n = IF Begun THEN Len(file) ELSE Len(file) + 1
                  /\ file'[n].node = node /\ file'[n].by = "this"
                  /\ \A k \in DOMAIN file' : k = n \/ (k \in DOMAIN file /\ k < n)
                  /\ \A k \in DOMAIN file : k < n => file'[k] = file[k] /\ file[k].by = "past"
<1>1. PICK l \in Nat : l = Len(file) /\ DOMAIN file = 1..l /\ (file = <<>> <=> l = 0) /\ synced \in 0..l
  BY FileDomain DEF FileSound
<1>2. \A k \in DOMAIN file : file[k] \in Fragment /\ (k # l => file[k].by = "past")
  <2>1. \A k \in DOMAIN file : file[k] \in Fragment
    BY FileDomain DEF FileSound
  <2>2. \A k \in DOMAIN file : file[k].by \in {"this", "past"}
    BY <2>1 DEF Fragment
  <2> QED
    BY <1>1, <2>1, <2>2 DEF FileSound
<1>3. CASE Begun
  <2>1. l \in DOMAIN file /\ file[l].by = "this" /\ l > synced /\ file[l].node = node
    BY <1>1, <1>3 DEF Begun, FileSound
  <2>2. PICK w \in Longer(file[l].written) : file' = [file EXCEPT ![l].written = w]
    BY <1>1, <1>3 DEF WriteOutcomes
  <2>3. w \in Written
    BY <1>2, <2>1, <2>2 DEF Longer, Written, Fragment
  <2>4. [file[l] EXCEPT !.written = w] \in Fragment
    BY <1>2, <2>1, <2>3 DEF Fragment
  <2>5. file' = [file EXCEPT ![l] = [file[l] EXCEPT !.written = w]]
    BY <2>2
  <2>6. /\ file' \in Seq(Fragment) /\ Len(file') = l
        /\ \A k \in 1..l : file'[k] = IF k = l THEN [file[l] EXCEPT !.written = w] ELSE file[k]
    BY <1>1, <2>1, <2>4, <2>5, ExceptSeq DEF FileSound
  <2>7. file'[l].node = node /\ file'[l].by = "this"
    BY <1>1, <1>2, <2>1, <2>6 DEF Fragment
  <2>8. DOMAIN file' = 1..l
    BY <2>6, FileDomain
  <2> QED
    BY <1>1, <1>2, <1>3, <2>1, <2>6, <2>7, <2>8
<1>4. CASE ~Begun
  <2>1. PICK w \in Written : file' = Append(file, serialize_audit_node_json(node, w))
    BY <1>4 DEF WriteOutcomes
  <2>2. PICK x : x = serialize_audit_node_json(node, w)
    OBVIOUS
  <2>3. x \in Fragment /\ x.node = node /\ x.by = "this"
    BY <2>1, <2>2 DEF serialize_audit_node_json, Fragment, FileSound
  <2>4. /\ file' \in Seq(Fragment) /\ Len(file') = l + 1 /\ file'[l + 1] = x
        /\ \A k \in 1..l : file'[k] = file[k]
    BY <1>1, <2>1, <2>2, <2>3, AppendProperties DEF FileSound
  <2>5. DOMAIN file' = 1..(l + 1)
    BY <2>4, FileDomain
  <2>6. \A k \in DOMAIN file : file[k].by = "past"
    BY <1>1, <1>2, <1>4 DEF Begun, Fragment
  <2> QED
    BY <1>1, <1>4, <2>3, <2>4, <2>5, <2>6
<1> QED
  BY <1>3, <1>4

(* When the call is over, only who wrote a fragment is forgotten.          *)
LEMMA EndedShape ==
    ASSUME NEW f \in Seq(Fragment)
    PROVE  /\ Ended(f) \in Seq(Fragment) /\ Len(Ended(f)) = Len(f) /\ DOMAIN Ended(f) = DOMAIN f
           /\ \A k \in DOMAIN f :
                  /\ Ended(f)[k].node = f[k].node /\ Ended(f)[k].written = f[k].written
                  /\ Ended(f)[k].by = "past"
                  /\ f[k].by = "past" => Ended(f)[k] = f[k]
<1>1. PICK l \in Nat : l = Len(f) /\ DOMAIN f = 1..l
  BY FileDomain
<1>2. \A k \in DOMAIN f : f[k] \in Fragment
  BY FileDomain
<1>3. \A k \in DOMAIN f :
          /\ [f[k] EXCEPT !.by = "past"] \in Fragment
          /\ [f[k] EXCEPT !.by = "past"].node = f[k].node
          /\ [f[k] EXCEPT !.by = "past"].written = f[k].written
          /\ [f[k] EXCEPT !.by = "past"].by = "past"
          /\ f[k].by = "past" => [f[k] EXCEPT !.by = "past"] = f[k]
  BY <1>2 DEF Fragment
<1>4. DOMAIN Ended(f) = DOMAIN f /\ \A k \in DOMAIN f : Ended(f)[k] = [f[k] EXCEPT !.by = "past"]
  BY DEF Ended
<1>5. Ended(f) \in [1..l -> Fragment]
  BY <1>1, <1>3 DEF Ended
<1>6. Ended(f) \in Seq(Fragment) /\ Len(Ended(f)) = l
  BY <1>1, <1>5, SeqDef, LenProperties
<1> QED
  BY <1>1, <1>3, <1>4, <1>6

(* What a crash leaves: a prefix that has all that is on stable storage,   *)
(* whose last fragment may be shorter.                                     *)
LEMMA SurvivorShape ==
    ASSUME FileSound, NEW f \in Survivors
    PROVE  /\ f \in Seq(Fragment) /\ Len(f) \in synced..Len(file)
           /\ \A k \in DOMAIN f : k \in DOMAIN file /\ f[k].node = file[k].node
           /\ \A k \in DOMAIN f : k <= synced \/ k < Len(f) => f[k] = file[k]
<1>1. PICK l \in Nat : l = Len(file) /\ DOMAIN file = 1..l /\ synced \in 0..l
  BY FileDomain DEF FileSound
<1>2. \A k \in DOMAIN file : file[k] \in Fragment
  BY FileDomain DEF FileSound
<1>3. ASSUME NEW n \in 0..l
      PROVE  /\ SubSeq(file, 1, n) \in Seq(Fragment) /\ Len(SubSeq(file, 1, n)) = n
             /\ \A k \in 1..n : SubSeq(file, 1, n)[k] = file[k]
             /\ DOMAIN SubSeq(file, 1, n) = 1..n
  BY <1>1, <1>2, FileDomain DEF FileSound
<1>4. ASSUME NEW n \in synced..l, f = SubSeq(file, 1, n)
      PROVE  /\ f \in Seq(Fragment) /\ Len(f) \in synced..l
             /\ \A k \in DOMAIN f : k \in DOMAIN file /\ f[k] = file[k]
  BY <1>1, <1>3, <1>4
<1>5. ASSUME NEW n \in (synced + 1)..l, NEW w \in Written, f = [SubSeq(file, 1, n) EXCEPT ![n].written = w]
      PROVE  /\ f \in Seq(Fragment) /\ Len(f) \in synced..l
             /\ \A k \in DOMAIN f : k \in DOMAIN file /\ f[k].node = file[k].node
             /\ \A k \in DOMAIN f : k <= synced \/ k < Len(f) => f[k] = file[k]
  <2>1. PICK g : g = SubSeq(file, 1, n)
    OBVIOUS
  <2>2. n \in 1..l /\ n > synced /\ n \in 0..l
    BY <1>1
  <2>3. /\ g \in Seq(Fragment) /\ Len(g) = n /\ \A k \in 1..n : g[k] = file[k]
        /\ DOMAIN g = 1..n
    BY <1>3, <2>1, <2>2
  <2>4. g[n] \in Fragment
    BY <1>1, <1>2, <2>2, <2>3
  <2>5. PICK x : x = [g[n] EXCEPT !.written = w]
    OBVIOUS
  <2>6. x \in Fragment /\ x.node = g[n].node
    BY <2>4, <2>5 DEF Fragment
  <2>7. f = [g EXCEPT ![n] = x]
    BY <1>5, <2>1, <2>5
  <2>8. /\ f \in Seq(Fragment) /\ Len(f) = n
        /\ \A k \in 1..n : f[k] = IF k = n THEN x ELSE g[k]
    BY <2>2, <2>3, <2>6, <2>7, ExceptSeq
  <2>9. DOMAIN f = 1..n
    BY <2>8, FileDomain
  <2> QED
    BY <1>1, <2>2, <2>3, <2>6, <2>8, <2>9
<1>6. \/ \E n \in synced..l : f = SubSeq(file, 1, n)
      \/ \E n \in (synced + 1)..l : \E w \in Written : f = [SubSeq(file, 1, n) EXCEPT ![n].written = w]
  BY <1>1 DEF Survivors
<1> QED
  BY <1>1, <1>4, <1>5, <1>6

-----------------------------------------------------------------------------
(* Steps on the file *)

(* What is on stable storage is so after the step, where it was.           *)
StorageKept ==
    /\ synced' \in synced..Len(file')
    /\ \A k \in 1..synced : k \in DOMAIN file' /\ file'[k] = file[k]

LEMMA SameFileKept ==
    ASSUME FileSound, UNCHANGED <<file, synced>>, built \subseteq built',
           \A k \in DOMAIN file : file[k].by = "this" => pc' \in {"write", "sync"} /\ node' = node,
           pc' \in {"write", "sync", "failed"} => \E b \in built' : b.node = node'
    PROVE  FileSound' /\ StorageKept
<1>1. PICK l \in Nat : l = Len(file) /\ DOMAIN file = 1..l /\ synced \in 0..l
  BY FileDomain DEF FileSound
<1>2. Fragment \subseteq Fragment'
  BY DEF Fragment
<1>3. file' \in Seq(Fragment')
  BY <1>2, SeqMonotonic DEF FileSound
<1>4. FileSound'
  BY <1>1, <1>3 DEF FileSound
<1>5. StorageKept
  BY <1>1 DEF StorageKept
<1> QED
  BY <1>4, <1>5

LEMMA EndedFileKept ==
    ASSUME FileSound, file' = Ended(file), synced' \in {synced, Len(file)}, UNCHANGED <<built, node>>,
           pc \in {"write", "sync"}
    PROVE  FileSound' /\ StorageKept
<1>1. PICK l \in Nat : l = Len(file) /\ DOMAIN file = 1..l /\ synced \in 0..l
  BY FileDomain DEF FileSound
<1>2. /\ file' \in Seq(Fragment) /\ Len(file') = l /\ DOMAIN file' = DOMAIN file
      /\ \A k \in DOMAIN file : /\ file'[k].by = "past"
                                /\ file[k].by = "past" => file'[k] = file[k]
  BY <1>1, EndedShape DEF FileSound
<1>3. file' \in Seq(Fragment')
  BY <1>2 DEF Fragment
<1>4. FileSound'
  BY <1>1, <1>2, <1>3 DEF FileSound
<1>5. \A k \in DOMAIN file : file[k].by \in {"this", "past"}
  BY FileDomain DEF FileSound, Fragment
<1>6. \A k \in 1..synced : k \in DOMAIN file /\ file[k].by = "past"
  BY <1>1, <1>5 DEF FileSound
<1>7. StorageKept
  BY <1>1, <1>2, <1>6 DEF StorageKept
<1> QED
  BY <1>4, <1>7

LEMMA CrashKept ==
    ASSUME FileSound, Crash
    PROVE  FileSound' /\ StorageKept
<1>1. PICK f \in Survivors : file' = Ended(f) /\ synced' = Len(f)
  BY DEF Crash
<1>2. PICK l \in Nat : l = Len(file) /\ DOMAIN file = 1..l /\ synced \in 0..l
  BY FileDomain DEF FileSound
<1>3. /\ f \in Seq(Fragment) /\ Len(f) \in synced..l
      /\ \A k \in DOMAIN f : k <= synced \/ k < Len(f) => f[k] = file[k]
  BY <1>2, SurvivorShape
<1>4. PICK m \in Nat : m = Len(f) /\ DOMAIN f = 1..m
  BY <1>3, FileDomain
<1>5. /\ file' \in Seq(Fragment) /\ Len(file') = m /\ DOMAIN file' = 1..m
      /\ \A k \in 1..m : /\ file'[k].by = "past"
                         /\ f[k].by = "past" => file'[k] = f[k]
  BY <1>1, <1>3, <1>4, EndedShape
<1>6. pc' = "down" /\ UNCHANGED built
  BY DEF Crash
<1>7. file' \in Seq(Fragment')
  BY <1>5, <1>6 DEF Fragment
<1>8. FileSound'
  BY <1>1, <1>4, <1>5, <1>6, <1>7 DEF FileSound
<1>9. \A k \in DOMAIN file : file[k].by \in {"this", "past"}
  BY FileDomain DEF FileSound, Fragment
<1>10. \A k \in 1..synced : k \in DOMAIN file /\ file[k].by = "past"
  BY <1>2, <1>9 DEF FileSound
<1>11. StorageKept
  BY <1>1, <1>2, <1>3, <1>4, <1>5, <1>10 DEF StorageKept
<1> QED
  BY <1>8, <1>11

LEMMA WriteKept ==
    ASSUME FileSound, Write
    PROVE  FileSound' /\ StorageKept
<1>1. pc = "write" /\ file' \in WriteOutcomes /\ UNCHANGED <<synced, node, built>>
      /\ pc' \in {"write", "sync"}
  BY DEF Write
<1>2. PICK l \in Nat : l = Len(file) /\ DOMAIN file = 1..l /\ synced \in 0..l
  BY FileDomain DEF FileSound
<1>3. PICK n \in 1..Len(file') :
          /\ n = Len(file') /\ n > synced
          /\ n = IF Begun THEN Len(file) ELSE Len(file) + 1
          /\ file'[n].node = node /\ file'[n].by = "this"
          /\ \A k \in DOMAIN file' : k = n \/ (k \in DOMAIN file /\ k < n)
          /\ \A k \in DOMAIN file : k < n => file'[k] = file[k] /\ file[k].by = "past"
  BY <1>1, WriteShape
<1>4. file' \in Seq(Fragment) /\ DOMAIN file' = 1..n /\ n \in Nat
  BY <1>1, <1>3, WriteShape, FileDomain
<1>5. file' \in Seq(Fragment')
  BY <1>1, <1>4 DEF Fragment
<1>6. \E b \in built : b.node = node
  BY <1>1 DEF FileSound
<1>7. FileSound'
  BY <1>1, <1>2, <1>3, <1>4, <1>5, <1>6 DEF FileSound
<1>8. StorageKept
  BY <1>1, <1>2, <1>3, <1>4 DEF StorageKept
<1> QED
  BY <1>7, <1>8

LEMMA FileStep ==
    ASSUME FileSound, Next
    PROVE  FileSound' /\ StorageKept
<1>1. ASSUME NEW r \in Records, Decide(r) PROVE FileSound' /\ StorageKept
  <2>1. /\ UNCHANGED <<file, synced>> /\ built \subseteq built' /\ pc \in {"idle", "failed"}
    BY <1>1 DEF Decide
  <2>2. \E b \in built' : b.node = node'
    <3>1. [node |-> node', run |-> restarts] \in built'
      BY <1>1 DEF Decide
    <3> QED
      BY <3>1
  <2> QED
    BY <2>1, <2>2, SameFileKept DEF FileSound
<1>2. CASE Retry
  <2>1. /\ UNCHANGED <<file, synced, built, node>> /\ pc = "failed" /\ pc' = "write"
    BY <1>2 DEF Retry
  <2> QED
    BY <2>1, SameFileKept DEF FileSound
<1>3. CASE Write
  BY <1>3, WriteKept
<1>4. CASE WriteElsewhere
  <2>1. /\ UNCHANGED <<file, synced, built, node>> /\ pc = "write" /\ pc' = "sync"
    BY <1>4 DEF WriteElsewhere
  <2> QED
    BY <2>1, SameFileKept DEF FileSound
<1>5. CASE WriteFails \/ Sync \/ SyncFails
  <2>1. /\ file' = Ended(file) /\ synced' \in {synced, Len(file)} /\ UNCHANGED <<built, node>>
        /\ pc \in {"write", "sync"}
    BY <1>5 DEF WriteFails, Sync, SyncFails
  <2> QED
    BY <2>1, EndedFileKept
<1>6. CASE OtherOpen
  <2>1. UNCHANGED <<file, synced, built, node, pc>>
    BY <1>6 DEF OtherOpen
  <2> QED
    BY <2>1, SameFileKept DEF FileSound
<1>7. CASE Crash
  BY <1>7, CrashKept
<1>8. CASE Restart
  <2>1. /\ UNCHANGED <<file, synced, built, node>> /\ pc = "down" /\ pc' = "idle"
    BY <1>8 DEF Restart
  <2> QED
    BY <2>1, SameFileKept DEF FileSound
<1> QED
  BY <1>1, <1>2, <1>3, <1>4, <1>5, <1>6, <1>7, <1>8 DEF Next

LEMMA CountersStep ==
    ASSUME CountersSound, Next
    PROVE  CountersSound'
<1> USE LogAssumption DEF CountersSound
<1>1. ASSUME NEW r \in Records, Decide(r) PROVE CountersSound'
  BY <1>1 DEF Decide
<1>2. CASE Retry
  BY <1>2 DEF Retry
<1>3. CASE Write
  BY <1>3 DEF Write
<1>4. CASE WriteElsewhere
  BY <1>4 DEF WriteElsewhere
<1>5. CASE WriteFails
  BY <1>5 DEF WriteFails, Fails
<1>6. CASE Sync
  BY <1>6 DEF Sync
<1>7. CASE SyncFails
  BY <1>7 DEF SyncFails, Fails
<1>8. CASE OtherOpen
  BY <1>8 DEF OtherOpen
<1>9. CASE Crash
  BY <1>9 DEF Crash
<1>10. CASE Restart
  BY <1>10 DEF Restart
<1> QED
  BY <1>1, <1>2, <1>3, <1>4, <1>5, <1>6, <1>7, <1>8, <1>9, <1>10 DEF Next

-----------------------------------------------------------------------------
(* Steps on the chains *)

LEMMA DecideBuilds ==
    ASSUME BuiltSound, restarts \in Nat, NEW r \in Records, Decide(r)
    PROVE  BuiltSound'
<1>1. PICK n : n = built_node(builder, r)
  OBVIOUS
<1>2. PICK x : x = [node |-> n, run |-> restarts]
  OBVIOUS
<1>3. /\ built' = built \cup {x} /\ UNCHANGED restarts
      /\ builder' = [next_sequence |-> builder.next_sequence + 1, prev_chain_hash |-> n.chain_hash]
      /\ \A b \in built : b.node.record # r
  BY <1>1, <1>2 DEF Decide, advanced
<1>4. PICK q \in Nat : q = builder.next_sequence /\ q <= Cardinality(built)
  BY FS_CardinalityType DEF BuiltSound
<1>5. /\ IsNode(n) /\ Hashed(n) /\ n.sequence_number = q /\ n.record = r
      /\ n.prev_chain_hash = builder.prev_chain_hash /\ x.node = n /\ x.run = restarts
  BY <1>1, <1>2, <1>4 DEF built_node, IsNode, Hashed
<1>6. x \notin built
  BY <1>3, <1>5
<1>7. IsFiniteSet(built') /\ builder'.next_sequence \in 0..Cardinality(built')
  <2>1. Cardinality(built') = Cardinality(built) + 1 /\ IsFiniteSet(built')
    BY <1>3, <1>6, FS_AddElement DEF BuiltSound
  <2>2. Cardinality(built) \in Nat
    BY FS_CardinalityType DEF BuiltSound
  <2> QED
    BY <1>3, <1>4, <2>1, <2>2
<1>8. /\ builder'.next_sequence # 0 /\ builder'.next_sequence - 1 = q
      /\ builder'.prev_chain_hash = n.chain_hash
  BY <1>3, <1>4
<1>9. \A b \in built : b.run = restarts => b.node.sequence_number < q
  BY <1>4 DEF BuiltSound
<1>10. \A b, c \in built' : b.node.record = c.node.record => b = c
  BY <1>3, <1>5 DEF BuiltSound
<1>11. \A b, c \in built' :
           b.run = c.run /\ b.node.sequence_number = c.node.sequence_number => b = c
  <2>1. \A b \in built : ~(b.run = x.run /\ b.node.sequence_number = x.node.sequence_number)
    BY <1>4, <1>5, <1>9
  <2> QED
    BY <1>3, <2>1 DEF BuiltSound
<1>12. q # 0 => \E c \in built : /\ c.run = restarts /\ c.node.sequence_number = q - 1
                                 /\ c.node.chain_hash = n.prev_chain_hash
  BY <1>4, <1>5 DEF BuiltSound
<1>13. ASSUME NEW b \in built'
       PROVE  /\ IsNode(b.node) /\ Hashed(b.node) /\ b.node.sequence_number \in Nat
              /\ b.run \in 0..restarts'
              /\ b.run = restarts' => b.node.sequence_number < builder'.next_sequence
              /\ b.node.sequence_number # 0 =>
                     \E c \in built' : /\ c.run = b.run
                                       /\ c.node.sequence_number = b.node.sequence_number - 1
                                       /\ c.node.chain_hash = b.node.prev_chain_hash
  <2>1. CASE b \in built
    <3>1. /\ IsNode(b.node) /\ Hashed(b.node) /\ b.node.sequence_number \in Nat
          /\ b.run \in 0..restarts
          /\ b.node.sequence_number # 0 =>
                 \E c \in built : /\ c.run = b.run
                                  /\ c.node.sequence_number = b.node.sequence_number - 1
                                  /\ c.node.chain_hash = b.node.prev_chain_hash
      BY <2>1 DEF BuiltSound
    <3>2. b.run = restarts => b.node.sequence_number < q + 1
      BY <1>4, <1>9, <2>1, <3>1
    <3> QED
      BY <1>3, <1>4, <3>1, <3>2
  <2>2. CASE b = x
    BY <1>3, <1>4, <1>5, <1>12, <2>2
  <2> QED
    BY <1>3, <2>1, <2>2
<1>14. \E c \in built' : /\ c.run = restarts' /\ c.node.sequence_number = builder'.next_sequence - 1
                         /\ c.node.chain_hash = builder'.prev_chain_hash
  BY <1>3, <1>5, <1>8
<1> QED
  BY <1>7, <1>8, <1>10, <1>11, <1>13, <1>14 DEF BuiltSound

LEMMA BuiltStep ==
    ASSUME BuiltSound, CountersSound, Next
    PROVE  BuiltSound'
<1>1. restarts \in Nat
  BY LogAssumption DEF CountersSound
<1>2. ASSUME NEW r \in Records, Decide(r) PROVE BuiltSound'
  BY <1>1, <1>2, DecideBuilds
<1>3. CASE Restart
  <2>1. /\ restarts' = restarts + 1 /\ UNCHANGED built
        /\ builder' = [next_sequence |-> 0, prev_chain_hash |-> chain_hash_genesis]
    BY <1>3 DEF Restart, new_builder
  <2>2. Cardinality(built) \in Nat
    BY FS_CardinalityType DEF BuiltSound
  <2>3. \A b \in built : b.run \in 0..restarts' /\ b.run # restarts'
    BY <1>1, <2>1 DEF BuiltSound
  <2>4. builder'.next_sequence = 0 /\ builder'.prev_chain_hash = chain_hash_genesis
    BY <2>1
  <2> QED
    BY <2>1, <2>2, <2>3, <2>4 DEF BuiltSound
<1>4. CASE UNCHANGED <<built, builder, restarts>>
  BY <1>4 DEF BuiltSound
<1> QED
  BY <1>2, <1>3, <1>4
  DEF Next, Retry, Write, WriteElsewhere, WriteFails, Sync, SyncFails, OtherOpen, Crash

-----------------------------------------------------------------------------
(* Steps on stable storage *)

LEMMA OnDiskKept ==
    ASSUME FileSound, StorageKept, NEW n, OnDisk(n)
    PROVE  OnDisk(n)'
<1>1. Len(file) \in Nat /\ synced \in 0..Len(file)
  BY FileDomain DEF FileSound
<1>2. PICK k \in 1..synced : file[k].node = n /\ file[k].written = "line"
  BY DEF OnDisk
<1>3. k \in 1..synced' /\ file'[k] = file[k]
  BY <1>1, <1>2 DEF StorageKept
<1> QED
  BY <1>2, <1>3 DEF OnDisk

LEMMA DiskStep ==
    ASSUME FileSound, CountersSound, DiskSound, Next
    PROVE  DiskSound'
<1>1. FileSound' /\ StorageKept
  BY FileStep
<1>2. PICK l \in Nat : l = Len(file) /\ DOMAIN file = 1..l /\ synced \in 0..l /\ (file = <<>> <=> l = 0)
  BY FileDomain DEF FileSound
<1>3. elsewhere \subseteq elsewhere'
  BY DEF Next, Decide, Retry, Write, WriteElsewhere, WriteFails, Sync, SyncFails, OtherOpen, Crash,
     Restart
<1>4. ASSUME acked' \subseteq acked PROVE LossNeedsReuse'
  BY <1>1, <1>3, <1>4, OnDiskKept DEF DiskSound, LossNeedsReuse
<1>5. CASE Sync
  <2>1. /\ pc = "sync" /\ acked' = acked \cup {node} /\ pc' = "idle" /\ UNCHANGED <<elsewhere, node>>
        /\ file' = Ended(file) /\ synced' = IF fd = "file" THEN Len(file) ELSE synced
    BY <1>5 DEF Sync
  <2>2. node \notin elsewhere' => OnDisk(node)'
    <3> SUFFICES ASSUME node \notin elsewhere' PROVE OnDisk(node)'
      OBVIOUS
    <3>1. /\ fd = "file" /\ l # 0 /\ file[l].node = node /\ file[l].written = "line"
          /\ synced' = l
      BY <1>2, <2>1 DEF DiskSound
    <3>2. file'[l].node = node /\ file'[l].written = "line"
      BY <1>2, <2>1, <3>1, EndedShape DEF FileSound
    <3> QED
      BY <1>2, <2>1, <3>1, <3>2 DEF OnDisk
  <2>3. \A n \in acked \ elsewhere : OnDisk(n)'
    BY <1>1, OnDiskKept DEF DiskSound, LossNeedsReuse
  <2> QED
    BY <2>1, <2>2, <2>3 DEF DiskSound, LossNeedsReuse
<1>6. CASE Write
  <2>1. /\ pc = "write" /\ fd = "file" /\ file' \in WriteOutcomes
        /\ pc' = IF file'[Len(file')].written = "line" THEN "sync" ELSE "write"
        /\ UNCHANGED <<fd, node, acked, elsewhere>>
    BY <1>6 DEF Write
  <2>2. file' # <<>> /\ file'[Len(file')].node = node
    BY <2>1, WriteShape, FileDomain
  <2>3. LossNeedsReuse'
    BY <1>4, <2>1
  <2> QED
    BY <2>1, <2>2, <2>3 DEF DiskSound
<1>7. CASE WriteElsewhere
  <2>1. /\ fd' = "other" /\ node' \in elsewhere' /\ UNCHANGED acked
    BY <1>7 DEF WriteElsewhere
  <2>2. LossNeedsReuse'
    BY <1>4, <2>1
  <2> QED
    BY <2>1, <2>2 DEF DiskSound
<1>8. CASE OtherOpen
  <2>1. /\ fd = "none" /\ UNCHANGED <<pc, acked>>
    BY <1>8 DEF OtherOpen
  <2>2. LossNeedsReuse'
    BY <1>4, <2>1
  <2> QED
    BY <2>1, <2>2 DEF DiskSound
<1>9. CASE (\E r \in Records : Decide(r)) \/ Retry \/ WriteFails \/ SyncFails \/ Crash \/ Restart
  <2>1. pc' # "sync" /\ UNCHANGED acked
    BY <1>9 DEF Decide, Retry, WriteFails, SyncFails, Crash, Restart
  <2>2. LossNeedsReuse'
    BY <1>4, <2>1
  <2> QED
    BY <2>1, <2>2 DEF DiskSound
<1> QED
  BY <1>5, <1>6, <1>7, <1>8, <1>9 DEF Next

-----------------------------------------------------------------------------
(* The chain in the file *)

LEMMA NodesTrail ==
    ASSUME BuiltSound, NEW f \in Seq(Fragment)
    PROVE  /\ IsTrail(Nodes(f)) /\ Len(Nodes(f)) = Len(f) /\ DOMAIN Nodes(f) = DOMAIN f
           /\ \A k \in DOMAIN f :
                  Nodes(f)[k] = f[k].node /\ \E b \in built : b.node = f[k].node
<1>1. DOMAIN Nodes(f) = DOMAIN f /\ \A k \in DOMAIN f : Nodes(f)[k] = f[k].node
  BY DEF Nodes
<1>2. ASSUME NEW k \in DOMAIN f PROVE \E b \in built : b.node = f[k].node
  <2>1. f[k] \in Fragment
    BY FileDomain
  <2> QED
    BY <2>1 DEF Fragment
<1>3. IsSequence(f)
  BY SeqIsSequence
<1>4. Nodes(f) = [k \in DOMAIN f |-> Nodes(f)[k]]
  BY <1>1 DEF Nodes
<1>5. IsSequence(Nodes(f)) /\ Len(Nodes(f)) = Len(f)
  BY <1>1, <1>3, <1>4, MappedSequence
<1>6. \A k \in DOMAIN f : IsNode(f[k].node)
  BY <1>2 DEF BuiltSound
<1> QED
  BY <1>1, <1>2, <1>5, <1>6 DEF IsTrail

(* Nodes that hash alike are the same: records are not used twice.         *)
LEMMA BuiltHashesDiffer ==
    ASSUME BuiltSound, NEW b \in built, NEW c \in built, b.node.chain_hash = c.node.chain_hash
    PROVE  b = c
<1>1. Hashed(b.node) /\ Hashed(c.node)
  BY DEF BuiltSound
<1>2. b.node.record = c.node.record
  BY <1>1, ChainHashBinds
<1> QED
  BY <1>2 DEF BuiltSound

(* A verified file is read backwards from its last line: the previous hash *)
(* of each line is the hash of the node built before it, and only that     *)
(* node's line has it.                                                     *)
LEMMA VerifiedFileIsComplete ==
    ASSUME FileSound, BuiltSound
    PROVE  VerifiedIsComplete
<1> SUFFICES ASSUME verify_stream(file), NEW b \in built, NEW last \in built,
                    file # <<>>, last.node = file[Len(file)].node, b.run = last.run,
                    b.node.sequence_number < last.node.sequence_number
             PROVE  InFile(b.node)
  BY DEF VerifiedIsComplete
<1>1. PICK s : s = Nodes(file)
  OBVIOUS
<1>2. PICK l \in Nat : l = Len(file) /\ DOMAIN file = 1..l /\ l # 0
  BY FileDomain DEF FileSound
<1>3. /\ IsTrail(s) /\ DOMAIN s = 1..l
      /\ \A k \in 1..l : s[k] = file[k].node /\ \E c \in built : c.node = s[k]
  BY <1>1, <1>2, NodesTrail DEF FileSound
<1>4. verify_audit_chain(s)
  BY <1>1 DEF verify_stream, Nodes
<1> DEFINE T == {i \in Nat : i < l => \E y \in built : y.run = last.run /\ y.node = s[l - i]}
<1>5. 0 \in T
  BY <1>2, <1>3
<1>6. ASSUME NEW i \in Nat, i \in T PROVE i + 1 \in T
  <2> SUFFICES ASSUME i + 1 < l
               PROVE  \E y \in built : y.run = last.run /\ y.node = s[l - (i + 1)]
    OBVIOUS
  <2>1. PICK j \in DOMAIN s : j = l - i /\ j # 1 /\ j - 1 = l - (i + 1) /\ j - 1 \in 1..l
    BY <1>2, <1>3
  <2>2. PICK y \in built : y.run = last.run /\ y.node = s[j]
    BY <1>2, <1>6, <2>1
  <2>3. /\ j \in Nat /\ s[j].sequence_number = j - 1 /\ s[j].prev_chain_hash = s[j - 1].chain_hash
    <3>1. IsTrail(s) /\ verify_audit_chain(s)
      BY <1>3, <1>4
    <3>2. /\ j \in Nat /\ s[j].sequence_number = j - 1
          /\ j # 1 => s[j].prev_chain_hash = s[j - 1].chain_hash
      BY <3>1, VerifiedNode
    <3> QED
      BY <2>1, <3>2
  <2>4. y.node.sequence_number # 0
    BY <2>1, <2>2, <2>3
  <2>5. PICK c \in built : c.run = y.run /\ c.node.chain_hash = y.node.prev_chain_hash
    BY <2>4 DEF BuiltSound
  <2>6. PICK x \in built : x.node = s[j - 1]
    BY <1>3, <2>1
  <2>7. c = x
    BY <2>2, <2>3, <2>5, <2>6, BuiltHashesDiffer
  <2> QED
    BY <2>1, <2>2, <2>5, <2>6, <2>7
<1>7. Nat \subseteq T
  <2> HIDE DEF T
  <2> QED
    BY <1>5, <1>6, NatInductionSet
<1>8. ASSUME NEW i \in Nat, i < l PROVE \E y \in built : y.run = last.run /\ y.node = s[l - i]
  BY <1>7, <1>8
<1>9. PICK q \in Nat : q = b.node.sequence_number /\ q < l - 1
  <2>1. l \in DOMAIN s
    BY <1>2, <1>3
  <2>2. s[l].sequence_number = l - 1
    BY <1>3, <1>4, <2>1, VerifiedNode
  <2>3. last.node.sequence_number = l - 1
    BY <1>2, <1>3, <2>2
  <2>4. b.node.sequence_number \in Nat
    BY DEF BuiltSound
  <2> QED
    BY <2>3, <2>4
<1>10. PICK j \in DOMAIN s : j = q + 1 /\ l - j \in Nat /\ l - j < l /\ l - (l - j) = j
  BY <1>2, <1>3, <1>9
<1>11. PICK y \in built : y.run = last.run /\ y.node = s[j]
  BY <1>8, <1>10
<1>12. s[j].sequence_number = j - 1
  BY <1>3, <1>4, VerifiedNode
<1>13. y = b
  BY <1>9, <1>10, <1>11, <1>12 DEF BuiltSound
<1> QED
  BY <1>2, <1>3, <1>11, <1>13 DEF InFile

LEMMA AppendVerifies ==
    ASSUME NEW s, IsTrail(s), verify_audit_chain(s), NEW t, IsTrail(t), Len(t) = Len(s) + 1,
           \A k \in DOMAIN s : t[k] = s[k],
           Hashed(t[Len(t)]), t[Len(t)].sequence_number = Len(s),
           t[Len(t)].prev_chain_hash = IF s = <<>> THEN chain_hash_genesis ELSE s[Len(s)].chain_hash
    PROVE  verify_audit_chain(t)
<1>1. PICK l \in Nat : /\ l = Len(s) /\ DOMAIN s = 1..l /\ (s = <<>> <=> l = 0)
                       /\ DOMAIN t = 1..(l + 1) /\ l + 1 = Len(t)
  BY TrailDomain
<1>2. ASSUME NEW k \in DOMAIN s
      PROVE  /\ Hashed(t[k]) /\ t[k].sequence_number = k - 1
             /\ t[k].prev_chain_hash = IF k = 1 THEN chain_hash_genesis ELSE t[k - 1].chain_hash
  BY VerifiedNode
<1>3. /\ Hashed(t[l + 1]) /\ t[l + 1].sequence_number = (l + 1) - 1
      /\ t[l + 1].prev_chain_hash =
             IF l + 1 = 1 THEN chain_hash_genesis ELSE t[(l + 1) - 1].chain_hash
  BY <1>1
<1>4. \A k \in DOMAIN t : k \in DOMAIN s \/ k = l + 1
  BY <1>1
<1> QED
  BY <1>2, <1>3, <1>4 DEF verify_audit_chain, Hashed

LEMMA EndedNodes ==
    ASSUME NEW f \in Seq(Fragment)
    PROVE  Nodes(Ended(f)) = Nodes(f) /\ HeadOf(Ended(f)) = HeadOf(f)
<1>1. PICK l \in Nat : l = Len(f) /\ DOMAIN f = 1..l /\ (f = <<>> <=> l = 0)
  BY FileDomain
<1>2. /\ Ended(f) \in Seq(Fragment) /\ Len(Ended(f)) = l /\ DOMAIN Ended(f) = 1..l
      /\ \A k \in 1..l : Ended(f)[k].node = f[k].node
  BY <1>1, EndedShape
<1>3. Nodes(Ended(f)) = Nodes(f)
  BY <1>1, <1>2 DEF Nodes
<1>4. Ended(f) = <<>> <=> l = 0
  BY <1>2, FileDomain
<1> QED
  BY <1>1, <1>2, <1>3, <1>4 DEF HeadOf

-----------------------------------------------------------------------------
(* Steps of a clean run *)

LEMMA CleanSameFile ==
    ASSUME CleanFile, UNCHANGED file, fd' = fd \/ (fd = "none" /\ pc # "down"), pc # "down" \/ pc' = "down"
    PROVE  CleanFile'
BY DEF CleanFile

LEMMA CleanDecide ==
    ASSUME FileSound, CleanFile, CleanBuilder, NEW r \in Records, Decide(r)
    PROVE  CleanFile' /\ CleanBuilder'
<1>1. PICK n : n = built_node(builder, r)
  OBVIOUS
<1>2. /\ pc \in {"idle", "failed"} /\ pc' = "write" /\ UNCHANGED <<file, fd>> /\ node' = n
      /\ builder' = [next_sequence |-> builder.next_sequence + 1, prev_chain_hash |-> n.chain_hash]
  BY <1>1 DEF Decide, advanced
<1>3. /\ n.sequence_number = builder.next_sequence
      /\ n.prev_chain_hash = builder.prev_chain_hash
  BY <1>1 DEF built_node
<1>4. CleanFile'
  BY <1>2, CleanSameFile
<1>5. ~Begun'
  <2>1. PICK l \in Nat : l = Len(file) /\ DOMAIN file = 1..l /\ (file = <<>> <=> l = 0)
    BY FileDomain DEF FileSound
  <2> QED
    BY <1>2, <2>1 DEF Begun, FileSound
<1>6. CleanBuilder'
  <2> SUFFICES ASSUME fd = "file"
               PROVE  /\ n.sequence_number = Len(file) /\ n.prev_chain_hash = HeadOf(file)
                      /\ builder'.next_sequence = Len(file) + 1
                      /\ builder'.prev_chain_hash = n.chain_hash
                      /\ AllLines
    BY <1>2, <1>5 DEF CleanBuilder, AllLines, HeadOf
  <2> QED
    BY <1>2, <1>3 DEF CleanBuilder
<1> QED
  BY <1>4, <1>6

LEMMA CleanWrite ==
    ASSUME FileSound, CountersSound, BuiltSound, CleanFile, CleanBuilder, Write
    PROVE  CleanFile' /\ CleanBuilder'
<1>1. /\ pc = "write" /\ fd = "file" /\ file' \in WriteOutcomes
      /\ pc' = IF file'[Len(file')].written = "line" THEN "sync" ELSE "write"
      /\ UNCHANGED <<fd, builder, node, built>>
  BY DEF Write
<1>2. PICK l \in Nat : l = Len(file) /\ DOMAIN file = 1..l /\ (file = <<>> <=> l = 0)
  BY FileDomain DEF FileSound
<1>3. PICK n \in 1..Len(file') :
          /\ n = Len(file') /\ n > synced
          /\ n = IF Begun THEN Len(file) ELSE Len(file) + 1
          /\ file'[n].node = node /\ file'[n].by = "this"
          /\ \A k \in DOMAIN file' : k = n \/ (k \in DOMAIN file /\ k < n)
          /\ \A k \in DOMAIN file : k < n => file'[k] = file[k] /\ file[k].by = "past"
  BY <1>1, WriteShape
<1>4. file' \in Seq(Fragment) /\ DOMAIN file' = 1..n /\ n \in Nat /\ file' # <<>>
  <2>1. file' \in Seq(Fragment)
    BY <1>1, WriteShape
  <2>2. Len(file') \in Nat /\ DOMAIN file' = 1..Len(file') /\ (file' = <<>> <=> Len(file') = 0)
    BY <2>1, FileDomain
  <2> QED
    BY <1>3, <2>1, <2>2
<1>5. Begun'
  BY <1>3, <1>4 DEF Begun
<1>6. \A k \in DOMAIN file' : k < n => file'[k].written = "line"
  BY <1>1, <1>2, <1>3, <1>4 DEF CleanFile, CleanBuilder, AllLines
<1>7. PICK s : s = Nodes(file)
  OBVIOUS
<1>8. PICK t : t = Nodes(file')
  OBVIOUS
<1>9. /\ IsTrail(s) /\ Len(s) = l /\ DOMAIN s = 1..l /\ verify_audit_chain(s)
      /\ \A k \in 1..l : s[k] = file[k].node
  BY <1>2, <1>7, NodesTrail DEF FileSound, CleanFile
<1>10. /\ IsTrail(t) /\ Len(t) = n /\ DOMAIN t = 1..n
       /\ \A k \in 1..n : t[k] = file'[k].node
  BY <1>3, <1>4, <1>8, NodesTrail
<1>11. CASE Begun
  <2>1. n = l /\ file[l].node = node
    BY <1>2, <1>3, <1>11 DEF Begun, FileSound
  <2>2. \A k \in 1..l : t[k] = s[k]
    BY <1>2, <1>3, <1>4, <1>9, <1>10, <2>1
  <2>3. t = s
    BY <1>9, <1>10, <2>1, <2>2, SequencesEqual DEF IsTrail
  <2>4. verify_audit_chain(t)
    BY <1>9, <2>3
  <2>5. builder.next_sequence = n /\ builder.prev_chain_hash = node.chain_hash
    BY <1>1, <1>2, <1>4, <1>11, <2>1 DEF CleanBuilder, HeadOf
  <2> QED
    BY <1>1, <1>3, <1>4, <1>5, <1>6, <1>8, <2>4, <2>5 DEF CleanFile, CleanBuilder, HeadOf, AllLines
<1>12. CASE ~Begun
  <2>1. /\ n = l + 1 /\ node.sequence_number = l /\ node.prev_chain_hash = HeadOf(file)
        /\ builder.next_sequence = n /\ builder.prev_chain_hash = node.chain_hash
    BY <1>1, <1>2, <1>3, <1>12 DEF CleanBuilder
  <2>2. Hashed(node)
    BY <1>1 DEF FileSound, BuiltSound
  <2>3. t[n] = node /\ \A k \in DOMAIN s : t[k] = s[k]
    BY <1>2, <1>3, <1>9, <1>10, <2>1
  <2>4. node.prev_chain_hash = IF s = <<>> THEN chain_hash_genesis ELSE s[l].chain_hash
    <3>1. s = <<>> <=> l = 0
      BY <1>9, TrailDomain
    <3> QED
      BY <1>2, <1>9, <2>1, <3>1 DEF HeadOf
  <2>5. verify_audit_chain(t)
    BY <1>9, <1>10, <2>1, <2>2, <2>3, <2>4, AppendVerifies
  <2> QED
    BY <1>1, <1>3, <1>4, <1>5, <1>6, <1>8, <2>1, <2>5 DEF CleanFile, CleanBuilder, HeadOf, AllLines
<1> QED
  BY <1>11, <1>12

LEMMA CleanSync ==
    ASSUME FileSound, CleanFile, CleanBuilder, Sync
    PROVE  CleanFile' /\ CleanBuilder'
<1>1. /\ pc = "sync" /\ file' = Ended(file) /\ pc' = "idle" /\ UNCHANGED <<fd, builder>>
  BY DEF Sync
<1>2. PICK l \in Nat : l = Len(file) /\ DOMAIN file = 1..l /\ (file = <<>> <=> l = 0)
  BY FileDomain DEF FileSound
<1>3. /\ file' \in Seq(Fragment) /\ Len(file') = l /\ DOMAIN file' = 1..l
      /\ \A k \in 1..l : file'[k].written = file[k].written
      /\ Nodes(file') = Nodes(file) /\ HeadOf(file') = HeadOf(file)
  BY <1>1, <1>2, EndedShape, EndedNodes DEF FileSound
<1>4. file' = <<>> <=> l = 0
  BY <1>3, FileDomain
<1>5. CleanFile'
  BY <1>1, <1>2, <1>3, <1>4 DEF CleanFile
<1>6. CleanBuilder'
  <2> SUFFICES ASSUME fd = "file"
               PROVE  /\ builder.next_sequence = Len(file') /\ builder.prev_chain_hash = HeadOf(file')
                      /\ AllLines'
    BY <1>1 DEF CleanBuilder, HeadOf
  <2> QED
    BY <1>1, <1>2, <1>3 DEF CleanBuilder, AllLines
<1> QED
  BY <1>5, <1>6

LEMMA CleanCrash ==
    ASSUME FileSound, BuiltSound, CleanFile, Crash
    PROVE  CleanFile' /\ CleanBuilder'
<1>1. PICK f \in Survivors : file' = Ended(f)
  BY DEF Crash
<1>2. pc' = "down" /\ fd' = "none"
  BY DEF Crash
<1>3. PICK l \in Nat : l = Len(file) /\ DOMAIN file = 1..l /\ synced \in 0..l
  BY FileDomain DEF FileSound
<1>4. /\ f \in Seq(Fragment) /\ Len(f) \in synced..l
      /\ \A k \in DOMAIN f : k \in DOMAIN file /\ f[k].node = file[k].node
      /\ \A k \in DOMAIN f : k <= synced \/ k < Len(f) => f[k] = file[k]
  BY <1>3, SurvivorShape
<1>5. PICK m \in Nat : m = Len(f) /\ DOMAIN f = 1..m /\ m <= l
  BY <1>3, <1>4, FileDomain
<1>6. /\ Len(file') = m /\ DOMAIN file' = 1..m
      /\ \A k \in 1..m : file'[k].written = f[k].written
      /\ Nodes(file') = Nodes(f)
  BY <1>1, <1>4, <1>5, EndedShape, EndedNodes
<1>7. verify_audit_chain(Nodes(f))
  <2>1. /\ IsTrail(Nodes(file)) /\ DOMAIN Nodes(file) = 1..l /\ verify_audit_chain(Nodes(file))
        /\ \A k \in 1..l : Nodes(file)[k] = file[k].node
    BY <1>3, NodesTrail DEF FileSound, CleanFile
  <2>2. /\ IsTrail(Nodes(f)) /\ DOMAIN Nodes(f) = 1..m
        /\ \A k \in 1..m : Nodes(f)[k] = f[k].node
    BY <1>4, <1>5, NodesTrail
  <2>3. \A k \in DOMAIN Nodes(f) : k \in DOMAIN Nodes(file) /\ Nodes(f)[k] = Nodes(file)[k]
    BY <1>3, <1>4, <1>5, <2>1, <2>2
  <2>4. IsPrefixOf(Nodes(f), Nodes(file))
    BY <2>1, <2>2, <2>3, AgreeingIsPrefix DEF IsTrail
  <2> QED
    BY <2>1, <2>2, <2>4, PrefixVerifies DEF IsTrail
<1>8. \A k \in DOMAIN file' : k < Len(file') => file'[k].written = "line"
  BY <1>3, <1>4, <1>5, <1>6 DEF CleanFile
<1> QED
  BY <1>2, <1>6, <1>7, <1>8 DEF CleanFile, CleanBuilder

LEMMA CleanStep ==
    ASSUME FileSound, CountersSound, BuiltSound, CleanSound, Next
    PROVE  CleanSound'
<1> SUFFICES ASSUME restarts' = 0, failures' = 0 PROVE CleanFile' /\ CleanBuilder'
  BY DEF CleanSound
<1>1. /\ restarts \in Nat /\ failures \in Nat /\ fd \in {"none", "file", "other"}
      /\ fd # "none" => pc # "down"
  BY LogAssumption DEF CountersSound
<1>2. restarts = 0 /\ failures = 0 /\ ~Restart
  BY <1>1 DEF Next, Decide, Retry, Write, WriteElsewhere, WriteFails, Fails, Sync, SyncFails,
     OtherOpen, Crash, Restart
<1>3. CleanFile /\ CleanBuilder
  BY <1>2 DEF CleanSound
<1>4. ASSUME NEW r \in Records, Decide(r) PROVE CleanFile' /\ CleanBuilder'
  BY <1>3, <1>4, CleanDecide
<1>5. CASE Retry
  <2>1. pc = "failed" /\ UNCHANGED <<file, fd>>
    BY <1>5 DEF Retry
  <2>2. fd # "file"
    BY <1>3, <2>1 DEF CleanBuilder
  <2> QED
    BY <1>3, <2>1, <2>2, CleanSameFile DEF CleanBuilder
<1>6. CASE Write
  BY <1>3, <1>6, CleanWrite
<1>7. CASE WriteElsewhere
  <2>1. pc = "write" /\ fd = "other" /\ UNCHANGED <<file, fd>>
    BY <1>7 DEF WriteElsewhere
  <2> QED
    BY <1>3, <2>1, CleanSameFile DEF CleanBuilder
<1>8. CASE WriteFails
  <2>1. pc = "write" /\ fd = "none" /\ UNCHANGED fd /\ file' = Ended(file)
    BY <1>1, <1>2, <1>8 DEF WriteFails, Fails
  <2>2. file = <<>>
    BY <1>3, <2>1 DEF CleanFile
  <2>3. file' = file
    <3>1. Ended(file) \in Seq(Fragment) /\ Len(Ended(file)) = 0
      BY <2>2, EndedShape DEF FileSound
    <3> QED
      BY <2>1, <2>2, <3>1, FileDomain
  <2> QED
    BY <1>3, <2>1, <2>3, CleanSameFile DEF CleanBuilder
<1>9. CASE Sync
  BY <1>3, <1>9, CleanSync
<1>10. CASE SyncFails
  BY <1>1, <1>2, <1>10 DEF SyncFails, Fails
<1>11. CASE OtherOpen
  <2>1. pc # "down" /\ fd = "none" /\ fd' = "other" /\ UNCHANGED <<file, pc>>
    BY <1>11 DEF OtherOpen
  <2> QED
    BY <1>3, <2>1, CleanSameFile DEF CleanBuilder
<1>12. CASE Crash
  BY <1>3, <1>12, CleanCrash
<1> QED
  BY <1>2, <1>4, <1>5, <1>6, <1>7, <1>8, <1>9, <1>10, <1>11, <1>12 DEF Next
-----------------------------------------------------------------------------
(* From the inductive invariants to what the runs check *)

LEMMA TrailHolds == TrailInit => TrailSound
<1> SUFFICES ASSUME TrailInit PROVE TrailSound
  OBVIOUS
<1>1. IsTrail(<<>>) /\ Len(<<>>) = 0 /\ DOMAIN <<>> = {}
  <2>1. <<>> \in Seq({}) /\ Len(<<>>) = 0 /\ DOMAIN <<>> = {}
    OBVIOUS
  <2>2. IsSequence(<<>>)
    BY <2>1, SeqIsSequence
  <2> QED
    BY <2>1, <2>2 DEF IsTrail
<1>2. verify_audit_chain(<<>>)
  BY <1>1 DEF verify_audit_chain
<1>3. BuilderSound
  BY <1>1, <1>2 DEF TrailInit, BuilderSound, new_builder
<1> QED
  BY <1>1, <1>3, TrailAssumption DEF TrailInit, TrailSound, Delivered, OneChangeIsFound

LEMMA TrailStays == TrailSound /\ (TrailNext \/ UNCHANGED trail_vars) => TrailSound'
<1>1. ASSUME TrailSound, TrailNext PROVE TrailSound'
  BY <1>1, BuildKeeps, DeliverKeeps, AlterKeeps DEF TrailNext
<1>2. ASSUME TrailSound, UNCHANGED trail_vars PROVE TrailSound'
  BY <1>2 DEF trail_vars, TrailSound, BuilderSound, Delivered, OneChangeIsFound
<1> QED
  BY <1>1, <1>2

LEMMA TrailSoundShows == TrailSound => TrailInv /\ OneChangeIsFound /\ HeadBindsTrail
<1> SUFFICES ASSUME TrailSound PROVE TrailInv /\ OneChangeIsFound /\ HeadBindsTrail
  OBVIOUS
<1>1. /\ BuilderSound /\ IsTrail(nodes) /\ IsSequence(nodes) /\ altered \in 0..MaxAlterations
      /\ altered = 0 => Delivered(nodes)
  BY DEF TrailSound, IsTrail
<1>2. IsTrail(produced) /\ verify_audit_chain(produced)
  BY <1>1 DEF BuilderSound
<1>3. TrailTypeOK
  BY <1>1 DEF TrailTypeOK, BuilderSound
<1>4. GapsAreFound
  BY <1>1, <1>2, DeliveredPrefix, PrefixVerifies DEF GapsAreFound
<1>5. HeadBindsTrail
  <2> SUFFICES ASSUME verify_audit_chain(nodes), nodes # <<>>,
                      nodes[Len(nodes)].chain_hash = trail_builder.prev_chain_hash
               PROVE  nodes = produced
    BY DEF HeadBindsTrail
  <2>1. PICK k \in DOMAIN nodes : k = Len(nodes)
    BY <1>1, TrailDomain
  <2>2. nodes[k].chain_hash # chain_hash_genesis
    BY <1>1, VerifiedNode
  <2>3. produced # <<>> /\ nodes[Len(nodes)].chain_hash = produced[Len(produced)].chain_hash
    BY <1>1, <2>1, <2>2 DEF BuilderSound
  <2> QED
    BY <1>1, <1>2, <2>3, HeadBinds
<1> QED
  BY <1>3, <1>4, <1>5 DEF TrailInv, TrailSound

LEMMA LogHolds == Init => LogSound
<1> SUFFICES ASSUME Init PROVE LogSound
  OBVIOUS
<1>1. Len(<<>>) = 0 /\ DOMAIN <<>> = {}
  BY EmptySeq
<1>2. FileSound
  BY <1>1, EmptySeq DEF Init, FileSound
<1>3. CountersSound
  BY LogAssumption DEF Init, CountersSound
<1>4. BuiltSound
  <2>1. IsFiniteSet({}) /\ Cardinality({}) = 0
    BY FS_EmptySet
  <2> QED
    BY <2>1 DEF Init, BuiltSound, new_builder
<1>5. DiskSound
  BY DEF Init, DiskSound, LossNeedsReuse
<1>6. CleanSound
  <2>1. Nodes(<<>>) = <<>>
    BY DEF Nodes
  <2>2. verify_audit_chain(<<>>)
    BY <1>1 DEF verify_audit_chain
  <2>3. builder.next_sequence = 0 /\ builder.prev_chain_hash = chain_hash_genesis
    BY DEF Init, new_builder
  <2> QED
    BY <1>1, <2>1, <2>2, <2>3
    DEF Init, CleanSound, CleanFile, CleanBuilder, AllLines, HeadOf
<1> QED
  BY <1>2, <1>3, <1>4, <1>5, <1>6 DEF LogSound

LEMMA LogStays == LogSound /\ (Next \/ UNCHANGED vars) => LogSound'
<1>1. ASSUME LogSound, Next PROVE LogSound'
  BY <1>1, FileStep, CountersStep, BuiltStep, DiskStep, CleanStep DEF LogSound
<1>2. ASSUME LogSound, UNCHANGED vars PROVE LogSound'
  <2> USE <1>2 DEF vars, LogSound
  <2>1. FileSound'
    BY DEF FileSound, Fragment
  <2>2. CountersSound'
    BY DEF CountersSound
  <2>3. BuiltSound'
    BY DEF BuiltSound
  <2>4. DiskSound'
    BY DEF DiskSound, LossNeedsReuse, OnDisk
  <2>5. CleanSound'
    BY DEF CleanSound, CleanFile, CleanBuilder, AllLines, HeadOf, Begun, Nodes
  <2> QED
    BY <2>1, <2>2, <2>3, <2>4, <2>5
<1> QED
  BY <1>1, <1>2

LEMMA FileIsWellTyped == LogSound => TypeOK
<1> SUFFICES ASSUME LogSound PROVE TypeOK
  OBVIOUS
<1>1. FileSound /\ CountersSound /\ BuiltSound
  BY DEF LogSound
<1>2. ASSUME NEW k \in DOMAIN file
      PROVE  file[k].written \in Written /\ \E b \in built : b.node = file[k].node
  <2>1. file[k] \in Fragment
    BY <1>1, FileDomain DEF FileSound
  <2> QED
    BY <2>1 DEF Fragment
<1> QED
  BY <1>1, <1>2 DEF TypeOK, FileSound, CountersSound, BuiltSound

LEMMA CleanFileVerifies ==
    ASSUME FileSound, BuiltSound, CleanFile
    PROVE  FileVerifies
<1>1. PICK l \in Nat : l = Len(file) /\ DOMAIN file = 1..l /\ (file = <<>> <=> l = 0)
  BY FileDomain DEF FileSound
<1>2. CASE parse_audit_nodes(file)
  BY <1>2 DEF FileVerifies, verify_stream, CleanFile, Nodes
<1>3. CASE ~parse_audit_nodes(file)
  <2>1. l # 0
    BY <1>1, <1>3 DEF parse_audit_nodes
  <2>2. PICK f : f = SubSeq(file, 1, l - 1)
    OBVIOUS
  <2>3. /\ f \in Seq(Fragment) /\ Len(f) = l - 1 /\ DOMAIN f = 1..(l - 1)
        /\ \A k \in 1..(l - 1) : f[k] = file[k]
    <3>1. l - 1 \in 0..l /\ \A k \in 1..(l - 1) : file[k] \in Fragment
      BY <1>1, <2>1, FileDomain DEF FileSound
    <3>2. f \in Seq(Fragment) /\ Len(f) = l - 1 /\ \A k \in 1..(l - 1) : f[k] = file[k]
      BY <1>1, <2>2, <3>1 DEF FileSound
    <3> QED
      BY <3>2, FileDomain
  <2>4. parse_audit_nodes(f)
    BY <1>1, <2>3 DEF parse_audit_nodes, CleanFile
  <2>5. verify_audit_chain(Nodes(f))
    <3>1. /\ IsTrail(Nodes(file)) /\ DOMAIN Nodes(file) = 1..l /\ verify_audit_chain(Nodes(file))
          /\ \A k \in 1..l : Nodes(file)[k] = file[k].node
      BY <1>1, NodesTrail DEF FileSound, CleanFile
    <3>2. /\ IsTrail(Nodes(f)) /\ DOMAIN Nodes(f) = 1..(l - 1)
          /\ \A k \in 1..(l - 1) : Nodes(f)[k] = f[k].node
      BY <2>3, NodesTrail
    <3>3. \A k \in DOMAIN Nodes(f) : k \in DOMAIN Nodes(file) /\ Nodes(f)[k] = Nodes(file)[k]
      BY <1>1, <2>3, <3>1, <3>2
    <3>4. IsPrefixOf(Nodes(f), Nodes(file))
      BY <3>1, <3>2, <3>3, AgreeingIsPrefix DEF IsTrail
    <3> QED
      BY <3>1, <3>2, <3>4, PrefixVerifies DEF IsTrail
  <2>6. verify_stream(f)
    BY <2>4, <2>5 DEF verify_stream, Nodes
  <2> QED
    BY <1>1, <2>2, <2>6 DEF FileVerifies
<1> QED
  BY <1>2, <1>3

LEMMA LogSoundShows == LogSound => LogInv /\ LossNeedsReuse /\ CleanRunIsReadable
<1> SUFFICES ASSUME LogSound PROVE LogInv /\ LossNeedsReuse /\ CleanRunIsReadable
  OBVIOUS
<1>1. FileSound /\ BuiltSound /\ LossNeedsReuse
  BY DEF LogSound, DiskSound
<1>2. VerifiedIsComplete
  BY <1>1, VerifiedFileIsComplete DEF VerifiedIsComplete
<1>3. CleanRunIsReadable
  <2> SUFFICES ASSUME restarts = 0, failures = 0
               PROVE  /\ FileVerifies
                      /\ \A n \in acked \ elsewhere :
                             \E k \in DOMAIN file : file[k].node = n /\ Readable(file, k)
    BY DEF CleanRunIsReadable
  <2>1. CleanFile
    BY DEF LogSound, CleanSound
  <2>2. FileVerifies
    BY <1>1, <2>1, CleanFileVerifies
  <2>3. PICK l \in Nat : l = Len(file) /\ DOMAIN file = 1..l /\ synced \in 0..l
    BY <1>1, FileDomain DEF FileSound
  <2>4. ASSUME NEW n \in acked \ elsewhere
        PROVE  \E k \in DOMAIN file : file[k].node = n /\ Readable(file, k)
    <3>1. PICK k \in 1..synced : file[k].node = n /\ file[k].written = "line"
      BY <1>1 DEF LossNeedsReuse, OnDisk
    <3>2. k \in DOMAIN file /\ (k = 1 \/ file[k - 1].written = "line")
      BY <2>1, <2>3 DEF CleanFile
    <3> QED
      BY <3>1, <3>2 DEF Readable
  <2> QED
    BY <2>2, <2>4
<1> QED
  BY <1>1, <1>2, <1>3, FileIsWellTyped DEF LogInv

LEMMA StorageOnlyGrows ==
    ASSUME FileSound, StorageKept, FileSound'
    PROVE  synced' >= synced /\ SubSeq(file', 1, synced) = SubSeq(file, 1, synced)
<1>1. PICK l \in Nat : l = Len(file) /\ DOMAIN file = 1..l /\ synced \in 0..l
  BY FileDomain DEF FileSound
<1>2. IsSequence(file) /\ IsSequence(file')
  BY SeqIsSequence DEF FileSound
<1>3. synced' >= synced /\ synced \in 0..Len(file') /\ Len(file') \in Nat
  BY <1>1, <1>2, SequenceDomain DEF StorageKept
<1>4. /\ IsSequence(SubSeq(file, 1, synced)) /\ Len(SubSeq(file, 1, synced)) = synced
      /\ \A k \in 1..synced : SubSeq(file, 1, synced)[k] = file[k]
  BY <1>1, <1>2, PrefixSequence
<1>5. /\ IsSequence(SubSeq(file', 1, synced)) /\ Len(SubSeq(file', 1, synced)) = synced
      /\ \A k \in 1..synced : SubSeq(file', 1, synced)[k] = file'[k]
  BY <1>2, <1>3, PrefixSequence
<1>6. \A k \in 1..synced : file'[k] = file[k]
  BY DEF StorageKept
<1> QED
  BY <1>3, <1>4, <1>5, <1>6, SequencesEqual

-----------------------------------------------------------------------------
(* The theorems *)

LEMMA SinksStaySound == SinkSpec => [](TrailSound /\ LogSound)
<1>1. SinkInit => TrailSound /\ LogSound
  BY TrailHolds, LogHolds DEF SinkInit
<1>2. TrailSound /\ LogSound /\ [SinkNext]_<<sink, trail_vars, vars>> => (TrailSound /\ LogSound)'
  <2>1. SinkNext \/ UNCHANGED <<sink, trail_vars, vars>>
            => (TrailNext \/ UNCHANGED trail_vars) /\ (Next \/ UNCHANGED vars)
    BY DEF SinkNext, Memory, File
  <2> QED
    BY <2>1, TrailStays, LogStays
<1> QED
  BY <1>1, <1>2, PTL DEF SinkSpec

(* AuditTrail.TrailInv: verify_audit_chain accepts what the builder has    *)
(* produced, and of what was delivered to MemoryAuditSink it accepts       *)
(* exactly the prefixes of that, whatever append() let through.            *)
THEOREM GapsDoNotPass == SinkSpec => []TrailInv
BY SinksStaySound, TrailSoundShows, PTL

(* AuditTrail.OneChangeIsFound: no single change to a stored trail of any  *)
(* length passes verify_audit_chain, but for nodes missing at its end.     *)
THEOREM SingleChangesAreFound == SinkSpec => []OneChangeIsFound
BY SinksStaySound, TrailSoundShows, PTL

(* AuditTrail.HeadBindsTrail: after any number of changes, a trail that    *)
(* verifies and ends in current_chain_hash() is the builder's.             *)
THEOREM CurrentHashBindsTrail == SinkSpec => []HeadBindsTrail
BY SinksStaySound, TrailSoundShows, PTL

(* AuditLog.LogInv: every line of the file is a node that was built, and a *)
(* file that audit-verify accepts lacks no earlier node of the run of the  *)
(* process its last line is from.                                          *)
THEOREM AcceptedFilesAreComplete == SinkSpec => []LogInv
BY SinksStaySound, LogSoundShows, PTL

(* AuditLog.LossNeedsReuse: what FileAuditSink::append returned Ok for is  *)
(* on stable storage as a whole line, after any number of failed calls,    *)
(* retries, crashes and restarts, unless its descriptor number had come to *)
(* belong to another file.                                                 *)
THEOREM OkMeansStored == SinkSpec => []LossNeedsReuse
BY SinksStaySound, LogSoundShows, PTL

(* AuditLog.CleanRunIsReadable: one process without failed calls leaves a  *)
(* file that audit-verify accepts up to its last line.                     *)
THEOREM CleanRunsVerify == SinkSpec => []CleanRunIsReadable
BY SinksStaySound, LogSoundShows, PTL

(* AuditLog.SyncedNeverChanges: no step changes or removes a line that is  *)
(* on stable storage.                                                      *)
THEOREM StorageIsAppendOnly == SinkSpec => SyncedNeverChanges
<1>1. LogSound /\ LogSound' /\ [SinkNext]_<<sink, trail_vars, vars>>
          => [/\ synced' >= synced
              /\ SubSeq(file', 1, synced) = SubSeq(file, 1, synced)]_vars
  <2> SUFFICES ASSUME FileSound, FileSound', [SinkNext]_<<sink, trail_vars, vars>>
               PROVE  [/\ synced' >= synced
                       /\ SubSeq(file', 1, synced) = SubSeq(file, 1, synced)]_vars
    BY DEF LogSound
  <2>1. Next \/ UNCHANGED vars
    BY DEF SinkNext, Memory, File
  <2>2. CASE Next
    <3>1. StorageKept
      BY <2>2, FileStep
    <3> QED
      BY <3>1, StorageOnlyGrows
  <2> QED
    BY <2>1, <2>2
<1> QED
  BY <1>1, SinksStaySound, PTL DEF SinkSpec, SyncedNeverChanges
=============================================================================
