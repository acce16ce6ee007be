---------------------------- MODULE MCAuditSinks ----------------------------
EXTENDS AuditSinks, TLC

Symmetry == Permutations(Records)
=============================================================================
