--------------------------- MODULE MCSessionStore ---------------------------
(* Small instance: handlers of two owners, one required slot.              *)
EXTENDS SessionStore, TLC

CONSTANTS n1, o1, o2, c1, c2

MCSlotLists == {<<[name |-> n1, required |-> TRUE, value |-> Nil]>>}

MCOwnerOf == (c1 :> o1) @@ (c2 :> o2)
=============================================================================
