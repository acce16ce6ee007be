------------------------- MODULE MCSessionLifecycle -------------------------
(* Small instance: a required and an optional slot, a pre-filled list, two *)
(* slots with the same name, and a list create() refuses.                  *)
EXTENDS SessionJson

CONSTANTS n1, n2, v1, v2

MCSlot(name, required, value) == [name |-> name, required |-> required, value |-> value]

MCSlotLists ==
    {<<>>,
     <<MCSlot(n1, TRUE, Nil), MCSlot(n2, FALSE, Nil)>>,
     <<MCSlot(n1, TRUE, v1),  MCSlot(n2, TRUE, Nil)>>,
     <<MCSlot(n1, TRUE, Nil), MCSlot(n1, TRUE, v2)>>,
     <<MCSlot(n1, TRUE, Nil), MCSlot(Nil, TRUE, Nil)>>}

MCTtls == {2}
MCStarts == {0, 1}
=============================================================================
