--------------------------- MODULE MCOperatorPage ---------------------------
(* One required slot and one that may stay empty.                          *)
EXTENDS OperatorPage

CONSTANTS a, b

MCSlotLists ==
    {<<[name |-> a, required |-> TRUE, value |-> Nil], [name |-> b, required |-> FALSE, value |-> Nil]>>}

(* Every mode of the button in every kind of host, and every adapter.      *)
MCSetups ==
    [adapter : {"listener"}, mode : ConfirmationModes,
     host : {"standing", "per_preview"}, late : BOOLEAN]
    \cup [adapter : Adapters, mode : {"single"}, host : {"per_preview"}, late : {FALSE}]

(* The React hook.                                                         *)
MCReact ==
    [adapter : {"react"}, mode : {"single"}, host : {"per_preview"}, late : {FALSE}]

MCCoolings == {-1, 0, 2}
=============================================================================
