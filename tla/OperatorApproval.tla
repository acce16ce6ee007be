-------------------------- MODULE OperatorApproval --------------------------
(***************************************************************************)
(* What the session state machine promises to the operator, without its    *)
(* states: parameters may be amended while no offer is on the table; an    *)
(* offer is made only of complete parameters and shows exactly these; only *)
(* an approved offer is executed, with the parameters that were offered;   *)
(* a closed dialogue never moves again.                                    *)
(***************************************************************************)
EXTENDS Naturals, Sequences

CONSTANTS Values, Nil

VARIABLES phase,    \* "open", "offered", "approved", "executed" or "closed"
          params,   \* the slots: whether each is required and its value
          offer     \* what the operator was shown, while that matters

vars == <<phase, params, offer>>

ShownParams == [i \in DOMAIN params |-> params[i].value]

Complete == \A i \in DOMAIN params : params[i].required => params[i].value # Nil

Init ==
    /\ phase = "open"
    /\ params \in Seq([required : BOOLEAN, value : Values \cup {Nil}])
    /\ offer = Nil

Amend ==
    /\ phase = "open"
    /\ \E i \in DOMAIN params, v \in Values :
           params' = [params EXCEPT ![i].value = v]
    /\ UNCHANGED <<phase, offer>>

Offer ==
    /\ phase = "open" /\ Complete
    /\ phase' = "offered"
    /\ offer' = ShownParams
    /\ UNCHANGED params

Withdraw ==
    /\ phase = "offered"
    /\ phase' = "open"
    /\ offer' = Nil
    /\ UNCHANGED params

Approve ==
    /\ phase = "offered"
    /\ Complete /\ offer = ShownParams
    /\ phase' = "approved"
    /\ UNCHANGED <<params, offer>>

Execute ==
    /\ phase = "approved"
    /\ Complete /\ offer = ShownParams
    /\ phase' = "executed"
    /\ UNCHANGED <<params, offer>>

Close ==
    /\ phase \in {"open", "offered", "approved"}
    /\ phase' = "closed"
    /\ offer' = Nil
    /\ UNCHANGED params

Next == Amend \/ Offer \/ Withdraw \/ Approve \/ Execute \/ Close

Spec == Init /\ [][Next]_vars
=============================================================================
