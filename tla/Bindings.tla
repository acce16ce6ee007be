------------------------------ MODULE Bindings ------------------------------
(***************************************************************************)
(* One client of the stdio server, of the Node.js or the Python binding.   *)
(***************************************************************************)
EXTENDS NodeBinding, PythonBinding

VARIABLE binding  \* which of the two it is

vars == <<server_vars, node_vars, lock, binding>>

Init == ServerInit /\ NodeInit /\ PythonInit /\ binding \in {"node", "python"}

Node == binding = "node" /\ NodeNext /\ UNCHANGED <<lock, binding>>
Python == binding = "python" /\ PythonNext /\ UNCHANGED <<node_vars, binding>>

Next == Node \/ Python

Spec == Init /\ [][Next]_vars

(* The server reads and answers, the event loop emits what happened, and   *)
(* threads that can go on do; nobody has to call anything.                 *)
Fairness ==
    /\ WF_vars(binding = "node" /\ close_input /\ UNCHANGED <<lock, binding>>)
    /\ \A p \in Processes :
           /\ WF_vars(binding = "node" /\ (handle(p) \/ Leave(p)) /\ UNCHANGED <<node_vars, lock, binding>>)
           /\ WF_vars(binding = "node" /\ (line(p) \/ process_error(p) \/ process_close(p)) /\ UNCHANGED <<lock, binding>>)
           /\ WF_vars(binding = "python" /\ (handle(p) \/ Leave(p)) /\ UNCHANGED <<node_vars, lock, binding>>)
    /\ \A c \in Calls :
           WF_vars(binding = "python" /\ (write(c) \/ readline(c)) /\ UNCHANGED <<node_vars, binding>>)

FairSpec == Spec /\ Fairness

-----------------------------------------------------------------------------
(* Types; requests are answered with their own answers, in the Node.js     *)
(* binding as long as no server crashed; close() leaves nothing open.      *)
BindingInv ==
    /\ ServerTypeOK /\ NodeTypeOK /\ PythonTypeOK
    /\ binding = "node" => NodeAnswers /\ CloseDrains
    /\ binding = "python" => PythonAnswers

Abandoned == binding = "node" /\ \E p \in Processes : process[p] = "crashed"

(* Every call ends, in the Python binding even when the server crashes; so *)
(* does close().                                                           *)
CallsEnd ==
    /\ \A c \in Calls : result[c] \in {"waiting", "pending"}
                            ~> result[c] \notin {"waiting", "pending"} \/ Abandoned
    /\ closing # "no" ~> closing = "no" \/ Abandoned
=============================================================================
