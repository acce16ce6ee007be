--------------------------- MODULE SchemaRegistry ---------------------------
(***************************************************************************)
(* ActionSchemaRegistry: schemas are created in the program or read from   *)
(* documents, appended to a std::vector and handed out as raw pointers     *)
(* into it.  A pointer is the vector's buffer at the time and the position *)
(* in it; push_back on a full vector moves the elements to a new buffer    *)
(* and frees the old one.  The capacity doubles (libstdc++ and libc++),    *)
(* starting from none.                                                     *)
(***************************************************************************)
EXTENDS ActionSchemaJson, Sequences, SequencesExt

CONSTANTS
    Built,         \* the schemas a deployment makes in its own code
    Documents,     \* the documents it reads
    MaxPointers    \* bound on the pointers clients keep

ASSUME RegistryAssumption == Built \subseteq Schema /\ MaxPointers \in Nat

VARIABLES
    schemas_,   \* the vector: registered schemas in order
    capacity,   \* of the buffer
    buffer,     \* identity of the buffer the elements live in
    pointers    \* pointers handed out and kept, with what they pointed to

vars == <<schemas_, capacity, buffer, pointers>>

Init ==
    /\ schemas_ = <<>>
    /\ capacity = 0
    /\ buffer = 0
    /\ pointers = {}

Matching(action, versions) ==
    {i \in DOMAIN schemas_ : schemas_[i].action_id = action /\ schemas_[i].version \in versions}

(* The first match, or none.                                               *)
find(action, version) ==
    {i \in Matching(action, {version}) :
        \A j \in Matching(action, {version}) : i <= j}

(* Faulty variant: the search runs from the front.                         *)
first_for(action) ==
    {i \in Matching(action, Versions) : \A j \in Matching(action, Versions) : i <= j}

(* The last match, or none.                                                *)
latest_for(action) ==
    {i \in Matching(action, Versions) : \A j \in Matching(action, Versions) : j <= i}

(* In the order of registration.                                           *)
versions_for(action) ==
    LET own == Matching(action, Versions)
        Place(i) == Cardinality({j \in own : j < i}) + 1
    IN  [k \in 1..Cardinality(own) |-> schemas_[CHOOSE i \in own : Place(i) = k].version]

push_back(s) ==
    /\ schemas_' = Append(schemas_, s)
    /\ IF Len(schemas_) = capacity
       THEN /\ capacity' = IF capacity = 0 THEN 1 ELSE 2 * capacity
            /\ buffer' = buffer + 1
       ELSE UNCHANGED <<capacity, buffer>>

register_schema(s) ==
    /\ find(s.action_id, s.version) = {}
    /\ push_back(s)
    /\ UNCHANGED pointers

Register ==
    \E s \in UNION ({create_schema(t) : t \in Built}
                   \cup {parse_action_schema_json(doc) : doc \in Documents}) :
        register_schema(s)

(* A client (the pipeline, the prompt builder) looks an action up and      *)
(* keeps the pointer.                                                      *)
Lookup(action) ==
    /\ Cardinality(pointers) < MaxPointers
    /\ \E i \in latest_for(action) :
           pointers' = pointers \cup {[buffer |-> buffer, index |-> i, to |-> schemas_[i]]}
    /\ UNCHANGED <<schemas_, capacity, buffer>>

Forget ==
    /\ \E p \in pointers : pointers' = pointers \ {p}
    /\ UNCHANGED <<schemas_, capacity, buffer>>

Next ==
    \/ Register
    \/ \E a \in ActionIds : Lookup(a)
    \/ Forget

Spec == Init /\ [][Next]_vars

-----------------------------------------------------------------------------
TypeOK ==
    /\ schemas_ \in Seq(Schema)
    /\ capacity \in Nat /\ buffer \in Nat /\ Len(schemas_) <= capacity
    /\ pointers \subseteq [buffer : Nat, index : Nat \ {0}, to : Schema]

(* Every registered schema obeys the rules of action-schema-v0.md, an      *)
(* (action, version) pair names at most one of them for ever, and whoever  *)
(* keeps a pointer into the current buffer finds there what he looked up.  *)
(* What can be written as JSON and read again is known.                    *)
RegistryConsistent ==
    /\ \A i \in DOMAIN schemas_ : SpecifiedRules(schemas_[i].draft) /\ RoundTrips(schemas_[i])
    /\ \A a \in ActionIds : IsInjective(versions_for(a))
    /\ \A p \in pointers : p.buffer = buffer => schemas_[p.index] = p.to
    /\ \A doc \in Documents : ReadAsWritten(doc)
=============================================================================
