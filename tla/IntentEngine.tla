---------------------------- MODULE IntentEngine ----------------------------
(***************************************************************************)
(* IntentEngine::process from the operator's text to a stored session: the *)
(* two-level classifier, the newest schema of the action it names, the     *)
(* scope check, the slot extractor, create and save - while an embedding   *)
(* registers schemas and works on the sessions.                            *)
(*                                                                         *)
(* The backend may answer anything: level1 is a list of candidates (Nil    *)
(* when generate() fails or the text is not the expected JSON), level2 an  *)
(* object of parameters (Nil when the call fails or it is not an object).  *)
(* A JSON null is Nil, an action Nil is an entry without a valid           *)
(* action_id or confidence.  The knowledge found goes into the prompt      *)
(* only; its failure is no error, so it restricts nothing here.            *)
(***************************************************************************)
EXTENDS SessionAggregate, KnowledgeSources

CONSTANTS
    SessionIds,
    Signature,          \* what the schema of an action version demands
    Level1, Level2,     \* the answers of the backend
    Grants,             \* the scopes an operator may come with
    MinConfidence, MinGap,
    Ttl,
    OtherAnswers        \* answers of a knowledge source of the embedding's own

(* JSON parameters: values by their names.                                 *)
AreSlots(f) == \A name \in DOMAIN f : f[name] \in Values \cup {Nil}

ASSUME EngineAssumption ==
    /\ \A answer \in Level1 \ {Nil} :
           /\ answer \in Seq(Range(answer))
           /\ \A i \in DOMAIN answer : answer[i].confidence \in Nat /\ AreSlots(answer[i].slots)
    /\ \A answer \in Level2 \ {Nil} : AreSlots(answer)
    /\ \A a \in ActionIds, v \in Versions :
           Signature[<<a, v>>].properties \in Seq(SlotNames \cup {Nil})
    /\ \A a \in ActionIds, v \in Versions : Signature[<<a, v>>].scopes # {}
    /\ MinConfidence \in Nat /\ MinGap \in Nat /\ Ttl \in Nat
    /\ \A answer \in OtherAnswers : IsAnswer(answer)

VARIABLE stored  \* id -> the session, its action and, as history, the request

engine_vars == <<vars, stored>>

EngineInit == Init /\ stored = [id \in SessionIds |-> Nil]

(* A parameter schema that is no object declares nothing.                  *)
Declares(s) == s.draft.parameters = "object"

Demands(s) == Signature[<<s.action_id, s.version>>]

RequiredOf(i)   == IF Declares(schemas_[i]) THEN Demands(schemas_[i]).required ELSE {}
PropertiesOf(i) == IF Declares(schemas_[i]) THEN Demands(schemas_[i]).properties ELSE <<>>
ScopesOf(i)     == Demands(schemas_[i]).scopes

-----------------------------------------------------------------------------
(* The classifier *)

(* Faulty variant: the candidates stay in the order of the answer.         *)
parse_unsorted(answer) ==
    IF answer = Nil \/ answer = <<>> \/ \E i \in DOMAIN answer : answer[i].action = Nil
    THEN {} ELSE {answer}

(* The candidates by descending confidence, or an error.                   *)
parse_classification_response(answer) ==
    IF answer = Nil \/ answer = <<>> \/ \E i \in DOMAIN answer : answer[i].action = Nil
    THEN {} ELSE {stable_sort(answer, LAMBDA a, b : a.confidence > b.confidence)}

Ambiguous(candidates) ==
    \/ candidates[1].confidence < MinConfidence
    \/ /\ Len(candidates) > 1
       /\ candidates[1].confidence - candidates[2].confidence < MinGap

has_missing_required_slots(i, slots) ==
    \E name \in RequiredOf(i) : name \notin DOMAIN slots \/ slots[name] = Nil

(* Faulty variant: what level 1 found stays as it is.                      *)
merge_slots_keeping(current, new) == current @@ new

merge_slots(current, new) ==
    [n \in DOMAIN current \cup DOMAIN new |-> IF n \in DOMAIN new THEN new[n] ELSE current[n]]

classify(level1, level2) ==
    {LET slots == candidates[1].slots
         ask == \E i \in latest_for(candidates[1].action) : has_missing_required_slots(i, slots)
     IN  [action |-> candidates[1].action,
          slots  |-> IF ask /\ level2 # Nil THEN merge_slots(slots, level2) ELSE slots] :
     candidates \in {c \in parse_classification_response(level1) : ~Ambiguous(c)}}

-----------------------------------------------------------------------------
(* The engine *)

(* Faulty variant: "required" is not looked at.                            *)
extract_optional(i, slots) ==
    {[k \in DOMAIN PropertiesOf(i) |->
        [name |-> PropertiesOf(i)[k], required |-> FALSE,
         value |-> IF PropertiesOf(i)[k] \in DOMAIN slots THEN slots[PropertiesOf(i)[k]] ELSE Nil]]}

(* SchemaSlotExtractor: one slot per declared property, or an error when   *)
(* the parameter schema is no JSON.                                        *)
extract(i, slots) ==
    IF schemas_[i].draft.parameters = "text" THEN {}
    ELSE {[k \in DOMAIN PropertiesOf(i) |->
              LET name == PropertiesOf(i)[k]
              IN  [name |-> name, required |-> name \in RequiredOf(i),
                   value |-> IF name \in DOMAIN slots THEN slots[name] ELSE Nil]]}

(* Faulty variant: the operator needs one of the scopes.                   *)
permitted_by_any(i, granted_scopes) ==
    ScopesOf(i) = {} \/ ScopesOf(i) \cap granted_scopes # {}

permitted(i, granted_scopes) == ScopesOf(i) \subseteq granted_scopes

id_conflict(id, owner) == stored[id] # Nil /\ stored[id].session.owner # owner

(* An owner's ids do not repeat; another owner's may (id_conflict).        *)
Repeated(id, owner) == stored[id] # Nil /\ stored[id].session.owner = owner

process(owner, granted_scopes, level1, level2, id) ==
    /\ ~Repeated(id, owner)
    /\ \E intent \in classify(level1, level2) :
       \E i \in latest_for(intent.action) :
           /\ permitted(i, granted_scopes)
           /\ \E s \in UNION {create(owner, slots, 0, Ttl) : slots \in extract(i, intent.slots)} :
                  /\ ~id_conflict(id, owner)
                  /\ stored' = [stored EXCEPT ![id] =
                         [session |-> s, schema |-> schemas_[i],
                          granted |-> granted_scopes, level1 |-> level1, level2 |-> level2]]
    /\ UNCHANGED vars

save(id, session) == stored' = [stored EXCEPT ![id].session = session]

(* The embedding loads, changes and saves a session.  Left out is what     *)
(* shows the operator nothing: clarifications, and ends of a session.      *)
Serve(id) ==
    /\ stored[id] # Nil
    /\ LET s == stored[id].session
       IN  \E t \in (UNION {fill_slot(s, n, v, 0) : n \in SlotNames, v \in Values})
                    \cup preview(s, Params(s.slots), 0) \cup reject_preview(s, 0)
                    \cup confirm(s, 0) : save(id, t)
    /\ UNCHANGED vars

EngineNext ==
    \/ Next /\ UNCHANGED stored
    \/ \E owner \in Owners, granted \in Grants, l1 \in Level1, l2 \in Level2, id \in SessionIds :
           process(owner, granted, l1, l2, id)
    \/ \E id \in SessionIds : Serve(id)

EngineSpec == EngineInit /\ [][EngineNext]_engine_vars

-----------------------------------------------------------------------------
Existing == {id \in SessionIds : stored[id] # Nil}

EngineTypeOK ==
    /\ TypeOK
    /\ \A id \in Existing : /\ stored[id].session \in IntentSession
                            /\ stored[id].schema \in Schema

(* No answer of the backend gets an operator a session for an action whose *)
(* scopes he was not granted, and the session asks for exactly what the    *)
(* schema declares - whatever was registered or filled since.  A schema    *)
(* whose parameters are no JSON opens none.                                *)
Admitted(r) ==
    LET declared == IF Declares(r.schema) THEN Demands(r.schema).properties ELSE <<>>
    IN  /\ Demands(r.schema).scopes \subseteq r.granted
        /\ r.schema.draft.parameters # "text"
        /\ Len(r.session.slots) = Len(declared)
        /\ \A k \in DOMAIN declared :
               /\ r.session.slots[k].name = declared[k]
               /\ r.session.slots[k].required = (declared[k] \in Demands(r.schema).required)

(* Types; the registry keeps its identities and live pointers whatever is  *)
(* registered under the sessions; only admitted sessions exist.            *)
EngineInv ==
    /\ EngineTypeOK
    /\ RegistryConsistent
    /\ \A id \in Existing : Admitted(stored[id])

Justified(r) ==
    \E i \in DOMAIN r.level1 :
        /\ r.level1[i].action = r.schema.action_id
        /\ r.level1[i].confidence >= MinConfidence
        /\ \A j \in DOMAIN r.level1 \ {i} :
               r.level1[j].confidence + MinGap <= r.level1[i].confidence

(* The action of a session was named with enough confidence, and every     *)
(* other candidate stayed MinGap behind, in whatever order they came.      *)
ChoiceIsJustified == \A id \in Existing : Justified(stored[id])

Best(r) == {i \in DOMAIN r.level1 :
               \A j \in DOMAIN r.level1 : r.level1[j].confidence <= r.level1[i].confidence}

Complete(r, slots) ==
    Declares(r.schema) => \A n \in Demands(r.schema).required :
                              n \in DOMAIN slots /\ slots[n] # Nil

Said(slots, slot) ==
    slot.value = IF slot.name \in DOMAIN slots THEN slots[slot.name] ELSE Nil

(* A new session is one of the version registered last, and its slots hold *)
(* what the backend said of its action and nothing else: the second answer *)
(* where it speaks of a parameter, the first one otherwise, and alone      *)
(* where it was complete (ADR-0009).                                       *)
ValuesFromAnswers ==
    [][\A id \in SessionIds :
           LET r == stored'[id]
           IN  stored[id] = Nil /\ r # Nil =>
                /\ \A i \in DOMAIN schemas_ :
                       (\A j \in i..Len(schemas_) : schemas_[j] # r.schema)
                           => schemas_[i].action_id # r.schema.action_id
                /\ \E i \in Best(r) : \A k \in DOMAIN r.session.slots :
                       LET slot == r.session.slots[k]
                           first == r.level1[i].slots
                       IN  IF ~Complete(r, first) /\ r.level2 # Nil /\ slot.name \in DOMAIN r.level2
                           THEN Said(r.level2, slot)
                           ELSE Said(first, slot)]_engine_vars

(* What is shown to the operator or executed fits the current schema as    *)
(* long as no newer version was registered since the session began.        *)
ShownFitsSchema ==
    \A id \in Existing :
        LET s == stored[id].session
        IN  \A i \in latest_for(stored[id].schema.action_id) :
                s.state \in {"preview", "commit"} /\ schemas_[i] = stored[id].schema =>
                    \A n \in RequiredOf(i) \cap Range(PropertiesOf(i)) :
                        \E k \in DOMAIN s.slots : s.slots[k].name = n /\ s.slots[k].value # Nil

(* Whatever is registered or indexed, whatever the embedding's own source  *)
(* answers and whichever of them fail: the backend is shown the best       *)
(* entries, each once, from sources that leave out only what they must.    *)
AnswersTheBest ==
    \A query \in Queries :
        /\ FirstSchemasOffered(query) /\ OneLanguage(query)
        /\ \A indexed \in SUBSET DOMAIN Similarity, other \in OtherAnswers :
               \A vectors \in retrieve_vectors(indexed) :
                   KeepsTheBest(<<retrieve_schemas(query), retrieve_glossary(query), vectors, other>>)

(* Sessions and pointers have no part in it, so a run looks while there    *)
(* are none.                                                               *)
RetrievesTheBest == Existing = {} /\ pointers = {} => AnswersTheBest
=============================================================================
