-------------------------- MODULE ActionSchemaJson --------------------------
(***************************************************************************)
(* action_schema_json.cpp: a document read into an ActionSchema, and an    *)
(* ActionSchema written as a document.  A field of a document is Bad when  *)
(* it is missing, of another JSON type, an unknown enumerator, or a text   *)
(* (or list) the parser of that field refuses; which error is reported for *)
(* the first of them is left out.  Texts that are copied are left out:     *)
(* idempotency key, scopes, intents, validation rules.                     *)
(*                                                                         *)
(* A JSON number is an integer to the parser when it fits into 64 bits,    *)
(* signed or unsigned; get<int64_t> reads either, modulo 2^64.             *)
(***************************************************************************)
EXTENDS ActionSchema, Integers

CONSTANTS
    ActionIds, Versions,
    Half,       \* 2^63
    Bad

ASSUME JsonAssumption ==
    /\ Half \in Nat \ {0}
    /\ Bad \notin {"object", "empty_object", "json", "intent_empty"}

Schema == [action_id : ActionIds, version : Versions, draft : ActionSchemaDraft]

IsInteger(n) == n \in Int /\ -Half <= n /\ n < 2 * Half

get_int64(n) == IF n < Half THEN n ELSE n - 2 * Half

(* BlastRadiusLimit::parse_signed                                          *)
parse_signed(n) == {m \in {get_int64(n)} : m >= 0}

(* Everything the parser wants to be there.                                *)
WellFormed(doc) ==
    /\ doc.id \in ActionIds /\ doc.version \in Versions
    /\ doc.parameters = "object"
    /\ doc.reversibility \in ReversibilityClass
    /\ doc.class \in BlastRadiusClass /\ IsInteger(doc.maxEntities)
    /\ doc.texts = "copied"
    /\ doc.dryRun \in DryRunRequirement /\ doc.sideEffects \in SideEffectClass
    /\ doc.confirmation \in ConfirmationMode /\ doc.rollback \in RollbackStrategy
    /\ doc.examples \in {"object", "empty_object", "intent_empty"}

create_schema(s) == {t \in {s} : validate(t.draft) = "ok"}

parse_action_schema_json(doc) ==
    IF ~WellFormed(doc) THEN {}
    ELSE UNION {create_schema(
        [action_id |-> doc.id, version |-> doc.version,
         draft |-> [reversibility |-> doc.reversibility, blast_radius |-> doc.class, limit |-> limit,
                    dry_run |-> doc.dryRun, side_effect |-> doc.sideEffects,
                    confirmation |-> doc.confirmation, rollback |-> doc.rollback,
                    parameters |-> "object", example |-> doc.examples]]) :
        limit \in parse_signed(doc.maxEntities)}

(* A parameter schema that is no JSON is written as a string; parameters   *)
(* of an example that are none are replaced by an empty object.            *)
serialize_action_schema_json(s) ==
    [id |-> s.action_id, version |-> s.version,
     parameters    |-> IF s.draft.parameters = "object" THEN "object" ELSE Bad,
     reversibility |-> s.draft.reversibility,
     class         |-> s.draft.blast_radius,
     maxEntities   |-> s.draft.limit,
     texts         |-> "copied",
     dryRun        |-> s.draft.dry_run,
     sideEffects   |-> s.draft.side_effect,
     confirmation  |-> s.draft.confirmation,
     rollback      |-> s.draft.rollback,
     examples      |-> CASE s.draft.example = "text" -> "empty_object"
                         [] s.draft.example = "json" -> Bad
                         [] s.draft.example \notin {"text", "json"} -> s.draft.example]

-----------------------------------------------------------------------------
(* Schemas that JSON can carry.                                            *)
Portable(s) ==
    /\ s.draft.parameters = "object"
    /\ s.draft.limit < Half
    /\ s.draft.example \in {"object", "empty_object"}

(* action_schema_json.hpp:22, "round-trips without loss", holds of these   *)
(* schemas and of no others, among those the domain accepts.               *)
RoundTrips(s) ==
    parse_action_schema_json(serialize_action_schema_json(s)) = {s} <=> Portable(s)

(* What was read from a document can be written and read again, and the    *)
(* number in the document is the limit of the action.                      *)
ReadAsWritten(doc) ==
    \A s \in parse_action_schema_json(doc) : Portable(s) /\ s.draft.limit = doc.maxEntities
=============================================================================
