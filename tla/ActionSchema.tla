---------------------------- MODULE ActionSchema ----------------------------
(***************************************************************************)
(* The construction rules of domain/action_schema.hpp.  A draft is its     *)
(* safety metadata and the shape of its JSON texts: an object, an object   *)
(* without members, some other JSON value, or a text that is no JSON at    *)
(* all.  Names, scopes and the contents of texts are left out.  A validator *)
(* returns the error code of the first rule the draft breaks, or "ok".     *)
(***************************************************************************)
EXTENDS Naturals

ReversibilityClass == {"reversible", "compensable", "irreversible"}
BlastRadiusClass   == {"scoped", "bounded", "broad"}
DryRunRequirement  == {"mandatory", "optional", "not_applicable"}
SideEffectClass    == {"read_only", "writes_system", "external_calls", "notifications"}
ConfirmationMode   == {"automatic", "single", "typed", "multi_party", "cooling_off"}
RollbackStrategy   == {"none", "rollback_api", "compensating_action", "manual"}

ActionSchemaDraft ==
    [reversibility : ReversibilityClass,
     blast_radius  : BlastRadiusClass,
     limit         : Nat,
     dry_run       : DryRunRequirement,
     side_effect   : SideEffectClass,
     confirmation  : ConfirmationMode,
     rollback      : RollbackStrategy,
     parameters    : {"object", "json", "text"},
     example       : {"object", "empty_object", "json", "text", "intent_empty", "parameters_empty"}]

validate_rollback(d) ==
    IF d.reversibility = "reversible" /\ d.rollback # "rollback_api"
        THEN "rollback.reversible_requires_api"
    ELSE IF d.reversibility = "compensable" /\ d.rollback # "compensating_action"
        THEN "rollback.compensable_requires_action"
    ELSE IF /\ d.reversibility = "irreversible"
            /\ d.rollback \in {"rollback_api", "compensating_action"}
        THEN "rollback.irreversible_has_rollback"
    ELSE "ok"

validate_confirmation(d) ==
    IF /\ d.confirmation = "automatic"
       /\ d.side_effect # "read_only" \/ d.blast_radius # "scoped"
        THEN "confirmation.automatic_not_low_risk"
    ELSE IF d.blast_radius = "bounded" /\ d.confirmation = "automatic"
        THEN "confirmation.bounded_requires_operator"
    ELSE IF d.blast_radius = "broad" /\ d.confirmation \notin {"multi_party", "cooling_off"}
        THEN "confirmation.broad_requires_strict_mode"
    ELSE "ok"

validate_dry_run(d) ==
    IF d.side_effect = "read_only" /\ d.dry_run # "not_applicable"
        THEN "dry_run.read_only_not_applicable"
    ELSE IF /\ d.reversibility = "irreversible" /\ d.side_effect # "read_only"
            /\ d.dry_run # "mandatory"
        THEN "dry_run.irreversible_requires_dry_run"
    ELSE "ok"

(* Only an empty text is refused.                                          *)
validate_examples(d) ==
    IF d.example \in {"intent_empty", "parameters_empty"} THEN d.example ELSE "ok"

validate(d) ==
    IF validate_rollback(d) # "ok" THEN validate_rollback(d)
    ELSE IF validate_confirmation(d) # "ok" THEN validate_confirmation(d)
    ELSE IF validate_dry_run(d) # "ok" THEN validate_dry_run(d)
    ELSE validate_examples(d)

-----------------------------------------------------------------------------
(* The rules as docs/spec/action-schema-v0.md:11-18 lists them, "parameter *)
(* JSON" of an example read as a text that is not empty.                   *)
SpecifiedRules(d) ==
    /\ d.reversibility = "reversible" => d.rollback = "rollback_api"
    /\ d.reversibility = "compensable" => d.rollback = "compensating_action"
    /\ d.reversibility = "irreversible" => d.rollback \in {"none", "manual"}
    /\ d.confirmation = "automatic"
           => d.blast_radius = "scoped" /\ d.side_effect = "read_only"
    /\ d.blast_radius = "broad" => d.confirmation \in {"multi_party", "cooling_off"}
    /\ d.side_effect = "read_only" => d.dry_run = "not_applicable"
    /\ d.reversibility = "irreversible" /\ d.side_effect # "read_only"
           => d.dry_run = "mandatory"
    /\ d.example \notin {"intent_empty", "parameters_empty"}

(* ActionSchema::create accepts exactly the drafts that document admits,   *)
(* whichever rule the code looks at first.                                 *)
AcceptsAsSpecified ==
    \A d \in ActionSchemaDraft : validate(d) = "ok" <=> SpecifiedRules(d)
=============================================================================
