------------------------ MODULE MCValidationPipeline ------------------------
(* One operator whose requests probe each stage: an unregistered action,   *)
(* one he may not invoke, one whose scope he lacks, one above his class,   *)
(* too many entities, a plain scoped write and a broad one with dry run.   *)
EXTENDS ValidationPipeline, TLC

MCSchema(class, limit, dry_run, scopes) ==
    [class |-> class, limit |-> limit, dry_run |-> dry_run, required_scopes |-> scopes]

MCRegistry ==
    [a \in ActionIds \ {"unknown"} |->
        CASE a = "edit"  -> MCSchema("scoped", 4, "optional", {"w"})
          [] a = "purge" -> MCSchema("broad", 2, "mandatory", {"w"})
          [] a = "admin" -> MCSchema("scoped", 2, "optional", {"w", "adm"})
          [] a = "grant" -> MCSchema("scoped", 2, "optional", {"w"})]

MCRequest(action, estimated, max_class) ==
    [operator |-> "op", session |-> "s", action |-> action, estimated |-> estimated,
     permitted |-> {"edit", "purge", "admin"}, scopes |-> {"w"}, max_class |-> max_class]

MCRequests ==
    {MCRequest("unknown", 1, "broad"), MCRequest("grant", 1, "broad"),
     MCRequest("admin", 1, "broad"), MCRequest("purge", 1, "bounded"),
     MCRequest("edit", 5, "broad"), MCRequest("edit", 4, "broad"),
     MCRequest("purge", 1, "broad"), MCRequest("purge", 2, "broad")}

MCLimits == [c \in Classes |-> IF c = "broad" THEN 2 ELSE 1]
Symmetry == Permutations(Threads)

(* Unlimited, as the default configuration has it: the largest integer.    *)
MCCeilings == [c \in BudgetClasses |-> IF c = "broad" THEN 2 ELSE Word - 1]
=============================================================================
