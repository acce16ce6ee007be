-------------------------- MODULE SessionAggregate --------------------------
(***************************************************************************)
(* The IntentSession aggregate of domain/session.hpp as a value: the       *)
(* record it keeps and, for every operation, the sessions the call can     *)
(* leave behind.  An operation returns the empty set when the code returns *)
(* an error (the object is then untouched) and otherwise the singleton of  *)
(* the mutated session, so a caller writes  s' \in Confirm(s, now).        *)
(*                                                                         *)
(* Data abstraction.  A JSON text, a question, an answer or a note is a    *)
(* member of Values or Texts; the empty std::string and std::nullopt are   *)
(* both Nil, because no operation tells them apart: a slot value, the only *)
(* std::optional text, can never be set to the empty string.  The result   *)
(* of the caller's dry run is represented by the parameters it was run on. *)
(***************************************************************************)
EXTENDS Naturals, Sequences

CONSTANTS
    SlotNames,  \* non-empty slot names
    Values,     \* non-empty JSON texts a slot can be filled with
    Texts,      \* non-empty questions, answers, results and notes
    Owners,     \* (operator_id, tenant_id) pairs
    Nil         \* the empty string, and the absent optional

SessionState  == {"fill", "clarification", "preview", "commit", "archive"}
ArchiveReason == {"completed", "cancelled", "expired"}

ASSUME NilAssumption == Nil \notin SlotNames \cup Values \cup Texts \cup ArchiveReason

Slot == [name : SlotNames, required : BOOLEAN, value : Values \cup {Nil}]

(* What a caller may pass to create(): a name can still be empty.          *)
SlotDraft == [name : SlotNames \cup {Nil}, required : BOOLEAN, value : Values \cup {Nil}]

(* The parameters a dry run sees: the value of every slot, by position.    *)
Params(slots) == [i \in DOMAIN slots |-> slots[i].value]

IntentSession ==
    [owner          : Owners,
     state          : SessionState,
     slots          : Seq(Slot),
     created_at     : Nat,
     updated_at     : Nat,
     ttl            : Nat,
     question       : Texts \cup {Nil},
     answer         : Texts \cup {Nil},
     preview_result : Seq(Values \cup {Nil}) \cup {Nil},
     result         : Texts \cup {Nil},
     note           : Texts \cup {Nil},
     reason         : ArchiveReason \cup {Nil}]

-----------------------------------------------------------------------------
(* Queries *)

is_terminal(state) == state = "archive"

is_filled(slot) == slot.value # Nil

all_required_slots_filled(s) ==
    \A i \in DOMAIN s.slots : s.slots[i].required => is_filled(s.slots[i])

is_expired(s, now) == now >= s.created_at + s.ttl

(* std::find_if: the first slot that carries the name, if any does.        *)
FirstNamed(slots, name) ==
    {i \in DOMAIN slots :
        /\ slots[i].name = name
        /\ \A j \in 1..(i - 1) : slots[j].name # name}

-----------------------------------------------------------------------------
(* Operations *)

Accepted(guard, s) == IF guard THEN {s} ELSE {}

transition_to(s, next, now) == [s EXCEPT !.state = next, !.updated_at = now]

create(owner, slots, now, ttl) ==
    Accepted(\A i \in DOMAIN slots : slots[i].name # Nil,
             [owner |-> owner, state |-> "fill", slots |-> slots,
              created_at |-> now, updated_at |-> now, ttl |-> ttl,
              question |-> Nil, answer |-> Nil, preview_result |-> Nil,
              result |-> Nil, note |-> Nil, reason |-> Nil])

request_clarification(s, question, now) ==
    Accepted(s.state = "fill" /\ question # Nil,
             transition_to([s EXCEPT !.question = question], "clarification", now))

accept_clarification(s, answer, now) ==
    Accepted(s.state = "clarification",
             transition_to([s EXCEPT !.answer = answer, !.question = Nil], "fill", now))

(* Faulty variant: slots can still be filled under an open preview.        *)
fill_slot_in_preview(s, name, value, now) ==
    IF s.state \in {"fill", "preview"} /\ value # Nil
    THEN {[s EXCEPT !.slots[i].value = value, !.updated_at = now] :
             i \in FirstNamed(s.slots, name)}
    ELSE {}

fill_slot(s, name, value, now) ==
    IF s.state = "fill" /\ value # Nil
    THEN {[s EXCEPT !.slots[i].value = value, !.updated_at = now] :
             i \in FirstNamed(s.slots, name)}
    ELSE {}

(* Faulty variant: required slots are not looked at.                       *)
preview_unguarded(s, dry_run_result, now) ==
    Accepted(s.state = "fill",
             transition_to([s EXCEPT !.preview_result = dry_run_result], "preview", now))

preview(s, dry_run_result, now) ==
    Accepted(s.state = "fill" /\ all_required_slots_filled(s),
             transition_to([s EXCEPT !.preview_result = dry_run_result], "preview", now))

(* Faulty variant: the rejected preview is not cleared.                    *)
reject_preview_keeping(s, now) ==
    Accepted(s.state = "preview", transition_to(s, "fill", now))

reject_preview(s, now) ==
    Accepted(s.state = "preview",
             transition_to([s EXCEPT !.preview_result = Nil], "fill", now))

(* Faulty variant: confirmation without a preview.                         *)
confirm_unseen(s, now) ==
    Accepted(s.state \in {"fill", "preview"}, transition_to(s, "commit", now))

confirm(s, now) ==
    Accepted(s.state = "preview", transition_to(s, "commit", now))

complete(s, result, now) ==
    Accepted(s.state = "commit",
             transition_to([s EXCEPT !.result = result, !.reason = "completed"],
                           "archive", now))

(* Faulty variant: cancelling what is archived already.                    *)
cancel_always(s, note, now) ==
    {transition_to([s EXCEPT !.note = note, !.reason = "cancelled"], "archive", now)}

cancel(s, note, now) ==
    Accepted(~is_terminal(s.state),
             transition_to([s EXCEPT !.note = note, !.reason = "cancelled"],
                           "archive", now))

(* Faulty variant: expiring what is archived already.                      *)
expire_always(s, now) ==
    {transition_to([s EXCEPT !.reason = "expired"], "archive", now)}

expire(s, now) ==
    Accepted(~is_terminal(s.state),
             transition_to([s EXCEPT !.reason = "expired"], "archive", now))

-----------------------------------------------------------------------------
(* What every session value satisfies, by the conjunct of ADR-0007 it      *)
(* makes precise ("invalid state combinations are unrepresentable").       *)

(* The operator has confirmed: the action runs, or has run.                *)
Approved(s) == s.state = "commit" \/ s.reason = "completed"

(* A session shown to the operator, being executed or completed has every  *)
(* required slot filled.                                                   *)
RequiredFilled(s) ==
    s.state = "preview" \/ Approved(s) => all_required_slots_filled(s)

(* The parameters that are executed are the ones the operator was shown.   *)
ShownIsCurrent(s) ==
    s.state = "preview" \/ Approved(s) => s.preview_result = Params(s.slots)

(* No dry-run result survives into a phase where slots can still change,   *)
(* so a rejected preview can never be taken for the current one.           *)
NoStalePreview(s) ==
    s.state \in {"fill", "clarification"} => s.preview_result = Nil

(* A question is pending exactly while its answer is awaited; a session    *)
(* archived while the question was open keeps it.                          *)
QuestionMatchesState(s) ==
    /\ s.state = "clarification" => s.question # Nil
    /\ s.question # Nil => \/ s.state = "clarification"
                           \/ s.reason \in {"cancelled", "expired"}

(* A reason is recorded exactly for archived sessions, and only completed  *)
(* ones have a result.                                                     *)
ReasonMatchesState(s) ==
    /\ (s.state = "archive") = (s.reason # Nil)
    /\ s.result # Nil => s.reason = "completed"

SoundSession(s) ==
    /\ RequiredFilled(s)
    /\ ShownIsCurrent(s)
    /\ NoStalePreview(s)
    /\ QuestionMatchesState(s)
    /\ ReasonMatchesState(s)
=============================================================================
