-------------------------- MODULE SessionSnapshot --------------------------
(***************************************************************************)
(* What leaves the server of a session: the projection of                  *)
(* session_snapshot.cpp, read back as the Session of types.ts.  An empty   *)
(* text becomes null, both Nil; owner, ids and timestamps are constant or  *)
(* decide nothing on the page and are left out.                            *)
(***************************************************************************)
EXTENDS SessionAggregate, SequencesExt

ConfirmationModes == {"automatic", "single", "typed", "multi_party", "cooling_off"}

Snapshot ==
    [state                  : SessionState,
     confirmation_mode      : ConfirmationModes,
     slots                  : Seq(Slot),
     clarification_question : Texts \cup {Nil},
     preview_result         : Seq(Values \cup {Nil}) \cup {Nil},
     archive_reason         : ArchiveReason \cup {Nil}]

make_snapshot(s, mode) ==
    [state                  |-> s.state,
     confirmation_mode      |-> mode,
     slots                  |-> s.slots,
     clarification_question |-> s.question,
     preview_result         |-> s.preview_result,
     archive_reason         |-> s.reason]

(* Faulty variant: one value is enough.                                    *)
someFilled(slots) == \E i \in DOMAIN slots : slots[i].value # Nil

(* <aui-slot-form>: Continue can be clicked.                               *)
allFilled(slots) == \A i \in DOMAIN slots : ~slots[i].required \/ slots[i].value # Nil

(* <aui-session-preview>: a row for each slot with a value, and the result *)
(* of the dry run.                                                         *)
Rows(slots) == {<<s.name, s.value>> : s \in {t \in Range(slots) : t.value # Nil}}

PreviewOf(snapshot) == [rows |-> Rows(snapshot.slots), result |-> snapshot.preview_result]
=============================================================================
